----------------------------- MODULE Supervisor -----------------------------
(***************************************************************************)
(* The life of the gateway's process (main.py): connect to Postgres, start *)
(* the tasks (router, health server, metrics refresh, bankroll refresh),   *)
(* wait for a signal or for the first task to end, cancel all, close the   *)
(* pool and the Redis client, exit; docker starts it again.  What a task   *)
(* does is reduced to its start, and to work that holds a connection of    *)
(* the pool; AlphaStream and Book model the work of two of them.           *)
(***************************************************************************)
EXTENDS Integers, FiniteSets

CONSTANTS
  Tasks,      \* names of the tasks started, "health" among them
  Requests,   \* slots for requests being answered by the health server
  MaxFaults   \* bound on outages, signals, kills, lost replies and taken ports

ASSUME SupervisorAssumption ==
  /\ {"router", "health"} \subseteq Tasks
  /\ Tasks \subseteq {"router", "health", "metrics", "bankroll"}
  /\ IsFiniteSet(Requests) /\ MaxFaults \in Nat

VARIABLES
  phase,      \* where _run is
  task,       \* per task: where it is
  request,    \* per slot: "none", or "checking" with a connection in use
  listening,  \* is the health server's socket open?
  pool,       \* the connection pool
  group,      \* does the consumer group exist in Redis?
  up,         \* which of "postgres" and "redis" answer
  stop,       \* the stop event
  faults

process   == <<phase, task, request, listening, pool, stop>>
world     == <<group, up, faults>>
superVars == <<process, world>>

Phases     == {"down", "connecting", "running", "cancelling", "closing", "closed"}
TaskStates == {"none", "starting", "idle", "querying", "unwinding", "over"}
Stores     == {"postgres", "redis"}

SupervisorTypeOK ==
  /\ phase \in Phases
  /\ task \in [Tasks -> TaskStates]
  /\ request \in [Requests -> {"none", "checking"}]
  /\ listening \in BOOLEAN /\ stop \in BOOLEAN /\ group \in BOOLEAN
  /\ pool \in {"none", "open", "closing", "closed"}
  /\ phase \in {"down", "connecting"} <=> pool = "none"
  /\ up \subseteq Stores
  /\ faults \in 0..MaxFaults

SupervisorInit ==
  /\ phase = "down" /\ pool = "none" /\ stop = FALSE /\ listening = FALSE
  /\ task = [t \in Tasks |-> "none"]
  /\ request = [q \in Requests |-> "none"]
  /\ group = FALSE /\ up = Stores /\ faults = 0

(* The process is gone, and with it all it held.                           *)
Die ==
  /\ phase' = "down" /\ pool' = "none" /\ stop' = FALSE /\ listening' = FALSE
  /\ task' = [t \in Tasks |-> "none"]
  /\ request' = [q \in Requests |-> "none"]

Fault == faults < MaxFaults /\ faults' = faults + 1

-----------------------------------------------------------------------------
(* docker-compose: restart: unless-stopped.                                *)
Restart ==
  /\ phase = "down" /\ phase' = "connecting"
  /\ UNCHANGED <<task, request, listening, pool, stop, world>>

(* create_pool opens a connection; the tasks and the signal handlers come  *)
(* in one step after it.                                                   *)
ConnectUnawaited == UNCHANGED pool
Connected        == pool' = "open"
Connect ==
  /\ phase = "connecting" /\ "postgres" \in up
  /\ Connected
  /\ phase' = "running"
  /\ task'  = [t \in Tasks |-> "starting"]
  /\ UNCHANGED <<request, listening, stop, world>>
ConnectFails ==
  /\ phase = "connecting" /\ "postgres" \notin up
  /\ Die
  /\ UNCHANGED world

(* A task that raises before its loop is over.                             *)
Become(t, state) == task' = [task EXCEPT ![t] = state]

(* ensure_consumer_group: a group that exists already is as good.          *)
EnsureGroupOnce == IF "redis" \in up /\ ~group THEN "idle" ELSE "over"
EnsureGroup     == IF "redis" \in up THEN "idle" ELSE "over"
StartRouter ==
  /\ task["router"] = "starting"
  /\ group' = (group \/ "redis" \in up)
  /\ Become("router", EnsureGroup)
  /\ UNCHANGED <<phase, request, listening, pool, stop, up, faults>>
StartRouterReplyLost ==
  /\ Fault
  /\ task["router"] = "starting"
  /\ group' = TRUE
  /\ Become("router", "over")
  /\ UNCHANGED <<phase, request, listening, pool, stop, up>>

StartHealth ==
  /\ task["health"] = "starting"
  /\ listening' = TRUE
  /\ Become("health", "idle")
  /\ UNCHANGED <<phase, request, pool, stop, world>>
BindFails ==
  /\ Fault
  /\ task["health"] = "starting"
  /\ Become("health", "over")
  /\ UNCHANGED <<phase, request, listening, pool, stop, group, up>>

(* The refresh loops have nothing before their first cycle.                *)
BeginWork(t) ==
  /\ t # "health"
  /\ \/ task[t] = "idle"
     \/ task[t] = "starting" /\ t # "router"
  /\ Become(t, "querying")
  /\ UNCHANGED <<phase, request, listening, pool, stop, world>>

(* A cycle ends well or, wrapped in try/except, badly: the loop goes on.   *)
EndWork(t) ==
  /\ task[t] = "querying"
  /\ Become(t, "idle")
  /\ UNCHANGED <<phase, request, listening, pool, stop, world>>

(* A /health request, answered as long as the process lives; the pool      *)
(* refuses a connection once it closes, and the answer is 503.             *)
BeginRequest(q) ==
  /\ listening /\ pool = "open"
  /\ request[q] = "none"
  /\ request' = [request EXCEPT ![q] = "checking"]
  /\ UNCHANGED <<phase, task, listening, pool, stop, world>>
EndRequest(q) ==
  /\ request[q] = "checking"
  /\ request' = [request EXCEPT ![q] = "none"]
  /\ UNCHANGED <<phase, task, listening, pool, stop, world>>

-----------------------------------------------------------------------------
(* asyncio.wait: FIRST_COMPLETED.                                          *)
AllEnded   == \A t \in Tasks : task[t] = "over"
FirstEnded == \E t \in Tasks : task[t] = "over"

CancelTask(t) ==
  CASE task[t] = "querying"             -> "unwinding"
    [] task[t] \in {"starting", "idle"} -> "over"
    [] OTHER                            -> task[t]
CancelAll ==
  /\ phase = "running"
  /\ stop \/ FirstEnded
  /\ phase' = "cancelling"
  /\ task'  = [t \in Tasks |-> CancelTask(t)]
  /\ UNCHANGED <<request, listening, pool, stop, world>>

(* A cancelled query gives its connection back.                            *)
Unwind(t) ==
  /\ task[t] = "unwinding"
  /\ Become(t, "over")
  /\ UNCHANGED <<phase, request, listening, pool, stop, world>>

(* asyncio.gather, then Pool.close, which waits for connections in use.    *)
NotGathered == TRUE
Gathered    == \A t \in Tasks : task[t] = "over"
BeginClose ==
  /\ phase = "cancelling" /\ Gathered
  /\ phase' = "closing" /\ pool' = "closing"
  /\ UNCHANGED <<task, request, listening, stop, world>>
EndClose ==
  /\ phase = "closing"
  /\ \A q \in Requests : request[q] = "none"
  /\ phase' = "closed" /\ pool' = "closed"
  /\ UNCHANGED <<task, request, listening, stop, world>>

(* The Redis client is closed and asyncio.run returns.                     *)
Exit ==
  /\ phase = "closed"
  /\ Die
  /\ UNCHANGED world

-----------------------------------------------------------------------------
(* SIGTERM or SIGINT: before the handlers are there it ends the process.   *)
Signal ==
  /\ Fault
  /\ \/ phase = "connecting" /\ Die
     \/ /\ phase \notin {"down", "connecting"}
        /\ stop' = TRUE
        /\ UNCHANGED <<phase, task, request, listening, pool>>
  /\ UNCHANGED <<group, up>>
Kill ==
  /\ Fault
  /\ phase # "down"
  /\ Die
  /\ UNCHANGED <<group, up>>

GoDown(s) ==
  /\ Fault
  /\ s \in up /\ up' = up \ {s}
  /\ UNCHANGED <<process, group>>
ComeUp(s) ==
  /\ s \notin up /\ up' = up \cup {s}
  /\ UNCHANGED <<process, group, faults>>

StartUp  == StartRouter \/ StartHealth
ShutDown == CancelAll \/ BeginClose \/ EndClose \/ Exit

SupervisorNext ==
  \/ Restart \/ Connect \/ ConnectFails \/ StartUp \/ ShutDown
  \/ StartRouterReplyLost \/ BindFails \/ Signal \/ Kill
  \/ \E t \in Tasks : BeginWork(t) \/ EndWork(t) \/ Unwind(t)
  \/ \E q \in Requests : BeginRequest(q) \/ EndRequest(q)
  \/ \E s \in Stores : GoDown(s) \/ ComeUp(s)

(* What is scheduled runs, a query ends one way or the other, docker       *)
(* restarts the container, and an outage ends.                             *)
SupervisorFairness ==
  /\ WF_superVars(Restart) /\ WF_superVars(Connect \/ ConnectFails)
  /\ WF_superVars(StartRouter) /\ WF_superVars(StartHealth) /\ WF_superVars(ShutDown)
  /\ \A t \in Tasks : /\ WF_superVars(BeginWork(t))
                      /\ WF_superVars(EndWork(t)) /\ WF_superVars(Unwind(t))
  /\ \A q \in Requests : WF_superVars(EndRequest(q))
  /\ \A s \in Stores : WF_superVars(ComeUp(s))

SupervisorSpec ==
  SupervisorInit /\ [][SupervisorNext]_superVars /\ SupervisorFairness

-----------------------------------------------------------------------------
(* The pool is not closed under a task or a request that uses it           *)
(* (main.py:64-67, db.py:33-36): routing that is cut off by a shutdown is  *)
(* cut off at an await of its own, never by an error of the pool.          *)
PoolOutlivesTasks ==
  /\ pool # "open" => \A t \in Tasks : task[t] \notin {"querying", "unwinding"}
  /\ pool = "closed" => \A q \in Requests : request[q] = "none"

(* The gateway never goes on with a part of it missing, and a signal, too, *)
(* ends it in bounded work (main.py:55-68).                                *)
FailsTogether == (stop \/ \E t \in Tasks : task[t] = "over") ~> (phase = "down")

(* Once outages, signals and kills are over, all tasks come to run and     *)
(* stay so: a start finds what an earlier one left, the consumer group     *)
(* among it (router.py:47-49, docker-compose.yml:5).                       *)
Recovers ==
  <>[](phase = "running" /\ \A t \in Tasks : task[t] \in {"idle", "querying"})

=============================================================================
