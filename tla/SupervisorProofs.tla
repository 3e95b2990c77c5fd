-------------------------- MODULE SupervisorProofs --------------------------
(***************************************************************************)
(* What holds of the process for any set of tasks and requests, and any    *)
(* number of outages, signals and kills: TLC checks an instance of the     *)
(* same formulas (Supervisor.cfg).                                         *)
(***************************************************************************)
EXTENDS Supervisor, TLAPS

(* How far _run has come decides what the pool and the tasks may be.       *)
PhaseConsistent ==
  /\ phase \in {"running", "cancelling"} <=> pool = "open"
  /\ phase = "closing" <=> pool = "closing"
  /\ phase = "closed" <=> pool = "closed"
  /\ \A t \in Tasks : task[t] = "none" <=> phase \in {"down", "connecting"}
  /\ \A t \in Tasks : task[t] = "unwinding" => phase = "cancelling"
  /\ phase \in {"closing", "closed"} => \A t \in Tasks : task[t] = "over"
  /\ phase = "cancelling" => \A t \in Tasks : task[t] \in {"unwinding", "over"}
  /\ pool \in {"none", "closed"} => \A q \in Requests : request[q] = "none"

SuperInv == SupervisorTypeOK /\ PhaseConsistent

LEMMA SuperInvInit == SupervisorInit => SuperInv
<1> SUFFICES ASSUME SupervisorInit PROVE SuperInv
  OBVIOUS
<1>1. SupervisorTypeOK
  <2>1. faults \in 0..MaxFaults
    BY SupervisorAssumption DEF SupervisorInit
  <2>2. /\ phase \in Phases /\ task \in [Tasks -> TaskStates]
        /\ request \in [Requests -> {"none", "checking"}]
        /\ up \subseteq Stores
    BY DEF SupervisorInit, Phases, TaskStates
  <2> QED
    BY <2>1, <2>2 DEF SupervisorInit, SupervisorTypeOK
<1>2. PhaseConsistent
  BY DEF SupervisorInit, PhaseConsistent
<1> QED
  BY <1>1, <1>2 DEF SuperInv

(* A process that is gone holds nothing.                                   *)
LEMMA GoneConsistent ==
  ASSUME SuperInv, Die, UNCHANGED <<group, up>>, faults' \in 0..MaxFaults
  PROVE  SuperInv'
<1>1. SupervisorTypeOK'
  BY DEF SuperInv, SupervisorTypeOK, Die, Phases, TaskStates
<1>2. PhaseConsistent'
  BY DEF PhaseConsistent, Die
<1> QED
  BY <1>1, <1>2 DEF SuperInv

(* The process starts, or is gone.                                         *)
LEMMA LifeStep ==
  ASSUME SuperInv, Restart \/ Connect \/ ConnectFails \/ Exit \/ Signal \/ Kill
  PROVE  SuperInv'
<1> USE SupervisorAssumption
    DEF SuperInv, SupervisorTypeOK, PhaseConsistent, Phases, TaskStates, world
<1>1. CASE Restart
  BY <1>1 DEF Restart
<1>2. CASE Connect
  BY <1>2 DEF Connect, Connected
<1>3. CASE ConnectFails
  BY <1>3, GoneConsistent DEF ConnectFails
<1>4. CASE Exit
  BY <1>4, GoneConsistent DEF Exit
<1>5. CASE Signal
  <2>1. faults' \in 0..MaxFaults
    BY <1>5 DEF Signal, Fault
  <2>2. CASE Die
    BY <1>5, <2>1, <2>2, GoneConsistent DEF Signal
  <2>3. CASE stop' = TRUE
    BY <1>5, <2>1, <2>3, GoneConsistent DEF Signal
  <2> QED
    BY <1>5, <2>2, <2>3 DEF Signal
<1>6. CASE Kill
  <2>1. faults' \in 0..MaxFaults
    BY <1>6 DEF Kill, Fault
  <2> QED
    BY <1>6, <2>1, GoneConsistent DEF Kill
<1> QED
  BY <1>1, <1>2, <1>3, <1>4, <1>5, <1>6

(* A task starts, works or raises.                                         *)
LEMMA TaskStep ==
  ASSUME SuperInv,
         \/ StartUp \/ StartRouterReplyLost \/ BindFails
         \/ \E t \in Tasks : BeginWork(t) \/ EndWork(t) \/ Unwind(t)
  PROVE  SuperInv'
<1> USE SupervisorAssumption
    DEF SuperInv, SupervisorTypeOK, PhaseConsistent, Phases, TaskStates, world, Become
<1>1. CASE StartRouter
  BY <1>1 DEF StartRouter, EnsureGroup
<1>2. CASE StartHealth
  BY <1>2 DEF StartHealth
<1>3. CASE StartRouterReplyLost
  BY <1>3 DEF StartRouterReplyLost, Fault
<1>4. CASE BindFails
  BY <1>4 DEF BindFails, Fault
<1>5. ASSUME NEW t \in Tasks, BeginWork(t) PROVE SuperInv'
  BY <1>5 DEF BeginWork
<1>6. ASSUME NEW t \in Tasks, EndWork(t) PROVE SuperInv'
  BY <1>6 DEF EndWork
<1>7. ASSUME NEW t \in Tasks, Unwind(t) PROVE SuperInv'
  BY <1>7 DEF Unwind
<1> QED
  BY <1>1, <1>2, <1>3, <1>4, <1>5, <1>6, <1>7 DEF StartUp

(* The shutdown, requests and the world around.                            *)
LEMMA StopStep ==
  ASSUME SuperInv,
         \/ CancelAll \/ BeginClose \/ EndClose
         \/ \E q \in Requests : BeginRequest(q) \/ EndRequest(q)
         \/ \E s \in Stores : GoDown(s) \/ ComeUp(s)
  PROVE  SuperInv'
<1> USE SupervisorAssumption
    DEF SuperInv, SupervisorTypeOK, PhaseConsistent, Phases, TaskStates, world, process
<1>1. CASE CancelAll
  <2>1. /\ \A t \in Tasks : task'[t] = CancelTask(t)
        /\ task' = [t \in Tasks |-> CancelTask(t)]
        /\ phase = "running" /\ phase' = "cancelling"
        /\ UNCHANGED <<request, listening, pool, stop, group, up, faults>>
    BY <1>1 DEF CancelAll
  <2>2. \A t \in Tasks : task[t] \in {"starting", "idle", "querying", "over"}
                         => CancelTask(t) \in {"unwinding", "over"}
    BY DEF CancelTask
  <2>3. \A t \in Tasks : task[t] # "none" /\ task[t] # "unwinding"
    BY <2>1
  <2>4. \A t \in Tasks : task'[t] \in {"unwinding", "over"}
    BY <2>1, <2>2, <2>3
  <2>5. task' \in [Tasks -> TaskStates]
    BY <2>1, <2>4
  <2> QED
    BY <2>1, <2>4, <2>5
<1>2. CASE BeginClose
  BY <1>2 DEF BeginClose, Gathered
<1>3. CASE EndClose
  BY <1>3 DEF EndClose
<1>4. ASSUME NEW q \in Requests, BeginRequest(q) \/ EndRequest(q) PROVE SuperInv'
  BY <1>4 DEF BeginRequest, EndRequest
<1>5. ASSUME NEW s \in Stores, GoDown(s) \/ ComeUp(s) PROVE SuperInv'
  BY <1>5 DEF GoDown, ComeUp, Fault
<1> QED
  BY <1>1, <1>2, <1>3, <1>4, <1>5

LEMMA SuperInvStep == SuperInv /\ [SupervisorNext]_superVars => SuperInv'
<1> SUFFICES ASSUME SuperInv, [SupervisorNext]_superVars PROVE SuperInv'
  OBVIOUS
<1>1. CASE SupervisorNext
  BY <1>1, LifeStep, TaskStep, StopStep DEF SupervisorNext, ShutDown
<1>2. CASE UNCHANGED superVars
  BY <1>2 DEF superVars, process, world, SuperInv, SupervisorTypeOK, PhaseConsistent
<1> QED
  BY <1>1, <1>2

-----------------------------------------------------------------------------
(* Types of the process and the world it runs in.                          *)
THEOREM SupervisorTyped == SupervisorSpec => []SupervisorTypeOK
<1>1. SuperInv => SupervisorTypeOK
  BY DEF SuperInv
<1> QED
  BY <1>1, SuperInvInit, SuperInvStep, PTL DEF SupervisorSpec

(* The pool outlives the tasks and requests that use it, in whatever state *)
(* a signal, a failed start or the end of a task finds them                *)
(* (main.py:64-67).                                                        *)
THEOREM PoolOutlives == SupervisorSpec => []PoolOutlivesTasks
<1>1. SuperInv => PoolOutlivesTasks
  BY DEF SuperInv, SupervisorTypeOK, PhaseConsistent, PoolOutlivesTasks, Phases, TaskStates
<1> QED
  BY <1>1, SuperInvInit, SuperInvStep, PTL DEF SupervisorSpec

=============================================================================
