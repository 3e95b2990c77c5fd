----------------------------- MODULE AlphaStream -----------------------------
(***************************************************************************)
(* The router's loop (router.py): read a batch of new entries of the Redis *)
(* stream alphas:active through a consumer group, route each, acknowledge  *)
(* the batch.  Routing is reduced to its durable effects, the intent row   *)
(* and the TCA row; BudgetReservation models what decides them.            *)
(*                                                                         *)
(* An entry is a position in the stream; the same alpha may be published   *)
(* more than once.                                                         *)
(***************************************************************************)
EXTENDS Integers, Sequences, FiniteSets

CONSTANTS
  Alphas,        \* what producers publish
  BadPayloads,   \* those that are empty or do not validate as an Alpha
  Workers,       \* router processes of the consumer group
  BatchSize,     \* settings.batch_size
  MaxEntries,    \* bound on the length of the stream
  MaxCrashes,    \* bound on process deaths
  Faults         \* may an await of the loop fail?

ASSUME StreamAssumption ==
  /\ BadPayloads \subseteq Alphas
  /\ IsFiniteSet(Workers)
  /\ BatchSize \in Nat \ {0}
  /\ MaxEntries \in Nat
  /\ MaxCrashes \in Nat
  /\ Faults \in BOOLEAN

VARIABLES
  stream,      \* the entries published
  lastId,      \* last-delivered-id of the group
  pel,         \* its pending entries list
  loop,        \* per worker: "down", "idle", "batch", "insert" or "record"
  batch,       \* per worker: entries read and not yet routed, in order
  ackIds,      \* per worker: ack_ids
  decision,    \* per worker: the decision about to be inserted
  rows,        \* status of the oms_intents row of an alpha
  fills,       \* TCA rows of an alpha
  outcome,     \* how routing of an entry ended (its log line)
  crashes      \* process deaths so far

streamVars == <<stream, lastId, pel>>
tables     == <<rows, fills>>
locals     == <<loop, batch, ackIds, decision>>
vars       == <<streamVars, locals, tables, outcome, crashes>>

Positions == 1..MaxEntries
Statuses  == {"queued", "rejected"}

TypeOK ==
  /\ stream \in Seq(Alphas) /\ Len(stream) <= MaxEntries
  /\ lastId \in 0..Len(stream)
  /\ pel \subseteq 1..lastId
  /\ loop \in [Workers -> {"down", "idle", "batch", "insert", "record"}]
  /\ batch \in [Workers -> Seq(Positions)]
  /\ ackIds \in [Workers -> SUBSET Positions]
  /\ decision \in [Workers -> Statuses \cup {"none"}]
  /\ rows \in [Alphas -> Statuses \cup {"none"}]
  /\ fills \in [Alphas -> Nat]
  /\ outcome \in [Positions -> {"unrouted", "bad", "skipped", "recorded", "duplicate", "raised", "lost"}]
  /\ crashes \in 0..MaxCrashes

Init ==
  /\ stream = <<>> /\ lastId = 0 /\ pel = {}
  /\ loop     = [w \in Workers |-> "idle"]
  /\ batch    = [w \in Workers |-> <<>>]
  /\ ackIds   = [w \in Workers |-> {}]
  /\ decision = [w \in Workers |-> "none"]
  /\ rows     = [a \in Alphas |-> "none"]
  /\ fills    = [a \in Alphas |-> 0]
  /\ outcome  = [i \in Positions |-> "unrouted"]
  /\ crashes  = 0

(* A producer appends an alpha, perhaps one it has published before.       *)
Publish(a) ==
  /\ Len(stream) < MaxEntries
  /\ stream' = Append(stream, a)
  /\ UNCHANGED <<lastId, pel, locals, tables, outcome, crashes>>

-----------------------------------------------------------------------------
(* XREADGROUP ... ">" COUNT batch_size: the entries after lastId, at most  *)
(* BatchSize of them.                                                      *)
LastRead == IF lastId + BatchSize < Len(stream) THEN lastId + BatchSize ELSE Len(stream)

DeliverWithoutAdvancing ==
  /\ lastId < Len(stream)
  /\ lastId' = lastId
  /\ pel' = pel \cup (lastId + 1)..LastRead
Deliver ==
  /\ lastId < Len(stream)
  /\ lastId' = LastRead
  /\ pel' = pel \cup (lastId + 1)..LastRead

ReadBatchPending(w) ==
  /\ loop[w] = "idle"
  /\ Deliver
  /\ \E q \in [1..Cardinality(pel') -> pel'] :
       /\ \A j, k \in DOMAIN q : j < k => q[j] < q[k]
       /\ batch' = [batch EXCEPT ![w] = q]
  /\ ackIds' = [ackIds EXCEPT ![w] = {}]
  /\ loop'   = [loop EXCEPT ![w] = "batch"]
  /\ UNCHANGED <<stream, decision, tables, outcome, crashes>>
ReadBatch(w) ==
  /\ loop[w] = "idle"
  /\ Deliver
  /\ batch'  = [batch EXCEPT ![w] = [k \in 1..(LastRead - lastId) |-> lastId + k]]
  /\ ackIds' = [ackIds EXCEPT ![w] = {}]
  /\ loop'   = [loop EXCEPT ![w] = "batch"]
  /\ UNCHANGED <<stream, decision, tables, outcome, crashes>>

(* Entries of S that no handler has, or will ever, finish.                 *)
Lose(S) == outcome' = [i \in Positions |-> IF i \in S THEN "lost" ELSE outcome[i]]

(* The server hands the entries to the group but the reply is lost: the    *)
(* loop sleeps and asks for newer ones.                                    *)
ReadReplyLost(w) ==
  /\ Faults
  /\ loop[w] = "idle"
  /\ Deliver
  /\ Lose((lastId + 1)..LastRead)
  /\ UNCHANGED <<stream, locals, tables, crashes>>

(* The entry being routed, and its alpha.                                  *)
Current(w) == Head(batch[w])
Alpha(w)   == stream[Current(w)]

(* The handler of the current entry is over with the given outcome; the    *)
(* entry will be acknowledged with the batch, or not.                      *)
FinishAcked(w, result) ==
  /\ outcome' = [outcome EXCEPT ![Current(w)] = result]
  /\ ackIds'  = [ackIds EXCEPT ![w] = @ \cup {Current(w)}]
  /\ batch'   = [batch EXCEPT ![w] = Tail(@)]
  /\ decision' = [decision EXCEPT ![w] = "none"]
  /\ loop'    = [loop EXCEPT ![w] = "batch"]
FinishUnacked(w) ==
  /\ outcome' = [outcome EXCEPT ![Current(w)] = "raised"]
  /\ batch'   = [batch EXCEPT ![w] = Tail(@)]
  /\ decision' = [decision EXCEPT ![w] = "none"]
  /\ loop'    = [loop EXCEPT ![w] = "batch"]
  /\ UNCHANGED ackIds

Routing(w) == loop[w] = "batch" /\ batch[w] # <<>>

DropBadPayload(w) ==
  /\ Routing(w)
  /\ Alpha(w) \in BadPayloads
  /\ FinishAcked(w, "bad")
  /\ UNCHANGED <<streamVars, tables, crashes>>

(* _route_one returns without a row: a watch alpha, an expired one, one    *)
(* without a strategy, or an accepted one sized to zero.                   *)
Skip(w) ==
  /\ Routing(w)
  /\ Alpha(w) \notin BadPayloads
  /\ FinishAcked(w, "skipped")
  /\ UNCHANGED <<streamVars, tables, crashes>>

Decide(w) ==
  /\ Routing(w)
  /\ Alpha(w) \notin BadPayloads
  /\ \E d \in Statuses : decision' = [decision EXCEPT ![w] = d]
  /\ loop' = [loop EXCEPT ![w] = "insert"]
  /\ UNCHANGED <<streamVars, batch, ackIds, tables, outcome, crashes>>

(* ON CONFLICT (strategy_id, idempotency_key) DO NOTHING.                  *)
Insert(w) ==
  /\ loop[w] = "insert"
  /\ rows[Alpha(w)] = "none"
  /\ rows' = [rows EXCEPT ![Alpha(w)] = decision[w]]
  /\ loop' = [loop EXCEPT ![w] = "record"]
  /\ UNCHANGED <<streamVars, batch, ackIds, decision, fills, outcome, crashes>>

DuplicateRecordedAgain(w) ==
  /\ loop[w] = "insert"
  /\ rows[Alpha(w)] # "none"
  /\ loop' = [loop EXCEPT ![w] = "record"]
  /\ UNCHANGED <<streamVars, batch, ackIds, decision, tables, outcome, crashes>>
Duplicate(w) ==
  /\ loop[w] = "insert"
  /\ rows[Alpha(w)] # "none"
  /\ FinishAcked(w, "duplicate")
  /\ UNCHANGED <<streamVars, tables, crashes>>

(* record_intent_fill swallows its errors.                                 *)
RecordFill(w) ==
  /\ loop[w] = "record"
  /\ \/ fills' = [fills EXCEPT ![Alpha(w)] = @ + 1]
     \/ Faults /\ UNCHANGED fills
  /\ FinishAcked(w, "recorded")
  /\ UNCHANGED <<streamVars, rows, crashes>>

(* An await before or at the insert raises; the insert may have committed. *)
(* The loop logs it, leaves the entry un-acked and goes on.                *)
RouteRaisesAcked(w) ==
  /\ Faults
  /\ Routing(w) \/ loop[w] = "insert"
  /\ Alpha(w) \notin BadPayloads
  /\ FinishAcked(w, "raised")
  /\ UNCHANGED <<streamVars, tables, crashes>>
RouteRaisesRetried(w) ==
  /\ Faults
  /\ Routing(w) \/ loop[w] = "insert"
  /\ Alpha(w) \notin BadPayloads
  /\ loop' = [loop EXCEPT ![w] = "batch"]
  /\ UNCHANGED <<streamVars, batch, ackIds, decision, tables, outcome, crashes>>
RouteRaises(w) ==
  /\ Faults
  /\ \/ Routing(w) /\ Alpha(w) \notin BadPayloads /\ UNCHANGED rows
     \/ loop[w] = "insert" /\ UNCHANGED rows
     \/ /\ loop[w] = "insert"
        /\ rows[Alpha(w)] = "none"
        /\ rows' = [rows EXCEPT ![Alpha(w)] = decision[w]]
  /\ FinishUnacked(w)
  /\ UNCHANGED <<streamVars, fills, crashes>>

(* XACK of the whole batch; its failure is logged and forgotten.           *)
AckBatch(w) ==
  /\ loop[w] = "batch" /\ batch[w] = <<>>
  /\ \/ pel' = pel \ ackIds[w]
     \/ Faults /\ ackIds[w] # {} /\ UNCHANGED pel
  /\ ackIds' = [ackIds EXCEPT ![w] = {}]
  /\ loop' = [loop EXCEPT ![w] = "idle"]
  /\ UNCHANGED <<stream, lastId, batch, decision, tables, outcome, crashes>>

-----------------------------------------------------------------------------
(* The process dies, or main cancels the loop; what it held is lost.       *)
Crash(w) ==
  /\ crashes < MaxCrashes
  /\ loop[w] # "down"
  /\ crashes' = crashes + 1
  /\ loop'    = [loop EXCEPT ![w] = "down"]
  /\ batch'   = [batch EXCEPT ![w] = <<>>]
  /\ ackIds'  = [ackIds EXCEPT ![w] = {}]
  /\ decision' = [decision EXCEPT ![w] = "none"]
  /\ Lose({batch[w][k] : k \in DOMAIN batch[w]})
  /\ UNCHANGED <<streamVars, tables>>

(* The container restarts; the group exists (BUSYGROUP) and keeps lastId.  *)
Restart(w) ==
  /\ loop[w] = "down"
  /\ loop' = [loop EXCEPT ![w] = "idle"]
  /\ UNCHANGED <<streamVars, batch, ackIds, decision, tables, outcome, crashes>>

LoopStep(w) ==
  \/ ReadBatch(w)
  \/ ReadReplyLost(w)
  \/ DropBadPayload(w)
  \/ Skip(w)
  \/ Decide(w)
  \/ Insert(w)
  \/ Duplicate(w)
  \/ RecordFill(w)
  \/ RouteRaises(w)
  \/ AckBatch(w)

Next ==
  \/ \E a \in Alphas : Publish(a)
  \/ \E w \in Workers : LoopStep(w) \/ Crash(w) \/ Restart(w)

Spec == Init /\ [][Next]_vars

(* A worker that can step does, and a dead one is restarted (the compose   *)
(* file's restart policy); producers need not publish.                     *)
Fairness == \A w \in Workers : WF_vars(LoopStep(w)) /\ WF_vars(Restart(w))

-----------------------------------------------------------------------------
Decided(i) == rows[stream[i]] # "none" \/ outcome[i] \in {"bad", "skipped"}

(* An entry leaves the pending list only when its alpha has been decided:  *)
(* the row exists, or the loop chose to drop it (router.py:443-470).       *)
AckedOnlyWhenDecided ==
  \A i \in 1..lastId : i \notin pel => Decided(i)

(* An intent has at most one TCA row from the router, and a TCA row has    *)
(* its intent (router.py:362-366).                                         *)
OneFillPerIntent ==
  \A a \in Alphas : fills[a] <= (IF rows[a] = "none" THEN 0 ELSE 1)

(* No entry is routed twice: with reads of new entries only, an outcome    *)
(* is final and no two workers hold the same entry (router.py:426-432).    *)
RoutedOnce ==
  [][\A i \in Positions : outcome[i] # "unrouted" => outcome'[i] = outcome[i]]_vars

(* A failing entry holds up none behind it, and nothing is dropped in      *)
(* silence: every published entry is delivered and its alpha decided, or   *)
(* its handler raised, or a crash or a lost reply cut it                   *)
(* (router.py:433-464).                                                    *)
EverythingAccountedFor ==
  \A i \in Positions :
    (i <= Len(stream)) ~> \/ outcome[i] \in {"raised", "lost"}
                          \/ outcome[i] # "unrouted" /\ Decided(i)

(* Every published alpha is eventually decided: at-least-once delivery     *)
(* (router.py:3-5, 464).                                                   *)
EverythingDecided ==
  \A i \in Positions : (i <= Len(stream)) ~> (i <= Len(stream) /\ Decided(i))

=============================================================================
