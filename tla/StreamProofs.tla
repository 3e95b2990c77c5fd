---------------------------- MODULE StreamProofs ----------------------------
(***************************************************************************)
(* What holds of the consumer-group loop for any number of workers, any    *)
(* stream, and any failures and crashes: TLC checks instances of the same  *)
(* formulas (StreamSafe.cfg).                                              *)
(***************************************************************************)
EXTENDS FillsTca, TLAPS

(* An entry that is in a batch has been delivered and has no outcome yet.  *)
BatchesUnrouted ==
  \A w \in Workers : \A k \in DOMAIN batch[w] :
    batch[w][k] \in 1..lastId /\ outcome[batch[w][k]] = "unrouted"

(* It is there once, and with one worker.                                  *)
BatchesDisjoint ==
  \A w, v \in Workers : \A k \in DOMAIN batch[w], l \in DOMAIN batch[v] :
    batch[w][k] = batch[v][l] => w = v /\ k = l

UndeliveredUnrouted == \A i \in Positions : i > lastId => outcome[i] = "unrouted"

AcksDecided == \A w \in Workers : \A i \in ackIds[w] : i \in 1..lastId /\ Decided(i)

(* What a worker between two awaits of a handler relies on.                *)
HandlersConsistent ==
  \A w \in Workers :
    /\ loop[w] \in {"insert", "record"} => batch[w] # <<>>
    /\ loop[w] = "insert" => decision[w] \in Statuses
    /\ loop[w] = "record" => rows[Alpha(w)] # "none" /\ fills[Alpha(w)] = 0

(* Only the worker that inserted an intent goes on to its TCA row.         *)
OneRecorder ==
  \A w, v \in Workers :
    loop[w] = "record" /\ loop[v] = "record" /\ Alpha(w) = Alpha(v) => w = v

StreamInv ==
  /\ TypeOK
  /\ BatchesUnrouted /\ BatchesDisjoint /\ UndeliveredUnrouted
  /\ AcksDecided /\ AckedOnlyWhenDecided
  /\ HandlersConsistent /\ OneRecorder /\ OneFillPerIntent

-----------------------------------------------------------------------------
LEMMA StreamInvInit == Init => StreamInv
<1> SUFFICES ASSUME Init PROVE StreamInv
  OBVIOUS
<1> USE StreamAssumption DEF Init, Positions, Statuses
<1>1. TypeOK
  BY DEF TypeOK
<1>2. BatchesUnrouted /\ BatchesDisjoint /\ UndeliveredUnrouted
  BY DEF BatchesUnrouted, BatchesDisjoint, UndeliveredUnrouted
<1>3. AcksDecided /\ AckedOnlyWhenDecided
  BY DEF AcksDecided, AckedOnlyWhenDecided
<1>4. HandlersConsistent /\ OneRecorder /\ OneFillPerIntent
  BY DEF HandlersConsistent, OneRecorder, OneFillPerIntent
<1> QED
  BY <1>1, <1>2, <1>3, <1>4 DEF StreamInv

(* The head of a batch, and what is behind it.                             *)
LEMMA CurrentFacts ==
  ASSUME TypeOK, BatchesUnrouted, BatchesDisjoint,
         NEW w \in Workers, batch[w] # <<>>
  PROVE  /\ Current(w) = batch[w][1] /\ 1 \in DOMAIN batch[w]
         /\ Current(w) \in 1..lastId /\ Current(w) \in Positions
         /\ Current(w) \in DOMAIN stream
         /\ Alpha(w) \in Alphas
         /\ outcome[Current(w)] = "unrouted"
         /\ Tail(batch[w]) \in Seq(Positions)
         /\ DOMAIN Tail(batch[w]) = 1..(Len(batch[w]) - 1)
         /\ DOMAIN batch[w] = 1..Len(batch[w])
         /\ \A k \in DOMAIN Tail(batch[w]) :
              /\ k + 1 \in DOMAIN batch[w] /\ k \in Nat
              /\ Tail(batch[w])[k] = batch[w][k + 1]
              /\ Tail(batch[w])[k] # Current(w)
         /\ \A v \in Workers : \A k \in DOMAIN batch[v] :
              v # w => batch[v][k] # Current(w)
<1> USE StreamAssumption DEF TypeOK, Positions
<1>1. batch[w] \in Seq(Positions) /\ stream \in Seq(Alphas)
  OBVIOUS
<1>2. Current(w) = batch[w][1] /\ 1 \in DOMAIN batch[w]
  BY <1>1 DEF Current
<1>3. Current(w) \in 1..lastId /\ outcome[Current(w)] = "unrouted"
  BY <1>2 DEF BatchesUnrouted
<1>4. Current(w) \in Positions /\ Current(w) \in DOMAIN stream
  BY <1>1, <1>3
<1>5. Alpha(w) \in Alphas
  BY <1>1, <1>4 DEF Alpha
<1>6. /\ Tail(batch[w]) \in Seq(Positions)
      /\ DOMAIN Tail(batch[w]) = 1..(Len(batch[w]) - 1)
      /\ DOMAIN batch[w] = 1..Len(batch[w])
  BY <1>1
<1>7. ASSUME NEW k \in DOMAIN Tail(batch[w])
      PROVE  /\ k + 1 \in DOMAIN batch[w] /\ k \in Nat
             /\ Tail(batch[w])[k] = batch[w][k + 1]
             /\ Tail(batch[w])[k] # Current(w)
  <2>1. k + 1 \in DOMAIN batch[w] /\ k \in Nat /\ k + 1 # 1
    BY <1>1, <1>6
  <2>2. Tail(batch[w])[k] = batch[w][k + 1]
    BY <1>1, <1>6
  <2> QED
    BY <1>2, <2>1, <2>2 DEF BatchesDisjoint
<1>8. \A v \in Workers : \A k \in DOMAIN batch[v] : v # w => batch[v][k] # Current(w)
  BY <1>2 DEF BatchesDisjoint
<1> QED
  BY <1>2, <1>3, <1>4, <1>5, <1>6, <1>7, <1>8

-----------------------------------------------------------------------------
(* A handler that is over gives its entry up: what is left of the batches  *)
(* is still unrouted and held once.                                        *)
LEMMA BatchesShrink ==
  ASSUME TypeOK, BatchesUnrouted, BatchesDisjoint, UndeliveredUnrouted,
         NEW w \in Workers, batch[w] # <<>>, NEW r,
         lastId' = lastId, stream' = stream,
         outcome' = [outcome EXCEPT ![Current(w)] = r],
         batch' = [batch EXCEPT ![w] = Tail(@)]
  PROVE  BatchesUnrouted' /\ BatchesDisjoint' /\ UndeliveredUnrouted'
<1>1. /\ Current(w) \in 1..lastId /\ lastId \in Nat
      /\ \A k \in DOMAIN batch'[w] :
           /\ k + 1 \in DOMAIN batch[w] /\ k \in Nat
           /\ batch'[w][k] = batch[w][k + 1]
           /\ batch'[w][k] # Current(w)
  BY CurrentFacts DEF TypeOK
<1>2. \A v \in Workers : v # w => batch'[v] = batch[v]
  BY DEF TypeOK
<1>3. \A v \in Workers : \A k \in DOMAIN batch'[v] : batch'[v][k] # Current(w)
  BY CurrentFacts, <1>1, <1>2
<1>4. \A i \in Positions : i # Current(w) => outcome'[i] = outcome[i]
  BY DEF TypeOK
<1>5. 1..lastId \subseteq Positions
  BY StreamAssumption DEF TypeOK, Positions
<1>6. BatchesUnrouted'
  <2> SUFFICES ASSUME NEW v \in Workers, NEW k \in DOMAIN batch'[v]
               PROVE  batch'[v][k] \in 1..lastId /\ outcome'[batch'[v][k]] = "unrouted"
    BY DEF BatchesUnrouted
  <2>1. batch'[v][k] \in 1..lastId /\ outcome[batch'[v][k]] = "unrouted"
    BY <1>1, <1>2 DEF BatchesUnrouted
  <2> QED
    BY <2>1, <1>3, <1>4, <1>5
<1>7. BatchesDisjoint'
  <2> SUFFICES ASSUME NEW u \in Workers, NEW v \in Workers,
                      NEW k \in DOMAIN batch'[u], NEW l \in DOMAIN batch'[v],
                      batch'[u][k] = batch'[v][l]
               PROVE  u = v /\ k = l
    BY DEF BatchesDisjoint
  <2>1. CASE u # w /\ v # w
    BY <2>1, <1>2 DEF BatchesDisjoint
  <2>2. CASE u = w /\ v # w
    BY <2>2, <1>1, <1>2 DEF BatchesDisjoint
  <2>3. CASE u # w /\ v = w
    BY <2>3, <1>1, <1>2 DEF BatchesDisjoint
  <2>4. CASE u = w /\ v = w
    <3>1. k + 1 = l + 1
      BY <2>4, <1>1 DEF BatchesDisjoint
    <3> QED
      BY <2>4, <3>1, <1>1
  <2> QED
    BY <2>1, <2>2, <2>3, <2>4
<1>8. UndeliveredUnrouted'
  BY <1>1, <1>4 DEF UndeliveredUnrouted
<1> QED
  BY <1>6, <1>7, <1>8

(* A decision about a delivered entry lasts while its rows are only added  *)
(* to and the outcome of a dropped entry stays.                            *)
LEMMA DecidedLasts ==
  ASSUME TypeOK, NEW i \in 1..lastId, Decided(i),
         stream'[i] = stream[i],
         \A a \in Alphas : rows[a] # "none" => rows'[a] # "none",
         outcome[i] \in {"bad", "skipped"} => outcome'[i] = outcome[i]
  PROVE  Decided(i)'
<1>1. stream[i] \in Alphas
  BY DEF TypeOK
<1> QED
  BY <1>1 DEF Decided

(* A step that finishes the handler of an entry that is decided, and so    *)
(* will be acknowledged, keeps all that concerns batches and the pending   *)
(* list.                                                                   *)
LEMMA FinishAckedKeeps ==
  ASSUME StreamInv, NEW w \in Workers, batch[w] # <<>>,
         NEW r, r \in {"bad", "skipped"} \/ rows[Alpha(w)] # "none",
         FinishAcked(w, r), UNCHANGED <<streamVars, rows>>
  PROVE  /\ BatchesUnrouted' /\ BatchesDisjoint' /\ UndeliveredUnrouted'
         /\ AcksDecided' /\ AckedOnlyWhenDecided'
<1> USE DEF StreamInv, FinishAcked, streamVars
<1>1. BatchesUnrouted' /\ BatchesDisjoint' /\ UndeliveredUnrouted'
  BY BatchesShrink
<1>2. /\ Current(w) \in 1..lastId /\ Current(w) \in Positions
      /\ outcome[Current(w)] = "unrouted"
  BY CurrentFacts
<1>3. ASSUME NEW i \in 1..lastId, Decided(i)
      PROVE  Decided(i)'
  <2>1. i \in Positions
    BY StreamAssumption DEF TypeOK, Positions
  <2>2. outcome[i] \in {"bad", "skipped"} => outcome'[i] = outcome[i]
    BY <1>2, <2>1 DEF TypeOK
  <2> QED
    BY <1>3, <2>2, DecidedLasts
<1>4. ASSUME NEW i \in 1..lastId, i = Current(w)
      PROVE  Decided(i)'
  <2>1. outcome'[i] = r
    BY <1>2, <1>4 DEF TypeOK
  <2>2. rows'[stream'[i]] = rows[Alpha(w)]
    BY <1>4 DEF Alpha
  <2> QED
    BY <2>1, <2>2 DEF Decided
<1>5. AcksDecided'
  <2> SUFFICES ASSUME NEW v \in Workers, NEW i \in ackIds'[v]
               PROVE  i \in 1..lastId /\ Decided(i)'
    BY DEF AcksDecided
  <2>1. i = Current(w) \/ i \in ackIds[v]
    BY DEF TypeOK
  <2>2. i \in ackIds[v] => i \in 1..lastId /\ Decided(i)
    BY DEF AcksDecided
  <2> QED
    BY <1>2, <1>3, <1>4, <2>1, <2>2
<1>6. AckedOnlyWhenDecided'
  BY <1>3 DEF AckedOnlyWhenDecided
<1> QED
  BY <1>1, <1>5, <1>6

-----------------------------------------------------------------------------
(* Types.                                                                  *)
LEMMA TypeInsertStep ==
  ASSUME StreamInv, NEW w \in Workers, Decide(w) \/ Insert(w) \/ Restart(w)
  PROVE  TypeOK'
<1> USE StreamAssumption DEF StreamInv, TypeOK, Positions, Statuses, streamVars, tables
<1>1. CASE Decide(w)
  BY <1>1 DEF Decide
<1>2. CASE Insert(w)
  <2>1. decision[w] \in Statuses
    BY <1>2 DEF Insert, HandlersConsistent
  <2> QED
    BY <1>2, <2>1 DEF Insert
<1>3. CASE Restart(w)
  BY <1>3 DEF Restart
<1> QED
  BY <1>1, <1>2, <1>3

LEMMA TypeFinish ==
  ASSUME StreamInv, NEW w \in Workers, batch[w] # <<>>,
         \/ \E r \in {"bad", "skipped", "duplicate", "recorded"} : FinishAcked(w, r)
         \/ FinishUnacked(w),
         rows' \in [Alphas -> Statuses \cup {"none"}], fills' \in [Alphas -> Nat],
         UNCHANGED <<streamVars, crashes>>
  PROVE  TypeOK'
<1> USE StreamAssumption DEF StreamInv, streamVars
<1>1. Current(w) \in Positions /\ Tail(batch[w]) \in Seq(Positions)
  BY CurrentFacts
<1>2. /\ loop' \in [Workers -> {"down", "idle", "batch", "insert", "record"}]
      /\ batch' \in [Workers -> Seq(Positions)]
      /\ ackIds' \in [Workers -> SUBSET Positions]
      /\ decision' \in [Workers -> Statuses \cup {"none"}]
  <2>1. CASE FinishUnacked(w)
    BY <1>1, <2>1 DEF TypeOK, FinishUnacked
  <2>2. ASSUME NEW r \in {"bad", "skipped", "duplicate", "recorded"}, FinishAcked(w, r)
        PROVE  /\ loop' \in [Workers -> {"down", "idle", "batch", "insert", "record"}]
               /\ batch' \in [Workers -> Seq(Positions)]
               /\ ackIds' \in [Workers -> SUBSET Positions]
               /\ decision' \in [Workers -> Statuses \cup {"none"}]
    BY <1>1, <2>2 DEF TypeOK, FinishAcked
  <2> QED
    BY <2>1, <2>2
<1>3. outcome' \in [Positions -> {"unrouted", "bad", "skipped", "recorded", "duplicate", "raised", "lost"}]
  BY DEF TypeOK, FinishAcked, FinishUnacked
<1> QED
  BY <1>2, <1>3 DEF TypeOK

LEMMA TypeRouteStep ==
  ASSUME StreamInv, NEW w \in Workers,
         DropBadPayload(w) \/ Skip(w) \/ Duplicate(w) \/ RecordFill(w) \/ RouteRaises(w)
  PROVE  TypeOK'
<1> USE StreamAssumption DEF StreamInv, tables
<1>1. batch[w] # <<>>
  BY DEF DropBadPayload, Skip, Duplicate, RecordFill, RouteRaises, Routing, HandlersConsistent
<1>2. rows \in [Alphas -> Statuses \cup {"none"}] /\ fills \in [Alphas -> Nat]
  BY DEF TypeOK
<1>3. Alpha(w) \in Alphas
  BY <1>1, CurrentFacts
<1>4. CASE DropBadPayload(w) \/ Skip(w) \/ Duplicate(w)
  BY <1>1, <1>2, <1>4, TypeFinish DEF DropBadPayload, Skip, Duplicate
<1>5. CASE RecordFill(w)
  <2>1. fills' \in [Alphas -> Nat]
    BY <1>2, <1>3, <1>5 DEF RecordFill
  <2> QED
    BY <1>1, <1>2, <1>5, <2>1, TypeFinish DEF RecordFill
<1>6. CASE RouteRaises(w)
  <2>1. rows' \in [Alphas -> Statuses \cup {"none"}]
    BY <1>2, <1>6 DEF RouteRaises, HandlersConsistent
  <2> QED
    BY <1>1, <1>2, <1>6, <2>1, TypeFinish DEF RouteRaises
<1> QED
  BY <1>4, <1>5, <1>6

(* How far a read goes.                                                    *)
LEMMA LastReadFacts ==
  ASSUME TypeOK, lastId < Len(stream)
  PROVE  LastRead \in 1..Len(stream) /\ lastId < LastRead /\ lastId \in Nat /\ Len(stream) \in Nat
         /\ 1..LastRead \subseteq Positions
BY StreamAssumption DEF TypeOK, LastRead, Positions

LEMMA TypeReadStep ==
  ASSUME StreamInv, NEW w \in Workers, ReadBatch(w) \/ ReadReplyLost(w)
  PROVE  TypeOK'
<1> USE StreamAssumption DEF StreamInv, streamVars, tables, locals
<1>1. Deliver /\ LastRead \in 1..Len(stream) /\ lastId < LastRead /\ lastId \in Nat
      /\ 1..LastRead \subseteq Positions
  BY LastReadFacts DEF ReadBatch, ReadReplyLost, Deliver
<1>2. lastId' \in 0..Len(stream) /\ pel' \subseteq 1..lastId'
  BY <1>1 DEF TypeOK, Deliver
<1>3. CASE ReadBatch(w)
  <2>1. [k \in 1..(LastRead - lastId) |-> lastId + k] \in Seq(Positions)
    <3>1. \A k \in 1..(LastRead - lastId) : lastId + k \in 1..LastRead
      BY <1>1
    <3>2. LastRead - lastId \in Nat
      BY <1>1
    <3> QED
      BY <1>1, <3>1, <3>2
  <2> QED
    BY <1>2, <1>3, <2>1 DEF TypeOK, ReadBatch
<1>4. CASE ReadReplyLost(w)
  BY <1>2, <1>4 DEF TypeOK, ReadReplyLost, Lose
<1> QED
  BY <1>3, <1>4

LEMMA TypeAckStep ==
  ASSUME StreamInv, NEW w \in Workers, AckBatch(w) \/ Crash(w)
  PROVE  TypeOK'
<1> USE StreamAssumption DEF StreamInv, TypeOK, streamVars, tables
<1>1. CASE AckBatch(w)
  BY <1>1 DEF AckBatch
<1>2. CASE Crash(w)
  <2>1. outcome' \in [Positions -> {"unrouted", "bad", "skipped", "recorded", "duplicate", "raised", "lost"}]
    BY <1>2 DEF Crash, Lose
  <2>2. crashes' \in 0..MaxCrashes
    BY <1>2 DEF Crash
  <2>3. batch' \in [Workers -> Seq(Positions)] /\ ackIds' \in [Workers -> SUBSET Positions]
    BY <1>2 DEF Crash
  <2> QED
    BY <1>2, <2>1, <2>2, <2>3 DEF Crash
<1> QED
  BY <1>1, <1>2

LEMMA TypePublish ==
  ASSUME StreamInv, NEW a \in Alphas, Publish(a)
  PROVE  /\ TypeOK'
         /\ Len(stream) \in Nat /\ Len(stream') = Len(stream) + 1
         /\ \A i \in 1..lastId : i \in DOMAIN stream /\ stream'[i] = stream[i]
<1> USE StreamAssumption DEF StreamInv, TypeOK, streamVars, tables, locals, Publish
<1>1. stream' \in Seq(Alphas) /\ Len(stream') = Len(stream) + 1 /\ Len(stream) \in Nat
  OBVIOUS
<1>2. \A i \in 1..lastId : i \in DOMAIN stream /\ stream'[i] = stream[i]
  BY <1>1
<1> QED
  BY <1>1, <1>2

-----------------------------------------------------------------------------
(* Each step keeps the rest of the invariant.                              *)
LEMMA PublishKeeps ==
  ASSUME StreamInv, NEW a \in Alphas, Publish(a)
  PROVE  StreamInv'
<1> USE DEF StreamInv
<1>1. /\ TypeOK'
      /\ \A i \in 1..lastId : stream'[i] = stream[i]
  BY TypePublish
<1>2. UNCHANGED <<lastId, pel, locals, tables, outcome>>
  BY DEF Publish
<1>3. BatchesUnrouted' /\ BatchesDisjoint' /\ UndeliveredUnrouted'
  BY <1>2 DEF BatchesUnrouted, BatchesDisjoint, UndeliveredUnrouted, locals
<1>4. \A i \in 1..lastId : Decided(i) <=> Decided(i)'
  BY <1>1, <1>2 DEF Decided, tables
<1>5. AcksDecided' /\ AckedOnlyWhenDecided'
  BY <1>2, <1>4 DEF AcksDecided, AckedOnlyWhenDecided, locals
<1>6. \A w \in Workers : batch[w] # <<>> => Alpha(w)' = Alpha(w)
  <2> SUFFICES ASSUME NEW w \in Workers, batch[w] # <<>>
               PROVE  Alpha(w)' = Alpha(w)
    OBVIOUS
  <2>1. Current(w) \in 1..lastId
    BY CurrentFacts
  <2> QED
    BY <1>1, <1>2, <2>1 DEF Alpha, Current, locals
<1>7. HandlersConsistent' /\ OneRecorder'
  BY <1>2, <1>6 DEF HandlersConsistent, OneRecorder, locals, tables
<1>8. OneFillPerIntent'
  BY <1>2 DEF OneFillPerIntent, tables
<1> QED
  BY <1>1, <1>3, <1>5, <1>7, <1>8

(* A handler that is over and whose entry will be acknowledged.            *)
LEMMA AckedRouteKeeps ==
  ASSUME StreamInv, NEW w \in Workers,
         DropBadPayload(w) \/ Skip(w) \/ Duplicate(w) \/ RecordFill(w)
  PROVE  StreamInv'
<1> USE DEF StreamInv
<1>1. batch[w] # <<>>
  BY DEF DropBadPayload, Skip, Duplicate, RecordFill, Routing, HandlersConsistent
<1>2. PICK r \in {"bad", "skipped", "duplicate", "recorded"} :
        FinishAcked(w, r) /\ (r \in {"bad", "skipped"} \/ rows[Alpha(w)] # "none")
  BY DEF DropBadPayload, Skip, Duplicate, RecordFill, HandlersConsistent
<1>3. UNCHANGED <<streamVars, rows>>
  BY DEF DropBadPayload, Skip, Duplicate, RecordFill, tables
<1>4. TypeOK'
  BY TypeRouteStep
<1>5. /\ BatchesUnrouted' /\ BatchesDisjoint' /\ UndeliveredUnrouted'
      /\ AcksDecided' /\ AckedOnlyWhenDecided'
  BY <1>1, <1>2, <1>3, FinishAckedKeeps
<1>6. /\ loop'[w] = "batch"
      /\ \A v \in Workers : v # w => /\ loop'[v] = loop[v] /\ batch'[v] = batch[v]
                                     /\ decision'[v] = decision[v]
                                     /\ Alpha(v)' = Alpha(v)
  BY <1>2, <1>3 DEF FinishAcked, TypeOK, Alpha, Current, streamVars
<1>7. \A a \in Alphas : \/ fills'[a] = fills[a]
                        \/ loop[w] = "record" /\ a = Alpha(w) /\ fills'[a] = fills[a] + 1
  BY DEF DropBadPayload, Skip, Duplicate, RecordFill, tables, TypeOK
<1>8. Alpha(w) \in Alphas
  BY <1>1, CurrentFacts
<1>9. OneRecorder'
  BY <1>6 DEF OneRecorder
<1>10. HandlersConsistent'
  <2> SUFFICES ASSUME NEW v \in Workers
               PROVE  /\ loop'[v] \in {"insert", "record"} => batch'[v] # <<>>
                      /\ loop'[v] = "insert" => decision'[v] \in Statuses
                      /\ loop'[v] = "record" => /\ rows'[Alpha(v)'] # "none"
                                                /\ fills'[Alpha(v)'] = 0
    BY DEF HandlersConsistent
  <2>1. CASE v = w
    BY <1>6, <2>1
  <2>2. CASE v # w
    <3>1. loop[v] = "record" => Alpha(v) \in Alphas
      BY CurrentFacts DEF HandlersConsistent
    <3>2. loop[v] = "record" => fills'[Alpha(v)] = fills[Alpha(v)]
      BY <1>7, <2>2, <3>1 DEF OneRecorder
    <3> QED
      BY <1>3, <1>6, <2>2, <3>2 DEF HandlersConsistent
  <2> QED
    BY <2>1, <2>2
<1>11. OneFillPerIntent'
  <2> SUFFICES ASSUME NEW a \in Alphas
               PROVE  fills'[a] <= (IF rows'[a] = "none" THEN 0 ELSE 1)
    BY DEF OneFillPerIntent
  <2>1. CASE fills'[a] = fills[a]
    BY <1>3, <2>1 DEF OneFillPerIntent
  <2>2. CASE fills'[a] # fills[a]
    <3>1. fills[a] = 0 /\ rows[a] # "none" /\ fills'[a] = fills[a] + 1
      BY <1>7, <2>2 DEF HandlersConsistent
    <3> QED
      BY <1>3, <3>1
  <2> QED
    BY <2>1, <2>2
<1> QED
  BY <1>4, <1>5, <1>9, <1>10, <1>11

(* A handler that raised, perhaps after its insert committed.              *)
LEMMA RaisedRouteKeeps ==
  ASSUME StreamInv, NEW w \in Workers, RouteRaises(w)
  PROVE  StreamInv'
<1> USE DEF StreamInv
<1>1. batch[w] # <<>>
  BY DEF RouteRaises, Routing, HandlersConsistent
<1>2. FinishUnacked(w) /\ UNCHANGED <<streamVars, ackIds, fills>>
  BY DEF RouteRaises, FinishUnacked
<1>3. TypeOK'
  BY TypeRouteStep
<1>4. BatchesUnrouted' /\ BatchesDisjoint' /\ UndeliveredUnrouted'
  BY <1>1, <1>2, BatchesShrink DEF FinishUnacked, streamVars
<1>5. /\ Current(w) \in Positions /\ outcome[Current(w)] = "unrouted"
      /\ Alpha(w) \in Alphas
  BY <1>1, CurrentFacts
<1>6. \A a \in Alphas : rows[a] # "none" => rows'[a] = rows[a]
  BY <1>5 DEF RouteRaises, TypeOK
<1>7. ASSUME NEW i \in 1..lastId, Decided(i)
      PROVE  Decided(i)'
  <2>1. i \in Positions
    BY StreamAssumption DEF TypeOK, Positions
  <2>2. outcome[i] \in {"bad", "skipped"} => outcome'[i] = outcome[i]
    BY <1>2, <1>5, <2>1 DEF TypeOK, FinishUnacked
  <2> QED
    BY <1>2, <1>6, <1>7, <2>2, DecidedLasts DEF streamVars
<1>8. AcksDecided' /\ AckedOnlyWhenDecided'
  BY <1>2, <1>7 DEF AcksDecided, AckedOnlyWhenDecided, streamVars
<1>9. /\ loop'[w] = "batch"
      /\ \A v \in Workers : v # w => /\ loop'[v] = loop[v] /\ batch'[v] = batch[v]
                                     /\ decision'[v] = decision[v]
                                     /\ Alpha(v)' = Alpha(v)
  BY <1>2 DEF FinishUnacked, TypeOK, Alpha, Current, streamVars
<1>10. OneRecorder'
  BY <1>9 DEF OneRecorder
<1>11. HandlersConsistent'
  <2> SUFFICES ASSUME NEW v \in Workers, v # w
               PROVE  /\ loop'[v] \in {"insert", "record"} => batch'[v] # <<>>
                      /\ loop'[v] = "insert" => decision'[v] \in Statuses
                      /\ loop'[v] = "record" => /\ rows'[Alpha(v)'] # "none"
                                                /\ fills'[Alpha(v)'] = 0
    BY <1>9 DEF HandlersConsistent
  <2>1. loop[v] = "record" => Alpha(v) \in Alphas
    BY CurrentFacts DEF HandlersConsistent
  <2> QED
    BY <1>2, <1>6, <1>9, <2>1 DEF HandlersConsistent
<1>12. OneFillPerIntent'
  <2> SUFFICES ASSUME NEW a \in Alphas
               PROVE  fills[a] <= (IF rows'[a] = "none" THEN 0 ELSE 1)
    BY <1>2 DEF OneFillPerIntent
  <2>1. fills[a] \in Nat /\ fills[a] <= 1 /\ (rows[a] = "none" => fills[a] <= 0)
    BY DEF OneFillPerIntent, TypeOK
  <2> QED
    BY <1>6, <2>1
<1> QED
  BY <1>3, <1>4, <1>8, <1>10, <1>11, <1>12

(* Entries that are delivered, to a worker or to nobody.                   *)
LEMMA ReadKeeps ==
  ASSUME StreamInv, NEW w \in Workers, ReadBatch(w) \/ ReadReplyLost(w)
  PROVE  StreamInv'
<1> USE DEF StreamInv
<1>1. /\ Deliver /\ LastRead \in 1..Len(stream) /\ lastId < LastRead /\ lastId \in Nat
      /\ 1..LastRead \subseteq Positions /\ LastRead \in Nat
      /\ lastId' = LastRead /\ pel' = pel \cup (lastId + 1)..LastRead
      /\ stream' = stream /\ loop[w] = "idle"
  BY LastReadFacts DEF ReadBatch, ReadReplyLost, Deliver
<1>2. TypeOK'
  BY TypeReadStep
<1>3. /\ decision' = decision /\ UNCHANGED tables
      /\ \A v \in Workers : v # w => /\ loop'[v] = loop[v] /\ batch'[v] = batch[v]
                                     /\ ackIds'[v] = ackIds[v]
                                     /\ Alpha(v)' = Alpha(v)
      /\ loop'[w] \in {"idle", "batch"} /\ ackIds'[w] \subseteq ackIds[w]
  BY <1>1 DEF ReadBatch, ReadReplyLost, TypeOK, locals, Alpha, Current
<1>4. \A i \in Positions : i <= lastId \/ i > LastRead => outcome'[i] = outcome[i]
  BY <1>1 DEF ReadBatch, ReadReplyLost, Lose, TypeOK
<1>5. BatchesUnrouted' /\ BatchesDisjoint'
  <2>1. CASE ReadReplyLost(w)
    BY <1>1, <1>4, <2>1 DEF BatchesUnrouted, BatchesDisjoint, ReadReplyLost, locals
  <2>2. CASE ReadBatch(w)
    <3>1. /\ DOMAIN batch'[w] = 1..(LastRead - lastId)
          /\ \A k \in DOMAIN batch'[w] : batch'[w][k] = lastId + k
      BY <2>2 DEF ReadBatch, TypeOK
    <3>2. outcome' = outcome
      BY <2>2 DEF ReadBatch
    <3>3. BatchesUnrouted'
      <4> SUFFICES ASSUME NEW v \in Workers, NEW k \in DOMAIN batch'[v]
                   PROVE  batch'[v][k] \in 1..LastRead /\ outcome[batch'[v][k]] = "unrouted"
        BY <1>1, <3>2 DEF BatchesUnrouted
      <4>1. CASE v = w
        <5>1. batch'[v][k] = lastId + k /\ k \in 1..(LastRead - lastId)
          BY <3>1, <4>1
        <5>2. lastId + k \in 1..LastRead /\ lastId + k > lastId
          BY <1>1, <5>1
        <5> QED
          BY <1>1, <5>1, <5>2 DEF UndeliveredUnrouted
      <4>2. CASE v # w
        BY <1>1, <1>3, <4>2 DEF BatchesUnrouted
      <4> QED
        BY <4>1, <4>2
    <3>4. BatchesDisjoint'
      <4> SUFFICES ASSUME NEW u \in Workers, NEW v \in Workers,
                          NEW k \in DOMAIN batch'[u], NEW l \in DOMAIN batch'[v],
                          batch'[u][k] = batch'[v][l]
                   PROVE  u = v /\ k = l
        BY DEF BatchesDisjoint
      <4>1. \A x \in Workers : \A m \in DOMAIN batch'[x] :
              x # w => batch'[x][m] <= lastId
        BY <1>1, <1>3 DEF BatchesUnrouted
      <4>2. \A m \in DOMAIN batch'[w] : batch'[w][m] > lastId
        BY <1>1, <3>1
      <4>3. CASE u = w /\ v = w
        BY <1>1, <3>1, <4>3
      <4>4. CASE u # w /\ v # w
        BY <1>3, <4>4 DEF BatchesDisjoint
      <4>5. u = w <=> v = w
        <5>1. \A x \in Workers : \A m \in DOMAIN batch'[x] : x # w => batch'[x][m] \in 1..lastId
          BY <1>1, <1>3 DEF BatchesUnrouted
        <5> QED
          BY <1>1, <4>2, <5>1
      <4> QED
        BY <4>3, <4>4, <4>5
    <3> QED
      BY <3>3, <3>4
  <2> QED
    BY <2>1, <2>2
<1>6. UndeliveredUnrouted'
  BY <1>1, <1>4 DEF UndeliveredUnrouted, Positions
<1>7. ASSUME NEW i \in 1..lastId, Decided(i)
      PROVE  Decided(i)'
  BY <1>1, <1>3, <1>4, <1>7, DecidedLasts DEF tables
<1>8. AcksDecided'
  BY <1>1, <1>3, <1>7 DEF AcksDecided
<1>9. AckedOnlyWhenDecided'
  BY <1>1, <1>7 DEF AckedOnlyWhenDecided
<1>10. HandlersConsistent' /\ OneRecorder' /\ OneFillPerIntent'
  BY <1>3 DEF HandlersConsistent, OneRecorder, OneFillPerIntent, tables
<1> QED
  BY <1>2, <1>5, <1>6, <1>8, <1>9, <1>10

(* A decision, an insert, or a process that comes up.                      *)
LEMMA InsertKeeps ==
  ASSUME StreamInv, NEW w \in Workers, Decide(w) \/ Insert(w) \/ Restart(w)
  PROVE  StreamInv'
<1> USE DEF StreamInv
<1>1. TypeOK'
  BY TypeInsertStep
<1>2. /\ UNCHANGED <<streamVars, batch, ackIds, fills, outcome>>
      /\ \A v \in Workers : /\ Alpha(v)' = Alpha(v)
                            /\ v # w => loop'[v] = loop[v] /\ decision'[v] = decision[v]
  BY DEF Decide, Insert, Restart, TypeOK, Alpha, Current, streamVars, tables
<1>3. BatchesUnrouted' /\ BatchesDisjoint' /\ UndeliveredUnrouted'
  BY <1>2 DEF BatchesUnrouted, BatchesDisjoint, UndeliveredUnrouted, streamVars
<1>4. loop[w] = "insert" => Alpha(w) \in Alphas
  BY CurrentFacts DEF HandlersConsistent
<1>5. \A a \in Alphas : rows'[a] = rows[a]
        \/ /\ loop[w] = "insert" /\ loop'[w] = "record" /\ a = Alpha(w)
           /\ rows[a] = "none" /\ rows'[a] \in Statuses
  BY DEF Decide, Insert, Restart, TypeOK, tables, HandlersConsistent
<1>6. \A a \in Alphas : rows[a] # "none" => rows'[a] # "none"
  BY <1>5
<1>7. ASSUME NEW i \in 1..lastId, Decided(i)
      PROVE  Decided(i)'
  BY <1>2, <1>6, <1>7, DecidedLasts DEF streamVars
<1>8. AcksDecided' /\ AckedOnlyWhenDecided'
  BY <1>2, <1>7 DEF AcksDecided, AckedOnlyWhenDecided, streamVars
<1>9. loop'[w] = "record" => /\ loop[w] = "insert" /\ rows[Alpha(w)] = "none"
                             /\ rows'[Alpha(w)] # "none" /\ fills[Alpha(w)] = 0
  <2>1. CASE Insert(w)
    <3>1. rows[Alpha(w)] = "none" /\ loop[w] = "insert" /\ decision[w] \in Statuses
      BY <2>1 DEF Insert, HandlersConsistent
    <3>2. rows'[Alpha(w)] = decision[w]
      BY <1>4, <2>1, <3>1 DEF Insert, TypeOK
    <3>3. fills[Alpha(w)] = 0
      BY <1>4, <3>1 DEF OneFillPerIntent, TypeOK
    <3> QED
      BY <3>1, <3>2, <3>3 DEF Statuses
  <2>2. CASE Decide(w) \/ Restart(w)
    BY <2>2 DEF Decide, Restart, TypeOK
  <2> QED
    BY <2>1, <2>2
<1>10. \A v \in Workers : loop[v] = "record" => Alpha(v) \in Alphas
  BY CurrentFacts DEF HandlersConsistent
<1>11. HandlersConsistent'
  <2>1. loop'[w] \in {"insert", "record"} => batch[w] # <<>>
    BY DEF Decide, Insert, Restart, Routing, TypeOK, HandlersConsistent
  <2>2. loop'[w] = "insert" => decision'[w] \in Statuses
    BY DEF Decide, Insert, Restart, TypeOK
  <2> SUFFICES ASSUME NEW v \in Workers
               PROVE  /\ loop'[v] \in {"insert", "record"} => batch[v] # <<>>
                      /\ loop'[v] = "insert" => decision'[v] \in Statuses
                      /\ loop'[v] = "record" => /\ rows'[Alpha(v)] # "none"
                                                /\ fills[Alpha(v)] = 0
    BY <1>2 DEF HandlersConsistent
  <2>3. CASE v = w
    BY <1>9, <2>1, <2>2, <2>3
  <2>4. CASE v # w
    BY <1>2, <1>6, <1>10, <2>4 DEF HandlersConsistent
  <2> QED
    BY <2>3, <2>4
<1>12. OneRecorder'
  <2> SUFFICES ASSUME NEW u \in Workers, NEW v \in Workers,
                      loop'[u] = "record", loop'[v] = "record", Alpha(u) = Alpha(v)
               PROVE  u = v
    BY <1>2 DEF OneRecorder
  <2>1. ASSUME NEW x \in Workers, x # w, loop'[x] = "record"
        PROVE  rows[Alpha(x)] # "none" /\ loop[x] = "record"
    BY <1>2, <2>1 DEF HandlersConsistent
  <2> QED
    BY <1>9, <2>1 DEF OneRecorder
<1>13. OneFillPerIntent'
  <2> SUFFICES ASSUME NEW a \in Alphas
               PROVE  fills[a] <= (IF rows'[a] = "none" THEN 0 ELSE 1)
    BY <1>2 DEF OneFillPerIntent
  <2>1. fills[a] \in Nat /\ fills[a] <= 1 /\ (rows[a] = "none" => fills[a] <= 0)
    BY DEF OneFillPerIntent, TypeOK
  <2> QED
    BY <1>6, <2>1
<1> QED
  BY <1>1, <1>3, <1>8, <1>11, <1>12, <1>13

(* The acknowledgement of a batch, and a crash.                            *)
LEMMA AckKeeps ==
  ASSUME StreamInv, NEW w \in Workers, AckBatch(w)
  PROVE  StreamInv'
<1> USE DEF StreamInv
<1>1. TypeOK'
  BY TypeAckStep
<1>2. /\ UNCHANGED <<stream, lastId, batch, decision, tables, outcome>>
      /\ pel \ ackIds[w] \subseteq pel'
      /\ \A v \in Workers : /\ Alpha(v)' = Alpha(v) /\ ackIds'[v] \subseteq ackIds[v]
                            /\ v # w => loop'[v] = loop[v]
      /\ loop'[w] = "idle"
  BY DEF AckBatch, TypeOK, Alpha, Current
<1>3. BatchesUnrouted' /\ BatchesDisjoint' /\ UndeliveredUnrouted'
  BY <1>2 DEF BatchesUnrouted, BatchesDisjoint, UndeliveredUnrouted
<1>4. \A i \in 1..lastId : Decided(i) <=> Decided(i)'
  BY <1>2 DEF Decided, tables
<1>5. AcksDecided'
  BY <1>2, <1>4 DEF AcksDecided
<1>6. AckedOnlyWhenDecided'
  BY <1>2, <1>4 DEF AckedOnlyWhenDecided, AcksDecided
<1>7. HandlersConsistent' /\ OneRecorder' /\ OneFillPerIntent'
  BY <1>2 DEF HandlersConsistent, OneRecorder, OneFillPerIntent, tables
<1> QED
  BY <1>1, <1>3, <1>5, <1>6, <1>7

LEMMA CrashKeeps ==
  ASSUME StreamInv, NEW w \in Workers, Crash(w)
  PROVE  StreamInv'
<1> USE DEF StreamInv
<1>1. TypeOK'
  BY TypeAckStep
<1> DEFINE Held == {batch[w][k] : k \in DOMAIN batch[w]}
<1>2. /\ UNCHANGED <<streamVars, tables>>
      /\ outcome' = [i \in Positions |-> IF i \in Held THEN "lost" ELSE outcome[i]]
      /\ loop'[w] = "down" /\ batch'[w] = <<>> /\ ackIds'[w] = {}
      /\ \A v \in Workers : v # w => /\ loop'[v] = loop[v] /\ batch'[v] = batch[v]
                                     /\ ackIds'[v] = ackIds[v] /\ decision'[v] = decision[v]
                                     /\ Alpha(v)' = Alpha(v)
  BY DEF Crash, Lose, TypeOK, Alpha, Current, streamVars
<1>3. \A i \in Positions : i \notin Held => outcome'[i] = outcome[i]
  BY <1>2
<1>4. \A i \in Held : i \in 1..lastId /\ outcome[i] = "unrouted"
  BY DEF BatchesUnrouted
<1>5. \A v \in Workers : v # w => \A k \in DOMAIN batch[v] : batch[v][k] \notin Held
  BY DEF BatchesDisjoint
<1>6. \A v \in Workers : v # w => \A k \in DOMAIN batch[v] : batch[v][k] \in Positions
  BY DEF TypeOK
<1> HIDE DEF Held
<1>7. DOMAIN batch'[w] = {}
  BY <1>2
<1>8. BatchesUnrouted' /\ BatchesDisjoint'
  BY <1>2, <1>3, <1>5, <1>6, <1>7 DEF BatchesUnrouted, BatchesDisjoint, streamVars
<1>9. UndeliveredUnrouted'
  <2>1. lastId \in Nat
    BY DEF TypeOK
  <2> QED
    BY <1>2, <1>3, <1>4, <2>1 DEF UndeliveredUnrouted, streamVars, Positions
<1>10. ASSUME NEW i \in 1..lastId, Decided(i)
       PROVE  Decided(i)'
  <2>1. i \in Positions
    BY StreamAssumption DEF TypeOK, Positions
  <2>2. outcome[i] \in {"bad", "skipped"} => outcome'[i] = outcome[i]
    BY <1>3, <1>4, <2>1
  <2> QED
    BY <1>2, <1>10, <2>2, DecidedLasts DEF streamVars, tables
<1>11. AcksDecided' /\ AckedOnlyWhenDecided'
  BY <1>2, <1>10 DEF AcksDecided, AckedOnlyWhenDecided, streamVars
<1>12. HandlersConsistent' /\ OneRecorder' /\ OneFillPerIntent'
  BY <1>2 DEF HandlersConsistent, OneRecorder, OneFillPerIntent, tables
<1> QED
  BY <1>1, <1>8, <1>9, <1>11, <1>12

LEMMA StreamInvStep == StreamInv /\ [Next]_vars => StreamInv'
<1> SUFFICES ASSUME StreamInv, [Next]_vars PROVE StreamInv'
  OBVIOUS
<1>1. ASSUME NEW a \in Alphas, Publish(a) PROVE StreamInv'
  BY <1>1, PublishKeeps
<1>2. ASSUME NEW w \in Workers, LoopStep(w) PROVE StreamInv'
  BY <1>2, ReadKeeps, AckedRouteKeeps, InsertKeeps, RaisedRouteKeeps, AckKeeps DEF LoopStep
<1>3. ASSUME NEW w \in Workers, Crash(w) \/ Restart(w) PROVE StreamInv'
  BY <1>3, CrashKeeps, InsertKeeps
<1>4. CASE UNCHANGED vars
  BY <1>4 DEF vars, streamVars, tables, locals, StreamInv, TypeOK, BatchesUnrouted,
     BatchesDisjoint, UndeliveredUnrouted, AcksDecided, AckedOnlyWhenDecided, Decided,
     HandlersConsistent, OneRecorder, OneFillPerIntent, Alpha, Current
<1> QED
  BY <1>1, <1>2, <1>3, <1>4 DEF Next

-----------------------------------------------------------------------------
(* An entry leaves the pending list only when its alpha has been decided   *)
(* or was dropped on purpose (router.py:443-470): what is acknowledged is  *)
(* never lost.                                                             *)
THEOREM AckedAreDecided == Spec => []AckedOnlyWhenDecided
<1>1. StreamInv => AckedOnlyWhenDecided
  BY DEF StreamInv
<1> QED
  BY <1>1, StreamInvInit, StreamInvStep, PTL DEF Spec

(* However workers race over the entries of one alpha, its intent has at   *)
(* most one TCA row of the router, and none without the intent             *)
(* (router.py:343-366, db.py:176-199).                                     *)
THEOREM FilledOnce == Spec => []OneFillPerIntent
<1>1. StreamInv => OneFillPerIntent
  BY DEF StreamInv
<1> QED
  BY <1>1, StreamInvInit, StreamInvStep, PTL DEF Spec

-----------------------------------------------------------------------------
LEMMA OutcomeFinal ==
  ASSUME StreamInv, [Next]_vars
  PROVE  \A i \in Positions : outcome[i] # "unrouted" => outcome'[i] = outcome[i]
<1> USE DEF StreamInv
<1>1. ASSUME NEW w \in Workers, batch[w] # <<>>, NEW r,
             outcome' = [outcome EXCEPT ![Current(w)] = r]
      PROVE  \A i \in Positions : outcome[i] # "unrouted" => outcome'[i] = outcome[i]
  BY <1>1, CurrentFacts DEF TypeOK
<1>2. ASSUME NEW w \in Workers,
             DropBadPayload(w) \/ Skip(w) \/ Duplicate(w) \/ RecordFill(w) \/ RouteRaises(w)
      PROVE  \A i \in Positions : outcome[i] # "unrouted" => outcome'[i] = outcome[i]
  <2>1. batch[w] # <<>>
    BY <1>2 DEF DropBadPayload, Skip, Duplicate, RecordFill, RouteRaises, Routing,
       HandlersConsistent
  <2>2. PICK r \in {"bad", "skipped", "duplicate", "recorded", "raised"} :
          outcome' = [outcome EXCEPT ![Current(w)] = r]
    BY <1>2 DEF DropBadPayload, Skip, Duplicate, RecordFill, RouteRaises, FinishAcked,
       FinishUnacked
  <2> QED
    BY <1>1, <2>1, <2>2
<1>3. ASSUME NEW w \in Workers, ReadReplyLost(w)
      PROVE  \A i \in Positions : outcome[i] # "unrouted" => outcome'[i] = outcome[i]
  <2>1. lastId \in Nat
    BY DEF TypeOK
  <2> QED
    BY <1>3, <2>1 DEF ReadReplyLost, Lose, UndeliveredUnrouted, Positions
<1>4. ASSUME NEW w \in Workers, Crash(w)
      PROVE  \A i \in Positions : outcome[i] # "unrouted" => outcome'[i] = outcome[i]
  BY <1>4 DEF Crash, Lose, BatchesUnrouted
<1>5. ASSUME NEW w \in Workers,
             ReadBatch(w) \/ Decide(w) \/ Insert(w) \/ AckBatch(w) \/ Restart(w)
      PROVE  outcome' = outcome
  BY <1>5 DEF ReadBatch, Decide, Insert, AckBatch, Restart
<1>6. ASSUME NEW a \in Alphas, Publish(a)
      PROVE  outcome' = outcome
  BY <1>6 DEF Publish
<1>7. CASE UNCHANGED vars
  BY <1>7 DEF vars
<1> QED
  BY <1>2, <1>3, <1>4, <1>5, <1>6, <1>7 DEF Next, LoopStep

LEMMA RowsFinal ==
  ASSUME StreamInv, [Next]_vars
  PROVE  \A a \in Alphas : rows[a] # "none" => rows'[a] = rows[a]
<1> USE DEF StreamInv
<1>1. ASSUME NEW w \in Workers, Insert(w) \/ RouteRaises(w)
      PROVE  \A a \in Alphas : rows[a] # "none" => rows'[a] = rows[a]
  BY <1>1 DEF Insert, RouteRaises, TypeOK
<1>2. ASSUME NEW w \in Workers,
             \/ ReadBatch(w) \/ ReadReplyLost(w) \/ DropBadPayload(w) \/ Skip(w) \/ Decide(w)
             \/ Duplicate(w) \/ RecordFill(w) \/ AckBatch(w) \/ Crash(w) \/ Restart(w)
      PROVE  rows' = rows
  BY <1>2 DEF ReadBatch, ReadReplyLost, DropBadPayload, Skip, Decide, Duplicate, RecordFill,
     AckBatch, Crash, Restart, tables
<1>3. ASSUME NEW a \in Alphas, Publish(a)
      PROVE  rows' = rows
  BY <1>3 DEF Publish, tables
<1>4. CASE UNCHANGED vars
  BY <1>4 DEF vars, tables
<1> QED
  BY <1>1, <1>2, <1>3, <1>4 DEF Next, LoopStep

(* An outcome is final: no entry is handled twice, by one worker or two    *)
(* (router.py:426-432).                                                    *)
THEOREM HandledOnce == Spec => RoutedOnce
<1>1. StreamInv /\ [Next]_vars =>
        [\A i \in Positions : outcome[i] # "unrouted" => outcome'[i] = outcome[i]]_vars
  BY OutcomeFinal
<1> QED
  BY <1>1, StreamInvInit, StreamInvStep, PTL DEF Spec, RoutedOnce

-----------------------------------------------------------------------------
(* The backfill script.  What it has selected, and what it has inserted,   *)
(* is out of the routers' reach, but for the intents whose router was      *)
(* about to record when it selected.                                       *)
Untouched(a) ==
  fills[a] = 0 /\ \A w \in Workers : loop[w] = "record" => Alpha(w) # a

Separate ==
  \A a \in Alphas \ recording :
    a \in selected \/ backfilled[a] # 0 => Untouched(a)

BackfilledFilled ==
  \A a \in Alphas : /\ backfilled[a] # 0 => a \in filled
                    /\ a \in selected => backfilled[a] = 0

TcaInv == StreamInv /\ TcaTypeOK /\ Separate /\ BackfilledFilled

(* No router comes to record an alpha that already has its intent.         *)
LEMMA UntouchedLasts ==
  ASSUME StreamInv, [Next]_vars,
         NEW a \in Alphas, rows[a] # "none", Untouched(a)
  PROVE  Untouched(a)'
<1> USE DEF StreamInv
<1>1. ASSUME NEW w \in Workers, LoopStep(w) \/ Crash(w) \/ Restart(w)
      PROVE  /\ stream' = stream
             /\ \A v \in Workers : v # w => loop'[v] = loop[v] /\ batch'[v] = batch[v]
             /\ loop'[w] = "record" => /\ loop[w] = "insert" /\ rows[Alpha(w)] = "none"
                                       /\ batch'[w] = batch[w]
             /\ \/ fills'[a] = fills[a]
                \/ loop[w] = "record" /\ Alpha(w) = a
  <2>1. CASE ReadBatch(w) \/ ReadReplyLost(w) \/ Decide(w) \/ AckBatch(w) \/ Crash(w) \/ Restart(w)
    BY <2>1 DEF ReadBatch, ReadReplyLost, Decide, AckBatch, Crash, Restart, TypeOK,
       streamVars, tables, locals
  <2>2. CASE DropBadPayload(w) \/ Skip(w) \/ Duplicate(w) \/ RouteRaises(w)
    BY <2>2 DEF DropBadPayload, Skip, Duplicate, RouteRaises, FinishAcked, FinishUnacked,
       TypeOK, streamVars, tables
  <2>3. CASE Insert(w)
    BY <2>3 DEF Insert, TypeOK, streamVars
  <2>4. CASE RecordFill(w)
    BY <2>4 DEF RecordFill, FinishAcked, TypeOK, streamVars
  <2> QED
    BY <1>1, <2>1, <2>2, <2>3, <2>4 DEF LoopStep
<1>2. ASSUME NEW b \in Alphas, Publish(b)
      PROVE  Untouched(a)'
  <2>1. /\ UNCHANGED <<locals, tables>>
        /\ \A i \in 1..lastId : stream'[i] = stream[i]
    BY <1>2, TypePublish DEF Publish
  <2>2. \A w \in Workers : loop[w] = "record" => Current(w) \in 1..lastId
    BY CurrentFacts DEF HandlersConsistent
  <2> QED
    BY <2>1, <2>2 DEF Untouched, Alpha, Current, locals, tables
<1>3. CASE UNCHANGED vars
  BY <1>3 DEF vars, Untouched, Alpha, Current, locals, tables, streamVars
<1>4. ASSUME NEW w \in Workers, LoopStep(w) \/ Crash(w) \/ Restart(w)
      PROVE  Untouched(a)'
  BY <1>1, <1>4 DEF Untouched, Alpha, Current
<1> QED
  BY <1>2, <1>3, <1>4 DEF Next

LEMMA TcaInvInit == TcaInit => TcaInv
<1> SUFFICES ASSUME TcaInit PROVE TcaInv
  OBVIOUS
<1>1. StreamInv
  BY StreamInvInit DEF TcaInit
<1>2. TcaTypeOK
  BY <1>1 DEF TcaInit, TcaTypeOK, StreamInv
<1>3. Separate /\ BackfilledFilled
  BY DEF TcaInit, Separate, BackfilledFilled
<1> QED
  BY <1>1, <1>2, <1>3 DEF TcaInv

(* A router's step leaves the script alone.                                *)
LEMMA RouterKeepsTca ==
  ASSUME TcaInv, [Next]_vars, UNCHANGED tcaVars
  PROVE  TcaInv'
<1> USE DEF TcaInv, tcaVars
<1>1. StreamInv'
  BY StreamInvStep
<1>2. \A a \in Alphas : rows[a] # "none" => rows'[a] = rows[a]
  BY RowsFinal
<1>3. TcaTypeOK'
  BY <1>1, <1>2 DEF TcaTypeOK, StreamInv
<1>4. Separate'
  <2> SUFFICES ASSUME NEW a \in Alphas \ recording
               PROVE  a \in selected \/ backfilled[a] # 0 => Untouched(a)'
    BY DEF Separate
  <2>1. a \in selected \/ backfilled[a] # 0 => rows[a] # "none"
    BY DEF TcaTypeOK, BackfilledFilled
  <2> QED
    BY <2>1, UntouchedLasts DEF Separate
<1> QED
  BY <1>1, <1>3, <1>4 DEF BackfilledFilled

(* A fill, or a step of the script, leaves the routers alone.              *)
LEMMA ScriptKeepsStream ==
  ASSUME StreamInv, UNCHANGED vars
  PROVE  StreamInv' /\ TypeOK' /\ \A a \in Alphas : Untouched(a) <=> Untouched(a)'
<1>1. StreamInv'
  BY StreamInvStep
<1> QED
  BY <1>1 DEF StreamInv, Untouched, Alpha, Current, vars, streamVars, tables, locals

LEMMA FillKeeps ==
  ASSUME TcaInv, NEW a \in Alphas, FillIntent(a)
  PROVE  TcaInv'
<1> USE DEF TcaInv
<1>1. /\ StreamInv' /\ TypeOK'
      /\ \A b \in Alphas : Untouched(b) <=> Untouched(b)'
      /\ rows' = rows
  BY ScriptKeepsStream DEF FillIntent, vars, tables
<1> QED
  BY <1>1 DEF FillIntent, TcaTypeOK, Separate, BackfilledFilled

LEMMA BackfillKeeps ==
  ASSUME TcaInv, Backfill
  PROVE  TcaInv'
<1> USE DEF TcaInv
<1>1. /\ StreamInv' /\ TypeOK'
      /\ \A a \in Alphas : Untouched(a) <=> Untouched(a)'
      /\ UNCHANGED <<rows, fills, loop, batch, stream>> /\ filled' = filled
  BY ScriptKeepsStream DEF Backfill, Report, SelectCandidates, Commit, RollBack, vars,
     tables, locals, streamVars
<1>2. CASE Report \/ RollBack
  BY <1>1, <1>2 DEF Report, RollBack, TcaTypeOK, Separate, BackfilledFilled
<1>3. CASE SelectCandidates
  <2>1. /\ selected' = Candidates /\ backfilled' = backfilled
        /\ recording' = recording \cup {Alpha(w) : w \in {v \in Workers : loop[v] = "record"}}
        /\ script' = "commit"
    BY <1>3 DEF SelectCandidates
  <2>2. \A w \in Workers : loop[w] = "record" => Alpha(w) \in Alphas
    BY CurrentFacts DEF StreamInv, HandlersConsistent
  <2>3. TcaTypeOK'
    BY <1>1, <2>1, <2>2 DEF TcaTypeOK, Candidates
  <2>4. Separate'
    <3> SUFFICES ASSUME NEW a \in Alphas \ recording'
                 PROVE  a \in Candidates \/ backfilled[a] # 0 => Untouched(a)
      BY <1>1, <2>1 DEF Separate
    <3>1. a \notin recording /\ \A w \in Workers : loop[w] = "record" => Alpha(w) # a
      BY <2>1
    <3> QED
      BY <3>1 DEF Candidates, Untouched, Separate
  <2> QED
    BY <1>1, <2>1, <2>3, <2>4 DEF BackfilledFilled, Candidates
<1>4. CASE Commit
  <2>1. /\ \A a \in Alphas : backfilled'[a] = backfilled[a] + (IF a \in selected THEN 1 ELSE 0)
        /\ backfilled' = [a \in Alphas |-> backfilled[a] + (IF a \in selected THEN 1 ELSE 0)]
        /\ script' = "idle" /\ selected' = {} /\ recording' = recording
    BY <1>4 DEF Commit, TcaTypeOK
  <2>2. \A a \in Alphas : /\ backfilled[a] \in 0..1
                          /\ a \in selected => backfilled[a] = 0
                          /\ backfilled'[a] \in 0..1
                          /\ backfilled'[a] # 0 <=> backfilled[a] # 0 \/ a \in selected
    BY <2>1 DEF TcaTypeOK, BackfilledFilled
  <2>3. TcaTypeOK'
    <3>1. backfilled' \in [Alphas -> 0..1]
      BY <2>1, <2>2
    <3> QED
      BY <1>1, <2>1, <3>1 DEF TcaTypeOK
  <2>4. Separate' /\ BackfilledFilled'
    BY <1>1, <2>1, <2>2 DEF Separate, BackfilledFilled, TcaTypeOK
  <2> QED
    BY <1>1, <2>3, <2>4
<1> QED
  BY <1>2, <1>3, <1>4 DEF Backfill

LEMMA TcaInvStep == TcaInv /\ [TcaNext]_<<vars, tcaVars>> => TcaInv'
<1> SUFFICES ASSUME TcaInv, [TcaNext]_<<vars, tcaVars>> PROVE TcaInv'
  OBVIOUS
<1>1. CASE [Next]_vars /\ UNCHANGED tcaVars
  BY <1>1, RouterKeepsTca
<1>2. ASSUME NEW a \in Alphas, FillIntent(a) PROVE TcaInv'
  BY <1>2, FillKeeps
<1>3. CASE Backfill
  BY <1>3, BackfillKeeps
<1> QED
  BY <1>1, <1>2, <1>3 DEF TcaNext

(* However the script and the routers interleave, fail and die, an intent  *)
(* has one TCA row at most, of the router or of the script, unless its     *)
(* router was between its two inserts when the script selected             *)
(* (backfill_fills_tca.py:118-161, router.py:343-366).                     *)
THEOREM IntentCountedOnce == TcaSpec => []CountedOnce
<1>1. TcaInv => CountedOnce
  <2> SUFFICES ASSUME TcaInv, NEW a \in Alphas \ recording
               PROVE  fills[a] + backfilled[a] <= 1
    BY DEF CountedOnce
  <2>1. fills[a] \in Nat /\ fills[a] <= 1 /\ backfilled[a] \in {0, 1}
    <3>1. fills[a] <= (IF rows[a] = "none" THEN 0 ELSE 1)
      BY DEF TcaInv, StreamInv, OneFillPerIntent
    <3>2. fills[a] \in Nat /\ backfilled[a] \in 0..1
      BY DEF TcaInv, TypeOK, TcaTypeOK
    <3> QED
      BY <3>1, <3>2
  <2>2. backfilled[a] # 0 => fills[a] = 0
    BY DEF TcaInv, Separate, Untouched
  <2> QED
    BY <2>1, <2>2
<1> QED
  BY <1>1, TcaInvInit, TcaInvStep, PTL DEF TcaSpec

(* Types of the routers and the script together.                           *)
THEOREM TcaTyped == TcaSpec => []TcaTypeOK
<1>1. TcaInv => TcaTypeOK
  BY DEF TcaInv
<1> QED
  BY <1>1, TcaInvInit, TcaInvStep, PTL DEF TcaSpec

=============================================================================
