------------------------- MODULE RouterSerialProofs -------------------------
(***************************************************************************)
(* Proofs about Router for one process whose orders the adapter settles    *)
(* before the next alpha: the caps on positions, buckets and clusters.     *)
(***************************************************************************)
EXTENDS RouterProofs

(* A handler starts by reading the system halt key, and an order is queued *)
(* only by the insert of an accepted one.                                  *)
LEMMA EntryStep ==
  ASSUME TypeOK, HandlersConsistent, [Next]_vars, NEW e \in Entries
  PROVE  /\ InHandler(e)' => InHandler(e) \/ CheckSystemHalt(e)
         /\ intent'[e] = "queued" =>
              \/ intent[e] = "queued" /\ order'[e] = order[e]
              \/ Insert(e) /\ verdict[e] = "accept"
<1>1. VerdictKnown(e)
  BY DEF HandlersConsistent, HandlerConsistent
<1>2. CASE Unmoved(e)
  BY <1>2 DEF Unmoved, InHandler
<1>3. CASE Settle(e) \/ Refuse(e)
  BY <1>3 DEF Settle, Refuse, TypeOK, InHandler
<1>4. CASE Skip(e) \/ RaiseOnPayload(e)
  BY <1>1, <1>4 DEF Skip, RaiseOnPayload, Return, Goto, TypeOK, InHandler, Awaits, VerdictKnown, rows
<1>5. CASE \/ CheckSystemHalt(e) \/ CheckStrategyHalt(e) \/ ReadSnapshots(e)
           \/ SizeOrder(e) \/ ReadPosition(e) \/ ReadBucketExposure(e)
           \/ ReadClusterExposure(e) \/ Reserve(e) \/ Decide(e) \/ Release(e)
  <2>1. intent' = intent /\ pc[e] # "done"
    BY <1>5 DEF CheckSystemHalt, CheckStrategyHalt, ReadSnapshots, SizeOrder, ReadPosition,
         ReadBucketExposure, ReadClusterExposure, Reserve, Decide, Release, rows
  <2>2. InHandler(e) \/ CheckSystemHalt(e)
    BY <1>5 DEF CheckStrategyHalt, ReadSnapshots, SizeOrder, ReadPosition,
         ReadBucketExposure, ReadClusterExposure, Reserve, Decide, Release, InHandler, Awaits
  <2> QED
    BY <1>1, <2>1, <2>2 DEF VerdictKnown
<1>6. CASE Insert(e)
  BY <1>6 DEF Insert, Return, Goto, TypeOK, InHandler, Awaits
<1> QED
  BY <1>2, <1>3, <1>4, <1>5, <1>6, StepOf DEF Handler

(* A handler starts when none runs and no order is queued.                 *)
LEMMA StartAlone ==
  ASSUME Serial, TypeOK, NEW e \in Entries, CheckSystemHalt(e)
  PROVE  /\ \A f \in Entries : ~InHandler(f) /\ intent[f] # "queued"
         /\ \A f \in Entries \ {e} : pc'[f] = pc[f]
         /\ intent' = intent
<1> DEFINE H == {f \in Entries : InHandler(f)}
<1>1. IsFiniteSet(H) /\ Cardinality(H) < 1
  BY EntriesFinite DEF CheckSystemHalt, Serial
<1> HIDE DEF H
<1>2. Cardinality(H) \in Nat
  BY <1>1, FS_CardinalityType
<1>3. H = {}
  BY <1>1, <1>2, FS_EmptySet
<1> QED
  BY <1>3 DEF CheckSystemHalt, Serial, Goto, TypeOK, rows, H

(* Insert ends its handler and queues at most its own order.               *)
LEMMA InsertEffect ==
  ASSUME TypeOK, NEW e \in Entries, Insert(e)
  PROVE  /\ pc[e] = "insert" /\ pc'[e] = "done" /\ InHandler(e) /\ ~InHandler(e)'
         /\ \A f \in Entries \ {e} : intent'[f] = intent[f] /\ pc'[f] = pc[f]
         /\ order' = order /\ pos' = pos
BY DEF Insert, Return, Goto, TypeOK, InHandler, Awaits, env

(* Every step keeps one handler or one queued order at a time.             *)
LEMMA AloneStep ==
  ASSUME Serial, TypeOK, HandlersConsistent, Alone, [Next]_vars
  PROVE  Alone'
<1>1. ASSUME NEW e \in Entries, CheckSystemHalt(e)
      PROVE  Alone'
  <2>1. \A f \in Entries : (InHandler(f)' => f = e) /\ intent'[f] # "queued"
    BY <1>1, StartAlone DEF InHandler
  <2> QED
    BY <2>1 DEF Alone
<1>2. ASSUME NEW e \in Entries, Insert(e)
      PROVE  Alone'
  <2>1. \A f \in Entries : InHandler(f) => f = e
    BY <1>2, InsertEffect DEF Alone
  <2>2. \A f \in Entries : ~InHandler(f)'
    BY <1>2, <2>1, InsertEffect DEF InHandler
  <2>3. \A f \in Entries \ {e} : intent'[f] # "queued"
    BY <1>2, InsertEffect DEF Alone
  <2> QED
    BY <2>2, <2>3 DEF Alone
<1>3. CASE \A e \in Entries : ~CheckSystemHalt(e) /\ ~Insert(e)
  <2>1. \A e \in Entries : (InHandler(e)' => InHandler(e))
                           /\ (intent'[e] = "queued" => intent[e] = "queued")
    BY <1>3, EntryStep
  <2> QED
    BY <2>1 DEF Alone
<1> QED
  BY <1>1, <1>2, <1>3

(* While marks stand still, a position that no fill changes is kept or left. *)
LEMMA PosKept ==
  ASSUME Serial, TypeOK, [Next]_vars, NEW p \in Strategies \X Assets
  PROVE  \/ pos'[p] \in {pos[p], 0}
         \/ \E e \in Entries : Settle(e) /\ PositionOf(e) = p
<1>1. ASSUME NEW e \in Entries, Handler(e) PROVE pos' = pos
  BY <1>1 DEF Handler, Skip, CheckSystemHalt, CheckStrategyHalt, ReadSnapshots, SizeOrder,
       RaiseOnPayload, ReadPosition, ReadBucketExposure, ReadClusterExposure, Reserve,
       Decide, Release, Insert, env
<1>2. ASSUME NEW q \in Strategies \X Assets, Exit(q) PROVE pos'[p] \in {pos[p], 0}
  BY <1>2 DEF Exit, TypeOK
<1>3. ASSUME NEW q \in Strategies \X Assets PROVE ~Mark(q)
  BY RouterAssumption DEF Mark, Serial
<1>4. ASSUME NEW e \in Entries, Settle(e), PositionOf(e) # p PROVE pos'[p] = pos[p]
  BY <1>4 DEF Settle, PositionOf, TypeOK
<1>5. CASE \/ \E e \in Entries : Refuse(e)
           \/ \E s \in Strategies : Forget(s)
           \/ \E h \in {"system"} \cup Strategies : SwitchHalt(h)
           \/ \E q \in Periods : Snapshot(q)
           \/ UNCHANGED vars
  BY <1>5 DEF Refuse, Forget, SwitchHalt, Snapshot, vars, env
<1> QED
  BY <1>1, <1>2, <1>3, <1>4, <1>5 DEF Next, Environment

(* Marks that stand still do not move.                                     *)
LEMMA SerialMoves ==
  ASSUME Serial, TypeOK, [Next]_vars
  PROVE  moves' = moves
<1>1. ASSUME NEW e \in Entries, Handler(e) PROVE moves' = moves
  BY <1>1 DEF Handler, Skip, CheckSystemHalt, CheckStrategyHalt, ReadSnapshots, SizeOrder,
       RaiseOnPayload, ReadPosition, ReadBucketExposure, ReadClusterExposure, Reserve,
       Decide, Release, Insert, env
<1>2. ASSUME NEW q \in Strategies \X Assets PROVE ~Mark(q)
  BY RouterAssumption DEF Mark, Serial
<1>3. CASE \/ \E e \in Entries : Settle(e) \/ Refuse(e)
           \/ \E p \in Strategies \X Assets : Exit(p)
           \/ \E s \in Strategies : Forget(s)
           \/ \E h \in {"system"} \cup Strategies : SwitchHalt(h)
           \/ \E p \in Periods : Snapshot(p)
           \/ UNCHANGED vars
  BY <1>3 DEF Settle, Refuse, Exit, Forget, SwitchHalt, Snapshot, vars, env
<1> QED
  BY <1>1, <1>2, <1>3 DEF Next, Environment

(* A handler past a read has just read it, or holds it.                    *)
LEMMA ReadsStep ==
  ASSUME CoreInv, [Next]_vars, NEW e \in Entries
  PROVE  /\ pc'[e] \in PastPosition =>
              \/ /\ pc[e] \in PastPosition
                 /\ reads'[e].held = reads[e].held
              \/ reads'[e].held = pos[PositionOf(e)] /\ pos' = pos
         /\ pc'[e] \in PastBucket =>
              \/ /\ pc[e] \in PastBucket
                 /\ reads'[e].bucketUsd = reads[e].bucketUsd
              \/ /\ reads'[e].bucketUsd = OpenUsd(OfBucket(BucketOf[Strategy(e)]))
                 /\ pos' = pos
         /\ pc'[e] \in PastCluster =>
              \/ /\ pc[e] \in PastCluster
                 /\ reads'[e].clusterUsd = reads[e].clusterUsd
              \/ /\ reads'[e].clusterUsd = OpenUsd(OfFilter(ClusterOf(Asset(e))))
                 /\ pos' = pos
<1>1. TypeOK /\ VerdictKnown(e) /\ reads \in [Entries -> Reads] /\ pc \in [Entries -> Awaits \cup {"new", "done"}]
  BY DEF CoreInv, HandlersConsistent, HandlerConsistent, TypeOK
<1>2. CASE Unmoved(e)
  BY <1>2 DEF Unmoved
<1>3. CASE Settle(e) \/ Refuse(e)
  BY <1>1, <1>3 DEF Settle, Refuse, VerdictKnown, PastCluster, PastBucket, PastPosition
<1>4. CASE \/ Skip(e) \/ RaiseOnPayload(e) \/ Insert(e)
  BY <1>1, <1>4 DEF Skip, RaiseOnPayload, Insert, Return, Goto, PastCluster, PastBucket,
       PastPosition
<1>5. CASE \/ CheckSystemHalt(e) \/ CheckStrategyHalt(e) \/ ReadSnapshots(e) \/ SizeOrder(e)
  BY <1>1, <1>5 DEF CheckSystemHalt, CheckStrategyHalt, ReadSnapshots, SizeOrder, Goto,
       PastCluster, PastBucket, PastPosition
<1>6. CASE ReadPosition(e)
  <2>1. pc'[e] = "bucket" /\ pos' = pos
    BY <1>1, <1>6 DEF ReadPosition, Goto, env
  <2>2. reads'[e].held = pos[PositionOf(e)]
    BY <1>1, <1>6, ReadValues DEF ReadPosition, Fields, ExistingOpenPosition, PositionOf
  <2> QED
    BY <2>1, <2>2 DEF PastCluster, PastBucket, PastPosition
<1>7. CASE ReadBucketExposure(e)
  <2>1. pc[e] = "bucket" /\ pc'[e] = "cluster" /\ pos' = pos
    BY <1>1, <1>7 DEF ReadBucketExposure, Goto, env
  <2>2. /\ reads'[e].held = reads[e].held
        /\ reads'[e].bucketUsd = OpenUsd(OfBucket(BucketOf[Strategy(e)]))
    BY <1>1, <1>7, ReadValues DEF ReadBucketExposure, Fields
  <2> QED
    BY <2>1, <2>2 DEF PastCluster, PastBucket, PastPosition
<1>8. CASE ReadClusterExposure(e)
  <2>1. pc[e] = "cluster" /\ pc'[e] \in {"reserve", "evaluate"} /\ pos' = pos
    BY <1>1, <1>8 DEF ReadClusterExposure, Goto, env
  <2>2. /\ reads'[e].held = reads[e].held /\ reads'[e].bucketUsd = reads[e].bucketUsd
        /\ reads'[e].clusterUsd = OpenUsd(OfFilter(ClusterOf(Asset(e))))
    BY <1>1, <1>8, ReadValues DEF ReadClusterExposure, Fields
  <2> QED
    BY <2>1, <2>2 DEF PastCluster, PastBucket, PastPosition
<1>9. CASE Reserve(e)
  <2>1. /\ reads'[e].held = reads[e].held /\ reads'[e].bucketUsd = reads[e].bucketUsd
        /\ reads'[e].clusterUsd = reads[e].clusterUsd
    BY <1>1, <1>9, ReadValues DEF Reserve, Fields
  <2> QED
    BY <1>9, <2>1 DEF Reserve, PastCluster, PastBucket, PastPosition
<1>10. CASE Decide(e)
  <2>1. Return(e) \/ UNCHANGED reads
    BY <1>10 DEF Decide
  <2>2. pc'[e] = "done" \/ reads' = reads
    BY <1>1, <2>1 DEF Return, Goto
  <2> QED
    BY <1>10, <2>2 DEF Decide, PastCluster, PastBucket, PastPosition
<1>11. CASE Release(e)
  BY <1>11 DEF Release, PastCluster, PastBucket, PastPosition
<1> QED
  BY <1>1, <1>2, <1>3, <1>4, <1>5, <1>6, <1>7, <1>8, <1>9, <1>10, <1>11, StepOf DEF Handler

(* What is open only gets less while a handler is at work.                 *)
LEMMA OpenWhileHandled ==
  ASSUME Serial, CoreInv, TypeOK', Alone, [Next]_vars, NEW e \in Entries, InHandler(e)
  PROVE  /\ \A p \in Strategies \X Assets : pos'[p] \in {pos[p], 0}
         /\ \A S \in SUBSET (Strategies \X Assets) :
              /\ OpenUsd(S)' <= OpenUsd(S)
              /\ OpenUsd(S) \in Nat /\ OpenUsd(S)' \in Nat
<1>1. \A f \in Entries : ~Settle(f)
  BY DEF Alone, Settle
<1>2. TypeOK /\ moves' = moves
  BY SerialMoves DEF CoreInv
<1>3. \A p \in Strategies \X Assets : pos'[p] \in {pos[p], 0}
  BY <1>1, <1>2, PosKept
<1>4. ASSUME NEW S \in SUBSET (Strategies \X Assets)
      PROVE  OpenUsd(S)' <= OpenUsd(S) /\ OpenUsd(S) \in Nat /\ OpenUsd(S)' \in Nat
  <2>1. OpenUsd(S) \in Nat
    BY <1>2, OpenUsdFacts
  <2>2. OpenUsd(S)' \in Nat
    <3> DEFINE g == [p \in Strategies \X Assets |-> AbsUsd(pos'[p])]
    <3>1. \A p \in S : g[p] \in Nat
      BY DEF TypeOK, AbsUsd
    <3>2. OpenUsd(S)' = SumFunctionOnSet(g, S)
      BY DEF OpenUsd, PosUsd
    <3> HIDE DEF g
    <3> QED
      BY <3>1, <3>2, PositionsFinite, SumNat
  <2>3. OpenUsd(S)' <= OpenUsd(S)
    BY <1>1, <1>2, OpenStep
  <2> QED
    BY <2>1, <2>2, <2>3
<1>5. \A S \in SUBSET (Strategies \X Assets) :
        OpenUsd(S)' <= OpenUsd(S) /\ OpenUsd(S) \in Nat /\ OpenUsd(S)' \in Nat
  BY <1>4
<1> QED
  BY <1>3, <1>5

(* Every step keeps the reads of a handler above what is open.             *)
LEMMA BoundStep ==
  ASSUME Serial, CoreInv, TypeOK', Alone, ReadsBound, [Next]_vars
  PROVE  ReadsBound'
<1> SUFFICES ASSUME NEW e \in Entries
             PROVE  /\ pc'[e] \in PastPosition => pos'[PositionOf(e)] \in {reads'[e].held, 0}
                    /\ pc'[e] \in PastBucket =>
                         OpenUsd(OfBucket(BucketOf[Strategy(e)]))' <= reads'[e].bucketUsd
                    /\ pc'[e] \in PastCluster =>
                         OpenUsd(OfFilter(ClusterOf(Asset(e))))' <= reads'[e].clusterUsd
  BY DEF ReadsBound, PositionOf, Strategy, Asset
<1> SUFFICES ASSUME pc'[e] \in PastPosition
             PROVE  /\ pos'[PositionOf(e)] \in {reads'[e].held, 0}
                    /\ pc'[e] \in PastBucket =>
                         OpenUsd(OfBucket(BucketOf[Strategy(e)]))' <= reads'[e].bucketUsd
                    /\ pc'[e] \in PastCluster =>
                         OpenUsd(OfFilter(ClusterOf(Asset(e))))' <= reads'[e].clusterUsd
  BY DEF PastCluster, PastBucket
<1> DEFINE B == OfBucket(BucketOf[Strategy(e)])
           C == OfFilter(ClusterOf(Asset(e)))
<1>1. TypeOK /\ HandlersConsistent
  BY DEF CoreInv
<1>2. InHandler(e)
  <2>1. InHandler(e)'
    BY DEF InHandler, Awaits, PastPosition
  <2>2. ~CheckSystemHalt(e)
    BY <1>1 DEF CheckSystemHalt, Goto, TypeOK, PastPosition
  <2> QED
    BY <1>1, <2>1, <2>2, EntryStep
<1>3. B \in SUBSET (Strategies \X Assets) /\ C \in SUBSET (Strategies \X Assets)
      /\ PositionOf(e) \in Strategies \X Assets
  BY PositionSets, AlphaFacts
<1>4. pos'[PositionOf(e)] \in {reads'[e].held, 0}
  <2>1. pos'[PositionOf(e)] \in {pos[PositionOf(e)], 0}
    BY <1>2, <1>3, OpenWhileHandled
  <2>2. pc[e] \in PastPosition => pos[PositionOf(e)] \in {reads[e].held, 0}
    BY DEF ReadsBound
  <2> QED
    BY <2>1, <2>2, ReadsStep
<1>5. reads[e] \in Reads /\ reads[e].bucketUsd \in Nat /\ reads[e].clusterUsd \in Nat
  <2>1. reads[e] \in Reads
    BY <1>1 DEF TypeOK
  <2> QED
    BY <2>1 DEF Reads
<1>6. ASSUME pc'[e] \in PastBucket
      PROVE  OpenUsd(B)' <= reads'[e].bucketUsd
  <2>1. OpenUsd(B)' <= OpenUsd(B) /\ OpenUsd(B) \in Nat /\ OpenUsd(B)' \in Nat
    <3> HIDE DEF B
    <3> QED
      BY <1>2, <1>3, OpenWhileHandled
  <2>2. pc[e] \in PastBucket => OpenUsd(B) <= reads[e].bucketUsd
    BY DEF ReadsBound
  <2>3. \/ pc[e] \in PastBucket /\ reads'[e].bucketUsd = reads[e].bucketUsd
        \/ reads'[e].bucketUsd = OpenUsd(B)
    BY <1>6, ReadsStep
  <2> HIDE DEF B
  <2> QED
    BY <1>5, <2>1, <2>2, <2>3
<1>7. ASSUME pc'[e] \in PastCluster
      PROVE  OpenUsd(C)' <= reads'[e].clusterUsd
  <2>1. OpenUsd(C)' <= OpenUsd(C) /\ OpenUsd(C) \in Nat /\ OpenUsd(C)' \in Nat
    <3> HIDE DEF C
    <3> QED
      BY <1>2, <1>3, OpenWhileHandled
  <2>2. pc[e] \in PastCluster => OpenUsd(C) <= reads[e].clusterUsd
    BY DEF ReadsBound
  <2>3. \/ pc[e] \in PastCluster /\ reads'[e].clusterUsd = reads[e].clusterUsd
        \/ reads'[e].clusterUsd = OpenUsd(C)
    BY <1>7, ReadsStep
  <2> HIDE DEF C
  <2> QED
    BY <1>5, <2>1, <2>2, <2>3
<1> QED
  BY <1>4, <1>6, <1>7

(* An order is queued only when preflight accepts it on what was read.     *)
LEMMA InsertAccepts ==
  ASSUME CoreInv, NEW e \in Entries, Insert(e), verdict[e] = "accept", ~IsFlat(e)
  PROVE  /\ order[e] \in Nat /\ order[e] > 0
         /\ ~WouldDuplicatePosition(Request(e)) /\ ~WouldBreachPositionCap(Request(e))
         /\ ~WouldBreachBucketExposure(Request(e)) /\ ~WouldBreachClusterExposure(Request(e))
         /\ reads[e] \in Reads
<1>1. VerdictKnown(e) /\ pc[e] = "insert" /\ order[e] \in Nat /\ reads[e] \in Reads
  BY DEF CoreInv, TypeOK, HandlersConsistent, HandlerConsistent, Insert
<1> QED
  BY <1>1, EvaluateFacts DEF VerdictKnown

(* Every step queues only orders that open, or that may scale in.          *)
LEMMA AddsStep ==
  ASSUME Serial, CoreInv, TypeOK', Alone, ReadsBound, QueuedAdds, [Next]_vars
  PROVE  QueuedAdds'
<1> SUFFICES ASSUME NEW e \in Entries, intent'[e] = "queued", ~IsFlat(e)
             PROVE  /\ order'[e] > 0
                    /\ SideOf(pos'[PositionOf(e)]) = Direction(e) => Strategy(e) \in ScaleIn
  BY DEF QueuedAdds, PositionOf, Strategy, Asset, Direction, IsFlat
<1> DEFINE p == PositionOf(e)
<1>1. TypeOK /\ HandlersConsistent /\ p \in Strategies \X Assets
  BY AlphaFacts DEF CoreInv
<1>2. SideOf(0) \notin {"long", "short", "flat", "watch"}
  BY DEF SideOf
<1>3. Direction(e) \in {"long", "short", "flat", "watch"} /\ Direction(e) # "flat"
  BY AlphaFacts DEF IsFlat
<1>4. CASE intent[e] = "queued" /\ order'[e] = order[e]
  <2>1. \A f \in Entries : ~Settle(f)
    <3> SUFFICES ASSUME NEW f \in Entries, Settle(f) PROVE FALSE
      OBVIOUS
    <3>1. f = e
      BY <1>4 DEF Alone, Settle
    <3> QED
      BY <1>1, <3>1 DEF Settle, TypeOK
  <2>2. pos'[p] \in {pos[p], 0}
    BY <1>1, <2>1, PosKept
  <2>3. order[e] > 0 /\ (SideOf(pos[p]) = Direction(e) => Strategy(e) \in ScaleIn)
    BY <1>4 DEF QueuedAdds
  <2> QED
    BY <1>2, <1>3, <1>4, <2>2, <2>3
<1>5. CASE Insert(e) /\ verdict[e] = "accept"
  <2>1. pos' = pos /\ order' = order /\ pc[e] = "insert"
    BY <1>1, <1>5, InsertEffect
  <2>2. pos[p] \in {reads[e].held, 0}
    BY <2>1 DEF ReadsBound, PastPosition
  <2>3. order[e] > 0 /\ ~WouldDuplicatePosition(Request(e))
    BY <1>5, InsertAccepts
  <2>4. SideOf(reads[e].held) = Direction(e) => Slug(e) \in ScaleIn
    BY <1>3, <2>3 DEF WouldDuplicatePosition, Adds, Request
  <2>5. Slug(e) \in ScaleIn => Strategy(e) \in ScaleIn
    BY AlphaFacts, PreflightAssumption, SizingAssumption
  <2> QED
    BY <1>2, <1>3, <2>1, <2>2, <2>3, <2>4, <2>5
<1> QED
  BY <1>1, <1>4, <1>5, EntryStep

(* Every step preserves the serial invariant.                              *)
LEMMA SerialStep == Serial /\ SerialInv /\ [Next]_vars => SerialInv'
<1> SUFFICES ASSUME Serial, SerialInv, [Next]_vars PROVE SerialInv'
  OBVIOUS
<1>1. CoreInv' /\ TypeOK' /\ TypeOK /\ HandlersConsistent
  BY CoreStep DEF SerialInv, CoreInv
<1>2. Alone'
  BY <1>1, AloneStep DEF SerialInv
<1> QED
  BY <1>1, <1>2, BoundStep, AddsStep DEF SerialInv

(* The initial state satisfies the serial invariant.                       *)
LEMMA SerialInit == Init => SerialInv
BY CoreInit DEF Init, SerialInv, Alone, ReadsBound, QueuedAdds, InHandler, Awaits,
                PastPosition, PastBucket, PastCluster

(* Several rows of positions share a cap: what is open in them and what is *)
(* queued for them stays within it, if each accepted order fits next to    *)
(* what is open.                                                           *)
LEMMA SharedCapStep ==
  ASSUME Serial, SerialInv, SerialInv', [Next]_vars,
         NEW S \in SUBSET (Strategies \X Assets), NEW E \in SUBSET Entries,
         \A e \in Entries : e \in E <=> PositionOf(e) \in S,
         NEW cap \in Nat, OpenUsd(S) + QueuedUsd(E) <= cap,
         \A e \in E : Insert(e) /\ verdict[e] = "accept" /\ ~IsFlat(e)
                        => OpenUsd(S) + order[e] <= cap
  PROVE  OpenUsd(S)' + QueuedUsd(E)' <= cap
<1> DEFINE Q == {e \in E : intent[e] = "queued"}
           sum == SumFunctionOnSet(order', Q')
           open == OpenUsd(S)'
<1>1. TypeOK /\ TypeOK' /\ HandlersConsistent /\ Alone /\ CoreInv /\ moves' = moves
  BY SerialMoves DEF SerialInv, CoreInv
<1>2. QueuedUsd(E) = OrdersUsd(Q) /\ QueuedUsd(E)' = sum
  BY DEF QueuedUsd, OrdersUsd
<1>3. Q \in SUBSET Entries /\ Q' \in SUBSET Entries /\ order \in [Entries -> Nat]
      /\ order' \in [Entries -> Nat]
  BY <1>1 DEF TypeOK
<1>4. OpenUsd(S) \in Nat /\ open \in Nat
  <2> DEFINE g == [p \in Strategies \X Assets |-> AbsUsd(pos'[p])]
  <2>1. \A p \in S : g[p] \in Nat
    BY <1>1 DEF TypeOK, AbsUsd
  <2>2. OpenUsd(S)' = SumFunctionOnSet(g, S)
    BY DEF OpenUsd, PosUsd
  <2> HIDE DEF g
  <2> QED
    BY <1>1, <2>1, <2>2, OpenUsdFacts, PositionsFinite, SumNat
<1>5. OrdersUsd(Q) \in Nat /\ sum \in Nat
  <2> HIDE DEF Q
  <2>1. IsFiniteSet(Q') /\ \A x \in Q' : order'[x] \in Nat
    BY <1>3, EntriesFinite
  <2> QED
    BY <1>3, <2>1, OrdersUsdFacts, SumNat
<1>6. OpenUsd(S) + OrdersUsd(Q) <= cap
  BY <1>2
<1>7. ASSUME NEW e \in Entries, Insert(e)
      PROVE  open + sum <= cap
  <2>1. Q = {} /\ open = OpenUsd(S) /\ order' = order
    BY <1>1, <1>7, InsertEffect DEF Alone, OpenUsd, PosUsd
  <2>2. Q' \subseteq {e}
    BY <1>1, <1>7, <2>1, InsertEffect
  <2>3. OrdersUsd({}) = 0 /\ order[e] \in Nat
    BY <1>3, SumEmpty DEF OrdersUsd
  <2>4. CASE /\ e \in E /\ verdict[e] = "accept" /\ ~IsFlat(e)
    <3>1. OpenUsd(S) + order[e] <= cap
      BY <1>7, <2>4
    <3>2. Q' \in SUBSET ({} \cup {e}) /\ {} \in SUBSET Entries
      BY <2>2
    <3> HIDE DEF Q
    <3>3. sum <= OrdersUsd({}) + order[e]
      BY <1>3, <2>1, <3>2, OrdersJoin
    <3> HIDE DEF sum, open
    <3> QED
      BY <1>4, <1>5, <2>1, <2>3, <3>1, <3>3
  <2>5. CASE e \notin E \/ verdict[e] # "accept"
    <3>1. Q' = {}
      BY <1>1, <1>7, <2>1, <2>2, <2>5 DEF Insert, TypeOK
    <3>2. sum = 0
      BY <3>1, SumEmpty
    <3> HIDE DEF sum, open, Q
    <3> QED
      BY <1>4, <1>5, <1>6, <2>1, <3>2
  <2>6. CASE IsFlat(e)
    <3>1. order[e] = 0
      BY <1>1, <2>6 DEF HandlersConsistent, HandlerConsistent, SizeKnown
    <3>2. Q' \in SUBSET ({} \cup {e}) /\ {} \in SUBSET Entries
      BY <2>2
    <3> HIDE DEF Q
    <3>3. sum <= OrdersUsd({}) + order[e]
      BY <1>3, <2>1, <3>2, OrdersJoin
    <3> HIDE DEF sum, open
    <3> QED
      BY <1>4, <1>5, <1>6, <2>1, <2>3, <3>1, <3>3
  <2> QED
    BY <2>4, <2>5, <2>6
<1>8. ASSUME NEW e \in Entries, Settle(e)
      PROVE  open + sum <= cap
  <2>1. Q' = {} /\ intent[e] = "queued"
    <3>1. \A f \in Entries : intent'[f] # "queued"
      BY <1>1, <1>8 DEF Settle, Alone, TypeOK
    <3> QED
      BY <1>8, <3>1 DEF Settle
  <2>2. sum = 0
    BY <2>1, SumEmpty
  <2>3. CASE open <= OpenUsd(S)
    <3> HIDE DEF sum, open, Q
    <3> QED
      BY <1>4, <1>5, <1>6, <2>2, <2>3
  <2>4. ASSUME NEW f \in Entries, Settle(f), PositionOf(f) \in S,
               open <= OpenUsd(S) + order[f]
        PROVE  open + sum <= cap
    <3>1. f \in Q
      BY <2>4 DEF Settle
    <3> HIDE DEF sum, open, Q
    <3>2. order[f] <= OrdersUsd(Q) /\ order[f] \in Nat
      BY <1>3, <3>1, OrdersUsdFacts
    <3> QED
      BY <1>4, <1>5, <1>6, <2>2, <2>4, <3>2
  <2> QED
    BY <1>1, <2>3, <2>4, OpenStep
<1>9. ASSUME \A e \in Entries : ~Insert(e) /\ ~Settle(e)
      PROVE  open + sum <= cap
  <2>1. open <= OpenUsd(S)
    BY <1>1, <1>9, OpenStep
  <2>2. Q' \in SUBSET Q /\ \A e \in Q' : order'[e] = order[e]
    BY <1>1, <1>9, EntryStep
  <2> HIDE DEF Q
  <2>3. sum <= OrdersUsd(Q)
    BY <1>3, <2>2, OrdersShrink
  <2> HIDE DEF open, sum
  <2> QED
    BY <1>4, <1>5, <1>6, <2>1, <2>3
<1>10. open + sum <= cap
  BY <1>7, <1>8, <1>9
<1> QED
  BY <1>2, <1>10

(* Every step keeps the buckets within their caps.                         *)
LEMMA BucketStep ==
  ASSUME Serial, SerialInv, SerialInv', BucketCapped, [Next]_vars
  PROVE  BucketCapped'
<1> SUFFICES ASSUME NEW b \in DOMAIN BucketTotal, BucketTotal[b] > 0
             PROVE  OpenUsd(OfBucket(b))'
                      + QueuedUsd({e \in Entries : BucketOf[Strategy(e)] = b})'
                      <= BucketTotal[b]
  BY DEF BucketCapped, OfBucket, Strategy
<1> DEFINE S == OfBucket(b)
           E == {e \in Entries : BucketOf[Strategy(e)] = b}
           cap == BucketTotal[b]
<1>1. S \in SUBSET (Strategies \X Assets) /\ E \in SUBSET Entries /\ cap \in Nat
  BY PositionSets, PreflightAssumption
<1>2. \A e \in Entries : e \in E <=> PositionOf(e) \in S
  BY AlphaFacts DEF OfBucket, PositionOf
<1>3. OpenUsd(S) + QueuedUsd(E) <= cap
  BY DEF BucketCapped
<1>4. ASSUME NEW e \in E, Insert(e), verdict[e] = "accept", ~IsFlat(e)
      PROVE  OpenUsd(S) + order[e] <= cap
  <2>1. order[e] \in Nat /\ order[e] > 0 /\ ~WouldBreachBucketExposure(Request(e))
        /\ reads[e] \in Reads
    BY <1>4, InsertAccepts DEF SerialInv
  <2>2. Opening(Request(e))
    BY <1>4, <2>1 DEF Opening, Request, IsFlat
  <2>3. reads[e].bucketUsd + order[e] <= cap
    <3>1. reads[e].bucketUsd \in Nat
      BY <2>1 DEF Reads
    <3>2. Get(BucketTotal, BucketOf[Strategy(e)], NoCap) = cap
      BY DEF Get
    <3>3. /\ Request(e).strategy = Strategy(e) /\ Request(e).notional = order[e]
          /\ Request(e).bucketUsd = reads[e].bucketUsd
      BY DEF Request
    <3> QED
      BY <1>1, <2>1, <2>2, <3>1, <3>2, <3>3 DEF WouldBreachBucketExposure
  <2>4. OpenUsd(S) <= reads[e].bucketUsd
    BY <1>4 DEF SerialInv, ReadsBound, Insert, PastBucket, PastPosition
  <2>5. OpenUsd(S) \in Nat /\ reads[e].bucketUsd \in Nat
    BY <1>1, <2>1, OpenUsdFacts DEF SerialInv, CoreInv, Reads
  <2> HIDE DEF S
  <2> QED
    BY <1>1, <2>1, <2>3, <2>4, <2>5
<1> HIDE DEF S, E, cap
<1>5. OpenUsd(S)' + QueuedUsd(E)' <= cap
  BY <1>1, <1>2, <1>3, <1>4, SharedCapStep
<1> QED
  BY <1>5 DEF S, E, cap

(* Every step keeps the clusters within the cap.                           *)
LEMMA ClusterStep ==
  ASSUME Serial, FilterComplete, SerialInv, SerialInv', ClusterCapped, [Next]_vars
  PROVE  ClusterCapped'
<1> SUFFICES ASSUME ClusterTotal > 0,
                    NEW c \in {k \in {ClusterOf(a) : a \in Assets} : Guarded(k)}
             PROVE  LET markets == {a \in Assets : ClusterOf(a) = c}
                    IN  OpenUsd(Strategies \X markets)'
                          + QueuedUsd({e \in Entries : Asset(e) \in markets})' <= ClusterTotal
  BY DEF ClusterCapped, Asset
<1> DEFINE markets == {a \in Assets : ClusterOf(a) = c}
           S == Strategies \X markets
           E == {e \in Entries : Asset(e) \in markets}
<1>1. S \in SUBSET (Strategies \X Assets) /\ E \in SUBSET Entries /\ ClusterTotal \in Nat
  BY PreflightAssumption
<1>2. \A e \in Entries : e \in E <=> PositionOf(e) \in S
  BY AlphaFacts DEF PositionOf
<1>3. OpenUsd(S) + QueuedUsd(E) <= ClusterTotal
  BY DEF ClusterCapped
<1>4. S \subseteq OfFilter(c)
  BY DEF FilterComplete, OfFilter
<1>5. ASSUME NEW e \in E, Insert(e), verdict[e] = "accept", ~IsFlat(e)
      PROVE  OpenUsd(S) + order[e] <= ClusterTotal
  <2>1. order[e] \in Nat /\ order[e] > 0 /\ ~WouldBreachClusterExposure(Request(e))
        /\ reads[e] \in Reads
    BY <1>5, InsertAccepts DEF SerialInv
  <2>2. Opening(Request(e))
    BY <1>5, <2>1 DEF Opening, Request, IsFlat
  <2>3. reads[e].clusterUsd \in Nat
    BY <2>1 DEF Reads
  <2>4. reads[e].clusterUsd + order[e] <= ClusterTotal
    <3>1. Request(e).notional = order[e] /\ Request(e).clusterUsd = reads[e].clusterUsd
      BY DEF Request
    <3> QED
      BY <1>1, <2>1, <2>2, <2>3, <3>1 DEF WouldBreachClusterExposure
  <2>5. OpenUsd(OfFilter(c)) <= reads[e].clusterUsd
    BY <1>5 DEF SerialInv, ReadsBound, Insert, PastCluster, PastBucket, PastPosition
  <2>6. /\ OpenUsd(S) \in Nat /\ OpenUsd(OfFilter(c)) \in Nat
        /\ OpenUsd(S) <= OpenUsd(OfFilter(c))
    <3>1. OfFilter(c) \in SUBSET (Strategies \X Assets) /\ S \in SUBSET OfFilter(c)
      BY <1>4, PositionSets
    <3> HIDE DEF S
    <3> QED
      BY <1>1, <3>1, OpenUsdFacts DEF SerialInv, CoreInv
  <2> HIDE DEF S
  <2> QED
    BY <1>1, <2>1, <2>3, <2>4, <2>5, <2>6
<1> HIDE DEF S, E, markets
<1>6. OpenUsd(S)' + QueuedUsd(E)' <= ClusterTotal
  BY <1>1, <1>2, <1>3, <1>5, SharedCapStep
<1> QED
  BY <1>6 DEF S, E, markets

(* The cap of a position is an amount.                                     *)
LEMMA PositionCapType ==
  ASSUME NEW p \in Strategies \X Assets
  PROVE  PositionCap(BucketOf[p[1]]) \in Nat
<1>1. Get(BucketMax, BucketOf[p[1]], DefaultPerTrade) \in Nat
  BY SizingAssumption DEF Get
<1>2. \A m \in Nat, n \in Nat : m * n \in Nat
  OBVIOUS
<1> QED
  BY <1>1, <1>2, PreflightAssumption DEF PositionCap

(* The caps hold at first: nothing is open, and nothing queued.            *)
LEMMA CapsInit == Init => BucketCapped /\ ClusterCapped /\ PositionCapped
<1> SUFFICES ASSUME Init PROVE BucketCapped /\ ClusterCapped /\ PositionCapped
  OBVIOUS
<1>1. ASSUME NEW S \in SUBSET (Strategies \X Assets), NEW E \in SUBSET Entries, NEW cap \in Nat
      PROVE  OpenUsd(S) + QueuedUsd(E) <= cap
  <2>1. {e \in E : intent[e] = "queued"} = {}
    BY DEF Init
  <2>2. QueuedUsd(E) = 0
    BY <2>1, SumEmpty DEF QueuedUsd
  <2> QED
    BY <2>2, NothingOpen
<1>2. ASSUME NEW b \in DOMAIN BucketTotal
      PROVE  OpenUsd(OfBucket(b)) + QueuedUsd({e \in Entries : BucketOf[Strategy(e)] = b})
               <= BucketTotal[b]
  BY <1>1, PositionSets, PreflightAssumption
<1>3. ASSUME NEW c
      PROVE  LET markets == {a \in Assets : ClusterOf(a) = c}
             IN  OpenUsd(Strategies \X markets)
                   + QueuedUsd({e \in Entries : Asset(e) \in markets}) <= ClusterTotal
  BY <1>1, PreflightAssumption
<1>4. PositionCapped
  <2> SUFFICES ASSUME NEW p \in Strategies \X Assets
               PROVE  AbsUsd(pos[p]) <= PositionCap(BucketOf[p[1]])
    BY DEF PositionCapped
  <2>1. AbsUsd(pos[p]) = 0
    BY DEF Init, AbsUsd
  <2> QED
    BY <2>1, PositionCapType
<1> QED
  BY <1>2, <1>3, <1>4 DEF BucketCapped, ClusterCapped

(* With one router and settled orders, the open and queued orders of a     *)
(* bucket stay within its cap.                                             *)
THEOREM BucketKept == ASSUME Serial PROVE Spec => []BucketCapped
<1>1. Init => SerialInv /\ BucketCapped
  BY SerialInit, CapsInit
<1>2. (SerialInv /\ BucketCapped) /\ [Next]_vars => (SerialInv /\ BucketCapped)'
  BY SerialStep, BucketStep
<1> QED
  BY <1>1, <1>2, PTL DEF Spec

(* So do those of a cluster whose filter selects all its markets.          *)
THEOREM ClusterKept == ASSUME Serial, FilterComplete PROVE Spec => []ClusterCapped
<1>1. Init => SerialInv /\ ClusterCapped
  BY SerialInit, CapsInit
<1>2. (SerialInv /\ ClusterCapped) /\ [Next]_vars => (SerialInv /\ ClusterCapped)'
  BY SerialStep, ClusterStep
<1> QED
  BY <1>1, <1>2, PTL DEF Spec

-----------------------------------------------------------------------------
(* Clusters and their filters.                                             *)

(* The head of a guarded cluster, when assets are well named.              *)
LEMMA ClusterHead ==
  ASSUME WellNamed, NEW a \in Assets, Guarded(ClusterOf(a))
  PROVE  /\ Words[a] # <<>>
         /\ \/ DeriveVenue(a) = "polymarket" /\ ClusterOf(a) = <<"poly", <<Words[a][1]>>>>
            \/ DeriveVenue(a) = "binance" /\ ClusterOf(a) = <<"crypto", <<Words[a][1]>>>>
            \/ DeriveVenue(a) = "alpaca" /\ ClusterOf(a) = <<"stocks", Words[a]>>
<1> DEFINE ws == Words[a]
           venue == DeriveVenue(a)
<1>1. \A kind, head : Guarded(<<kind, head>>) => kind \in {"poly", "crypto", "stocks"}
  BY DEF Guarded, FilterVenue
<1>2. venue \in {"alpaca", "binance", "polymarket", "oanda", "unknown"}
  BY DEF DeriveVenue
<1> HIDE DEF venue
<1>3. ws # <<>>
  <2>1. ws = <<>> => ClusterOf(a) = <<venue, <<"?">>>>
    BY DEF ClusterOf, venue
  <2> HIDE DEF ws
  <2> QED
    BY <1>1, <1>2, <2>1
<1>a. /\ venue = "polymarket" => /\ Lower[ws[1]] = ws[1]
                                 /\ Len(ws) = 1 \/ ws[1] \notin SlugPrefixes
      /\ venue = "binance" => Upper[ws[1]] = ws[1]
      /\ venue = "alpaca"  => UpperCase(ws) = ws
  <2> HIDE DEF ws, venue
  <2>1. ws = Words[a] /\ venue = DeriveVenue(a)
    BY DEF ws, venue
  <2>0. Words[a] # <<>>
    BY <1>3, <2>1, Zenon
  <2>2. DeriveVenue(a) = "polymarket" =>
          /\ Lower[Words[a][1]] = Words[a][1]
          /\ Len(Words[a]) = 1 \/ Words[a][1] \notin SlugPrefixes
    BY <2>0, Zenon DEF WellNamed
  <2>3. /\ DeriveVenue(a) = "binance" => Upper[Words[a][1]] = Words[a][1]
        /\ DeriveVenue(a) = "alpaca"  => UpperCase(Words[a]) = Words[a]
    BY <1>3, <2>1, Zenon DEF WellNamed
  <2> QED
    BY <2>1, <2>2, <2>3, Zenon
<1>4. ws \in Seq(DOMAIN Lower \cap DOMAIN Upper)
  BY ClusterAssumption
<1>5. Len(ws) \in Nat \ {0} /\ DOMAIN ws = 1..Len(ws)
  <2> HIDE DEF ws
  <2> QED
    BY <1>3, <1>4
<1>6. CASE venue = "polymarket"
  <2>1. Lower[ws[1]] = ws[1] /\ (Len(ws) = 1 \/ ws[1] \notin SlugPrefixes)
    BY <1>a, <1>6
  <2> DEFINE candidates == {k \in DOMAIN ws : k = Len(ws) \/ Lower[ws[k]] \notin SlugPrefixes}
  <2>2. candidates \in SUBSET Nat /\ 1 \in candidates /\ \A k \in candidates : 1 <= k
    <3> HIDE DEF ws
    <3> QED
      BY <1>5, <2>1
  <2>3. Min(candidates) = 1
    <3> HIDE DEF candidates
    <3>1. Min(candidates) \in candidates /\ Min(candidates) <= 1
      BY <2>2, MinNat
    <3> DEFINE least == Min(candidates)
    <3> HIDE DEF least
    <3>2. least \in Nat /\ 1 <= least /\ least <= 1
      BY <2>2, <3>1 DEF least
    <3>3. least = 1
      BY <3>2
    <3> QED
      BY <3>3 DEF least
  <2>4. SemanticWord(ws) = ws[1]
    BY <2>1, <2>3 DEF SemanticWord
  <2>5. ClusterOf(a) = <<"poly", <<SemanticWord(ws)>>>>
    BY <1>3, <1>6 DEF ClusterOf, venue
  <2> QED
    BY <1>3, <1>6, <2>4, <2>5 DEF venue
<1>7. CASE venue = "binance"
  <2>1. Upper[ws[1]] = ws[1]
    BY <1>a, <1>7
  <2>2. ClusterOf(a) = <<"crypto", <<Upper[ws[1]]>>>>
    BY <1>3, <1>7 DEF ClusterOf, venue
  <2> QED
    BY <1>3, <1>7, <2>1, <2>2 DEF venue
<1>8. CASE venue = "alpaca"
  <2>1. UpperCase(ws) = ws
    BY <1>a, <1>8
  <2>2. ClusterOf(a) = <<"stocks", UpperCase(ws)>>
    BY <1>3, <1>8 DEF ClusterOf, venue
  <2> QED
    BY <1>3, <1>8, <2>1, <2>2 DEF venue
<1>9. CASE venue \in {"oanda", "unknown"}
  <2>1. ClusterOf(a) = <<venue, UpperCase(ws)>>
    BY <1>3, <1>9 DEF ClusterOf, venue
  <2> QED
    BY <1>1, <1>9, <2>1
<1> QED
  BY <1>2, <1>6, <1>7, <1>8, <1>9

(* What the filter of a cluster asks of an asset.                          *)
LEMMA FilterMember ==
  ASSUME NEW m \in Assets, NEW kind \in {"poly", "crypto", "stocks"}, NEW head
  PROVE  m \in FilterAssets(<<kind, head>>) <=>
           /\ DeriveVenue(m) = CASE kind = "poly" -> "polymarket"
                                 [] kind = "crypto" -> "binance"
                                 [] OTHER -> "alpaca"
           /\ \/ Words[m] = head
              \/ kind # "stocks" /\ Len(Words[m]) > 1 /\ <<Words[m][1]>> = head
BY DEF FilterAssets, Guarded, FilterVenue

(* When assets are well named the filter of a guarded cluster selects      *)
(* exactly the assets cluster_for maps to it: cluster_sql_filter does turn *)
(* "a cluster key back into a SQL filter" (preflight.py:93-98).            *)
THEOREM FilterExact ==
  ASSUME WellNamed, NEW a \in Assets, Guarded(ClusterOf(a)), NEW m \in Assets
  PROVE  m \in FilterAssets(ClusterOf(a)) <=> ClusterOf(m) = ClusterOf(a)
<1> DEFINE c == ClusterOf(a)
<1>1. /\ Words[a] # <<>>
      /\ \/ DeriveVenue(a) = "polymarket" /\ c = <<"poly", <<Words[a][1]>>>>
         \/ DeriveVenue(a) = "binance" /\ c = <<"crypto", <<Words[a][1]>>>>
         \/ DeriveVenue(a) = "alpaca" /\ c = <<"stocks", Words[a]>>
  BY ClusterHead
<1>2. \A x \in Assets : Words[x] # <<>> => Len(Words[x]) > 1 \/ Words[x] = <<Words[x][1]>>
  <2> TAKE x \in Assets
  <2>1. Words[x] \in Seq(DOMAIN Lower \cap DOMAIN Upper)
    BY ClusterAssumption
  <2> DEFINE w == Words[x]
             D == DOMAIN Lower \cap DOMAIN Upper
  <2> HIDE DEF w, D
  <2>2. ASSUME w # <<>>, w \in Seq(D) PROVE Len(w) > 1 \/ w = <<w[1]>>
    <3>1. Len(w) \in Nat \ {0} /\ DOMAIN w = 1..Len(w)
      BY <2>2
    <3>2. CASE Len(w) = 1
      <4>1. DOMAIN w = {1} /\ w = [i \in {1} |-> w[i]]
        BY <2>2, <3>1, <3>2
      <4> QED
        BY <2>2, <3>2, <4>1
    <3> QED
      BY <3>1, <3>2
  <2> QED
    BY <2>1, <2>2 DEF w, D
<1>3. ASSUME ClusterOf(m) = c PROVE m \in FilterAssets(c)
  <2>1. /\ Words[m] # <<>>
        /\ \/ DeriveVenue(m) = "polymarket" /\ c = <<"poly", <<Words[m][1]>>>>
           \/ DeriveVenue(m) = "binance" /\ c = <<"crypto", <<Words[m][1]>>>>
           \/ DeriveVenue(m) = "alpaca" /\ c = <<"stocks", Words[m]>>
    BY <1>3, ClusterHead
  <2> HIDE DEF c
  <2>2. Len(Words[m]) > 1 \/ Words[m] = <<Words[m][1]>>
    BY <1>2, <2>1
  <2> QED
    BY <2>1, <2>2, FilterMember
<1>4. ASSUME m \in FilterAssets(c) PROVE ClusterOf(m) = c
  <2>1. CASE DeriveVenue(a) = "polymarket" /\ c = <<"poly", <<Words[a][1]>>>>
    <3>1. /\ DeriveVenue(m) = "polymarket"
          /\ Words[m] = <<Words[a][1]>> \/ (Len(Words[m]) > 1 /\ <<Words[m][1]>> = <<Words[a][1]>>)
      <4> HIDE DEF c
      <4> QED
        BY <1>4, <2>1, FilterMember
    <3>2. Words[m] # <<>> /\ Words[m][1] = Words[a][1]
      BY <3>1
    <3>3. Guarded(ClusterOf(m))
      BY <3>1, <3>2 DEF ClusterOf, Guarded, FilterVenue
    <3>4. ClusterOf(m) = <<"poly", <<Words[m][1]>>>>
      BY <3>1, <3>3, ClusterHead
    <3> QED
      BY <2>1, <3>2, <3>4
  <2>2. CASE DeriveVenue(a) = "binance" /\ c = <<"crypto", <<Words[a][1]>>>>
    <3>1. /\ DeriveVenue(m) = "binance"
          /\ Words[m] = <<Words[a][1]>> \/ (Len(Words[m]) > 1 /\ <<Words[m][1]>> = <<Words[a][1]>>)
      <4> HIDE DEF c
      <4> QED
        BY <1>4, <2>2, FilterMember
    <3>2. Words[m] # <<>> /\ Words[m][1] = Words[a][1]
      BY <3>1
    <3>3. Guarded(ClusterOf(m))
      BY <3>1, <3>2 DEF ClusterOf, Guarded, FilterVenue
    <3>4. ClusterOf(m) = <<"crypto", <<Words[m][1]>>>>
      BY <3>1, <3>3, ClusterHead
    <3> QED
      BY <2>2, <3>2, <3>4
  <2>3. CASE DeriveVenue(a) = "alpaca" /\ c = <<"stocks", Words[a]>>
    <3>1. DeriveVenue(m) = "alpaca" /\ Words[m] = Words[a]
      <4> HIDE DEF c
      <4> QED
        BY <1>4, <2>3, FilterMember
    <3>2. Guarded(ClusterOf(m))
      BY <1>1, <3>1 DEF ClusterOf, Guarded, FilterVenue
    <3>3. ClusterOf(m) = <<"stocks", Words[m]>>
      BY <3>1, <3>2, ClusterHead
    <3> QED
      BY <2>3, <3>1, <3>3
  <2> QED
    BY <1>1, <2>1, <2>2, <2>3
<1> QED
  BY <1>3, <1>4

(* The cap on clusters then needs no more than good names.                 *)
THEOREM ClusterKeptByName == ASSUME Serial, WellNamed PROVE Spec => []ClusterCapped
<1>1. FilterComplete
  BY FilterExact DEF FilterComplete
<1> QED
  BY <1>1, ClusterKept

-----------------------------------------------------------------------------
(* The cap on one position.                                                *)

(* What a trade makes of a position: added to, it grows by the order;      *)
(* traded against, it never outgrows both the order and what it was.       *)
LEMMA TradeFacts ==
  ASSUME NEW held \in Int, NEW usd \in Nat, NEW direction \in {"long", "short"},
         NEW after, after = IF direction = "long" THEN held + usd ELSE held - usd
  PROVE  /\ AbsUsd(after) <= AbsUsd(held) + usd
         /\ held # 0 /\ SideOf(held) # direction =>
              AbsUsd(after) <= AbsUsd(held) \/ AbsUsd(after) <= usd
         /\ AbsUsd(after) > AbsUsd(held) /\ SideOf(held) = SideOf(after) =>
              SideOf(held) = direction
<1>1. CASE direction = "long"
  BY <1>1 DEF AbsUsd, SideOf
<1>2. CASE direction = "short"
  BY <1>2 DEF AbsUsd, SideOf
<1> QED
  BY <1>1, <1>2

(* A settlement changes one position, by the order.                        *)
LEMMA SettleEffect ==
  ASSUME CoreInv, NEW e \in Entries, Settle(e)
  PROVE  /\ \A p \in (Strategies \X Assets) \ {PositionOf(e)} : pos'[p] = pos[p]
         /\ order' = order
         /\ IF Direction(e) \in {"long", "short"}
              THEN ~IsFlat(e)
                   /\ pos'[PositionOf(e)] =
                        IF Direction(e) = "long" THEN pos[PositionOf(e)] + order[e]
                                                 ELSE pos[PositionOf(e)] - order[e]
              ELSE pos'[PositionOf(e)] = 0
<1>1. PositionOf(e) \in Strategies \X Assets /\ TypeOK
  BY AlphaFacts DEF CoreInv
<1>2. pos' = [pos EXCEPT ![PositionOf(e)] =
                CASE Direction(e) = "long"  -> pos[PositionOf(e)] + order[e]
                  [] Direction(e) = "short" -> pos[PositionOf(e)] - order[e]
                  [] OTHER -> 0]
  BY DEF Settle, PositionOf
<1>3. \A p \in (Strategies \X Assets) \ {PositionOf(e)} : pos'[p] = pos[p]
  BY <1>1, <1>2 DEF TypeOK
<1>4. pos'[PositionOf(e)] =
        CASE Direction(e) = "long"  -> pos[PositionOf(e)] + order[e]
          [] Direction(e) = "short" -> pos[PositionOf(e)] - order[e]
          [] OTHER -> 0
  BY <1>1, <1>2 DEF TypeOK
<1> QED
  BY <1>3, <1>4 DEF Settle, IsFlat

(* A position grows on its side only where scaling in is allowed.          *)
LEMMA ScaleInStep ==
  ASSUME Serial, SerialInv, [Next]_vars, NEW p \in Strategies \X Assets,
         AbsUsd(pos'[p]) > AbsUsd(pos[p]), SideOf(pos[p]) = SideOf(pos'[p])
  PROVE  p[1] \in ScaleIn
<1>1. TypeOK /\ CoreInv /\ pos[p] \in Int /\ AbsUsd(pos[p]) \in Nat /\ AbsUsd(0) = 0
  BY DEF SerialInv, CoreInv, TypeOK, AbsUsd
<1>2. ~(pos'[p] \in {pos[p], 0})
  BY <1>1
<1>3. PICK e \in Entries : Settle(e) /\ PositionOf(e) = p
  BY <1>1, <1>2, PosKept
<1>4. Direction(e) \in {"long", "short"} /\ ~IsFlat(e)
  BY <1>1, <1>2, <1>3, SettleEffect
<1>5. order[e] \in Nat
  BY <1>1 DEF TypeOK
<1>6. pos'[p] = IF Direction(e) = "long" THEN pos[p] + order[e] ELSE pos[p] - order[e]
  BY <1>1, <1>3, <1>4, SettleEffect
<1>7. SideOf(pos[p]) = Direction(e)
  BY <1>1, <1>4, <1>5, <1>6, TradeFacts
<1>8. Strategy(e) \in ScaleIn
  BY <1>3, <1>4, <1>7 DEF SerialInv, QueuedAdds, Settle
<1> QED
  BY <1>3, <1>8 DEF PositionOf

(* An order by itself fits the cap of its position.                        *)
LEMMA OrderFits ==
  ASSUME FullOrderFits, CoreInv, NEW e \in Entries, InHandler(e), order[e] > 0,
         PositionCap(BucketOf[Strategy(e)]) > 0
  PROVE  order[e] <= PositionCap(BucketOf[Strategy(e)])
<1> DEFINE usd == BucketUsd(Asset(e), BucketOf[Strategy(e)])
           cap == PositionCap(BucketOf[Strategy(e)])
<1>1. PICK x \in Nat :
        /\ order[e] \in RoundToCent(x)
        /\ x <= Scaled(AlphaOf[e], usd, ParseMultiplier(reads[e].lp))
  BY SizedOrder, SizeFacts DEF Asset, Strategy
<1>2. /\ usd \in Nat
      /\ Scaled(AlphaOf[e], usd, ParseMultiplier(reads[e].lp)) \in Nat
      /\ Scaled(AlphaOf[e], usd, ParseMultiplier(reads[e].lp)) <= 2 * usd
  BY SizedOrder, ScaledFacts DEF Asset, Strategy
<1>3. Asset(e) \in Assets /\ BucketOf[Strategy(e)] \in Buckets /\ cap \in Nat
  <2>1. Asset(e) \in Assets /\ Strategy(e) \in Strategies /\ PositionOf(e) \in Strategies \X Assets
    BY AlphaFacts
  <2>2. BucketOf[Strategy(e)] \in Buckets
    BY <2>1, SizingAssumption
  <2>3. cap \in Nat
    BY <2>1, PositionCapType DEF PositionOf
  <2> QED
    BY <2>1, <2>2, <2>3
<1>4. \A d \in RoundToCent(2 * usd) : d <= cap
  BY <1>3 DEF FullOrderFits
<1> HIDE DEF usd, cap
<1>5. 2 * usd \in Nat /\ x <= 2 * usd
  BY <1>1, <1>2
<1>6. PICK d \in RoundToCent(2 * usd) : order[e] <= d
  BY <1>1, <1>5, RoundMonotone
<1>7. d \in Nat /\ d <= cap /\ order[e] \in Nat
  BY <1>1, <1>4, <1>5, <1>6, RoundFacts
<1> QED
  BY <1>3, <1>6, <1>7 DEF cap

(* Every step keeps queued orders within the position cap.                 *)
LEMMA WithinCapStep ==
  ASSUME Serial, FullOrderFits, CapInv, [Next]_vars
  PROVE  QueuedWithinCap'
<1> SUFFICES ASSUME NEW e \in Entries, intent'[e] = "queued", ~IsFlat(e),
                    PositionCap(BucketOf[Strategy(e)]) > 0
             PROVE  /\ order'[e] <= PositionCap(BucketOf[Strategy(e)])
                    /\ \/ AbsUsd(pos'[PositionOf(e)]) + order'[e]
                            <= PositionCap(BucketOf[Strategy(e)])
                       \/ SideOf(pos'[PositionOf(e)]) # Direction(e) /\ pos'[PositionOf(e)] # 0
  BY DEF QueuedWithinCap, PositionOf, Strategy, Asset, Direction, IsFlat
<1> DEFINE p == PositionOf(e)
           cap == PositionCap(BucketOf[Strategy(e)])
<1>1. CoreInv /\ TypeOK /\ HandlersConsistent /\ Alone /\ ReadsBound
  BY DEF CapInv, SerialInv, CoreInv
<1>2. /\ p \in Strategies \X Assets /\ pos[p] \in Int /\ cap \in Nat /\ order[e] \in Nat
      /\ AbsUsd(0) = 0 /\ AbsUsd(pos[p]) \in Nat
  <2>1. p \in Strategies \X Assets /\ p[1] = Strategy(e)
    BY AlphaFacts DEF PositionOf
  <2>2. cap \in Nat
    BY <2>1, PositionCapType
  <2>3. pos[p] \in Int /\ order[e] \in Nat
    BY <1>1, <2>1 DEF TypeOK
  <2> QED
    BY <2>1, <2>2, <2>3 DEF AbsUsd
<1> HIDE DEF p, cap
<1>3. CASE intent[e] = "queued" /\ order'[e] = order[e]
  <2>1. \A f \in Entries : ~Settle(f)
    <3> SUFFICES ASSUME NEW f \in Entries, Settle(f) PROVE FALSE
      OBVIOUS
    <3>1. f = e
      BY <1>1, <1>3 DEF Alone, Settle
    <3> QED
      BY <1>1, <3>1 DEF Settle, TypeOK
  <2>2. pos'[p] \in {pos[p], 0}
    BY <1>1, <1>2, <2>1, PosKept
  <2>3. /\ order[e] <= cap
        /\ \/ AbsUsd(pos[p]) + order[e] <= cap
           \/ SideOf(pos[p]) # Direction(e) /\ pos[p] # 0
    BY <1>3 DEF CapInv, QueuedWithinCap, p, cap
  <2>4. /\ order'[e] <= cap
        /\ \/ AbsUsd(pos'[p]) + order'[e] <= cap
           \/ SideOf(pos'[p]) # Direction(e) /\ pos'[p] # 0
    BY <1>2, <1>3, <2>2, <2>3
  <2> QED
    BY <2>4 DEF p, cap
<1>4. CASE Insert(e) /\ verdict[e] = "accept"
  <2>1. pos' = pos /\ order' = order /\ pc[e] = "insert" /\ InHandler(e)
    BY <1>1, <1>4, InsertEffect
  <2>2. pos[p] \in {reads[e].held, 0}
    BY <1>1, <2>1 DEF ReadsBound, PastPosition, p
  <2>3. order[e] > 0 /\ ~WouldBreachPositionCap(Request(e)) /\ reads[e].held \in Int
    BY <1>1, <1>4, InsertAccepts DEF Reads
  <2>4. order[e] <= cap
    BY <1>1, <2>1, <2>3, OrderFits DEF cap
  <2>5. /\ Opening(Request(e)) /\ Request(e).strategy = Strategy(e)
        /\ Request(e).held = reads[e].held /\ Request(e).notional = order[e]
        /\ Request(e).direction = Direction(e)
    BY <2>3 DEF Opening, Request, IsFlat
  <2>6. \/ AbsUsd(reads[e].held) + order[e] <= cap
        \/ SideOf(reads[e].held) # Direction(e) /\ reads[e].held # 0
    <3>1. Opposes(Request(e)) => SideOf(reads[e].held) # Direction(e) /\ reads[e].held # 0
      BY <2>5 DEF Opposes, Adds
    <3>2. AbsUsd(reads[e].held) \in Nat
      BY <2>3 DEF AbsUsd
    <3>3. ~Opposes(Request(e)) => ~(AbsUsd(reads[e].held) + order[e] > cap)
      BY <2>3, <2>5 DEF WouldBreachPositionCap, cap
    <3> QED
      BY <1>2, <3>1, <3>2, <3>3
  <2>7. /\ order'[e] <= cap
        /\ \/ AbsUsd(pos'[p]) + order'[e] <= cap
           \/ SideOf(pos'[p]) # Direction(e) /\ pos'[p] # 0
    BY <1>2, <2>1, <2>2, <2>4, <2>6
  <2> QED
    BY <2>7 DEF p, cap
<1> QED
  BY <1>1, <1>3, <1>4, EntryStep

(* Every step keeps positions within their caps.                           *)
LEMMA PositionStep ==
  ASSUME Serial, CapInv, [Next]_vars
  PROVE  PositionCapped'
<1> SUFFICES ASSUME NEW p \in Strategies \X Assets, PositionCap(BucketOf[p[1]]) > 0
             PROVE  AbsUsd(pos'[p]) <= PositionCap(BucketOf[p[1]])
  BY DEF PositionCapped
<1> DEFINE cap == PositionCap(BucketOf[p[1]])
<1>1. CoreInv /\ TypeOK /\ pos[p] \in Int /\ AbsUsd(pos[p]) \in Nat /\ AbsUsd(0) = 0
  BY DEF CapInv, SerialInv, CoreInv, TypeOK, AbsUsd
<1>2. AbsUsd(pos[p]) <= cap /\ cap \in Nat
  BY PositionCapType DEF CapInv, PositionCapped
<1> HIDE DEF cap
<1>3. CASE pos'[p] \in {pos[p], 0}
  BY <1>1, <1>2, <1>3 DEF cap
<1>4. ASSUME NEW e \in Entries, Settle(e), PositionOf(e) = p
      PROVE  AbsUsd(pos'[p]) <= cap
  <2>1. CASE Direction(e) \notin {"long", "short"}
    BY <1>1, <1>2, <1>4, <2>1, SettleEffect
  <2>2. CASE Direction(e) \in {"long", "short"}
    <3>1. ~IsFlat(e) /\ pos'[p] = IF Direction(e) = "long" THEN pos[p] + order[e]
                                                           ELSE pos[p] - order[e]
      BY <1>1, <1>4, <2>2, SettleEffect
    <3>2. order[e] \in Nat /\ AbsUsd(pos'[p]) \in Int
      <4>1. order[e] \in Nat
        BY <1>1 DEF TypeOK
      <4>2. pos'[p] \in Int
        BY <1>1, <3>1, <4>1
      <4> QED
        BY <4>1, <4>2 DEF AbsUsd
    <3>3. /\ order[e] <= cap
          /\ \/ AbsUsd(pos[p]) + order[e] <= cap
             \/ SideOf(pos[p]) # Direction(e) /\ pos[p] # 0
      <4>1. Strategy(e) = p[1] /\ intent[e] = "queued"
        BY <1>4 DEF PositionOf, Settle
      <4> QED
        BY <1>4, <3>1, <4>1 DEF CapInv, QueuedWithinCap, cap
    <3>4. /\ AbsUsd(pos'[p]) <= AbsUsd(pos[p]) + order[e]
          /\ pos[p] # 0 /\ SideOf(pos[p]) # Direction(e) =>
               AbsUsd(pos'[p]) <= AbsUsd(pos[p]) \/ AbsUsd(pos'[p]) <= order[e]
      BY <1>1, <2>2, <3>1, <3>2, TradeFacts
    <3> QED
      BY <1>1, <1>2, <3>2, <3>3, <3>4
  <2> QED
    BY <2>1, <2>2
<1> QED
  BY <1>1, <1>3, <1>4, PosKept DEF cap

(* With one router and settled orders, nobody adds to a position who has   *)
(* not opted in.                                                           *)
THEOREM NoneScaledIn == ASSUME Serial PROVE Spec => NoScaleIn
<1> DEFINE Grows == \A p \in Strategies \X Assets :
             (AbsUsd(pos'[p]) > AbsUsd(pos[p]) /\ SideOf(pos[p]) = SideOf(pos'[p]))
               => p[1] \in ScaleIn
<1>1. Init => SerialInv
  BY SerialInit
<1>2. SerialInv /\ [Next]_vars => SerialInv'
  BY SerialStep
<1>3. SerialInv /\ [Next]_vars => [Grows]_vars
  BY ScaleInStep
<1>4. NoScaleIn <=> [][Grows]_vars
  BY DEF NoScaleIn
<1> QED
  BY <1>1, <1>2, <1>3, <1>4, PTL DEF Spec

(* And every queued order fits its position's cap, where one full order    *)
(* does.                                                                   *)
THEOREM CapsKept == ASSUME Serial, FullOrderFits PROVE Spec => []CapInv
<1>1. Init => CapInv
  BY SerialInit, CapsInit DEF CapInv, QueuedWithinCap, Init
<1>2. CapInv /\ [Next]_vars => CapInv'
  <2> SUFFICES ASSUME CapInv, [Next]_vars PROVE CapInv'
    OBVIOUS
  <2>1. SerialInv'
    BY SerialStep DEF CapInv
  <2>2. QueuedWithinCap' /\ PositionCapped'
    BY WithinCapStep, PositionStep
  <2> QED
    BY <2>1, <2>2 DEF CapInv
<1> QED
  BY <1>1, <1>2, PTL DEF Spec

(* So no position outgrows its cap.                                        *)
THEOREM PositionKept == ASSUME Serial, FullOrderFits PROVE Spec => []PositionCapped
<1>1. Spec => []CapInv
  BY CapsKept
<1>2. CapInv => PositionCapped
  BY DEF CapInv
<1> QED
  BY <1>1, <1>2, PTL

=============================================================================
