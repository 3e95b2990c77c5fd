-------------------------- MODULE RouterInvariant --------------------------
(***************************************************************************)
(* The inductive invariants behind the safety properties of Router, and    *)
(* the environments some of those properties need.                         *)
(***************************************************************************)
EXTENDS Router

(* Every alpha that may open a position carries its strategy's slug.       *)
(* Without one it is neither reserved nor checked against a budget         *)
(* (router.py:247-249).                                                    *)
Slugged == \A e \in Entries : Slug(e) = NoSlug => IsFlat(e)

(* One process, whose orders the adapter settles before the next alpha, at *)
(* marks that stand still.                                                 *)
Serial == Replicas = 1 /\ SettledFirst /\ MarkStep = 0

(* The filter of a guarded cluster selects every market of the cluster.    *)
FilterComplete ==
  \A a \in Assets : Guarded(ClusterOf(a)) =>
    {m \in Assets : ClusterOf(m) = ClusterOf(a)} \subseteq FilterAssets(ClusterOf(a))

(* Assets are named as the filter expects them: slugs and tickers in the   *)
(* case of their cluster's head, and no slug but a single word starts with *)
(* a prefix word.                                                          *)
WellNamed ==
  \A a \in Assets : Words[a] # <<>> =>
    /\ DeriveVenue(a) = "polymarket" => /\ Lower[Words[a][1]] = Words[a][1]
                                        /\ Len(Words[a]) = 1 \/ Words[a][1] \notin SlugPrefixes
    /\ DeriveVenue(a) = "binance" => Upper[Words[a][1]] = Words[a][1]
    /\ DeriveVenue(a) = "alpaca"  => UpperCase(Words[a]) = Words[a]

(* One order, at the largest multiplier, fits the position cap.            *)
FullOrderFits ==
  \A a \in Assets, b \in Buckets : PositionCap(b) > 0 =>
    \A usd \in RoundToCent(2 * BucketUsd(a, b)) : usd <= PositionCap(b)

-----------------------------------------------------------------------------
(* What the steps of a handler leave for its later steps.                  *)

SizedAwaits == {"position", "bucket", "cluster", "reserve", "evaluate", "release", "insert"}

(* The size comes from the exposure and the payload the handler holds.     *)
SizeKnown(e) ==
  /\ pc[e] \in {"new", "strategy_halt", "snapshots", "size"} \/ IsFlat(e) => order[e] = 0
  /\ pc[e] \in SizedAwaits /\ ~IsFlat(e) =>
       order[e] \in ComputeNotional(AlphaOf[e], ParseMultiplier(reads[e].lp),
                                    reads[e].exposure)

(* The verdict is preflight's on what the handler holds, and is final.     *)
VerdictKnown(e) ==
  /\ pc[e] = "reserve" => Slug(e) # NoSlug /\ order[e] > 0
  /\ pc[e] \in {"release", "insert"} => verdict[e] = Evaluate(Request(e))
  /\ pc[e] = "release" => verdict[e] # "accept" /\ Slug(e) # NoSlug /\ order[e] > 0
  /\ pc[e] = "insert" /\ verdict[e] = "accept" => IsFlat(e) \/ order[e] > 0
  /\ intent[e] # "none" => pc[e] = "done"

HandlerConsistent(e) ==
  SizeKnown(e) /\ VerdictKnown(e) /\ (pc[e] = "size" => ~IsFlat(e))

HandlersConsistent == \A e \in Entries : HandlerConsistent(e)

-----------------------------------------------------------------------------
(* The reservation.  An order counts from its reservation to its fill.     *)
SizedOrders(s) == {e \in Entries : Slug(e) = s /\ order[e] > 0}
QueuedOf(s)    == {e \in SizedOrders(s) : intent[e] = "queued"}
AcceptedOf(s)  == {e \in SizedOrders(s) : pc[e] = "insert" /\ verdict[e] = "accept"}
ReservedOf(s)  == {e \in SizedOrders(s) : pc[e] \in {"evaluate", "release"}}
InFlight(s)    == ReservedOf(s) \cup AcceptedOf(s) \cup QueuedOf(s)

(* Those that are accepted, or will be if only the budget is in question.  *)
Passing(s) ==
  AcceptedOf(s) \cup {e \in ReservedOf(s) : pc[e] = "evaluate" /\ ~WouldBreachStrategyBudget(Request(e))}

OrdersUsd(E) == SumFunctionOnSet(order, E)

(* The counter holds every order in flight.                                *)
ReservationsCovered == \A s \in Strategies : OrdersUsd(InFlight(s)) <= pending[s]

(* What a handler has read, with the counter, bounds what is open or in    *)
(* flight by now: a fill moves an order from the one to the other.         *)
ExposureCovered ==
  \A e \in Entries :
    (moves = 0 /\ Slug(e) # NoSlug /\ ~IsFlat(e)
       /\ pc[e] \in {"position", "bucket", "cluster", "reserve"})
      => OpenUsd(OfStrategy(Slug(e))) + OrdersUsd(InFlight(Slug(e)))
           <= reads[e].exposure + pending[Slug(e)]

PassingFits ==
  \A s \in Strategies :
    (moves = 0 /\ BudgetCap(s) # NoCap) =>
      OpenUsd(OfStrategy(s)) + OrdersUsd(QueuedOf(s) \cup Passing(s)) <= BudgetCap(s)

(* Holds in every environment.                                             *)
CoreInv == TypeOK /\ HandlersConsistent /\ ReservationsCovered

(* Holds when Slugged.                                                     *)
BudgetInv == CoreInv /\ ExposureCovered /\ PassingFits

-----------------------------------------------------------------------------
(* A stop that stands since before an entry was taken up is in what its    *)
(* handler has read, and has decided its verdict.                          *)
StopSeen(e, x) ==
  /\ pc[e] # "new"
  /\ x \in (halts \cap {"system", Slug(e)}) \cup Breached(drawdown)
  /\ InHandler(e) =>
       /\ x = "system" => reads[e].halted
       /\ x \in Strategies \ {"system"} /\ pc[e] # "strategy_halt" => reads[e].strategyHalted
       /\ x \in Periods /\ pc[e] \notin {"strategy_halt", "snapshots"} =>
            reads[e].drawdown[x] >= DrawdownCap[x]
  /\ intent[e] \in {"none", "rejected"}

StopsSeen == \A x \in stopped : StopSeen(x[1], x[2])

(* Holds in every environment.                                             *)
StopsInv == CoreInv /\ StopsSeen

-----------------------------------------------------------------------------
(* When Serial, what a handler has read of positions is never less than    *)
(* what is open: nothing is queued meanwhile, and positions are only left. *)
Alone ==
  /\ \A e, f \in Entries : InHandler(e) /\ InHandler(f) => e = f
  /\ \A e, f \in Entries : intent[e] = "queued" => ~InHandler(f)
  /\ \A e, f \in Entries : intent[e] = "queued" /\ intent[f] = "queued" => e = f

PositionOf(e) == <<Strategy(e), Asset(e)>>

PastPosition == {"bucket", "cluster", "reserve", "evaluate", "release", "insert"}
PastBucket   == PastPosition \ {"bucket"}
PastCluster  == PastBucket \ {"cluster"}

ReadsBound ==
  \A e \in Entries :
    /\ pc[e] \in PastPosition => pos[PositionOf(e)] \in {reads[e].held, 0}
    /\ pc[e] \in PastBucket =>
         OpenUsd(OfBucket(BucketOf[Strategy(e)])) <= reads[e].bucketUsd
    /\ pc[e] \in PastCluster =>
         OpenUsd(OfFilter(ClusterOf(Asset(e)))) <= reads[e].clusterUsd

(* A queued order that opens has a size, and adds to a position only where *)
(* scaling in is allowed.                                                  *)
QueuedAdds ==
  \A e \in Entries :
    (intent[e] = "queued" /\ ~IsFlat(e)) =>
      /\ order[e] > 0
      /\ SideOf(pos[PositionOf(e)]) = Direction(e) => Strategy(e) \in ScaleIn

SerialInv == CoreInv /\ Alone /\ ReadsBound /\ QueuedAdds

(* Together with its position it fits the position cap, unless it trades   *)
(* against the position; by itself it fits in any case.                    *)
QueuedWithinCap ==
  \A e \in Entries :
    LET held == pos[PositionOf(e)]
        cap  == PositionCap(BucketOf[Strategy(e)])
    IN  (intent[e] = "queued" /\ ~IsFlat(e) /\ cap > 0) =>
          /\ order[e] <= cap
          /\ \/ AbsUsd(held) + order[e] <= cap
             \/ SideOf(held) # Direction(e) /\ held # 0

(* Holds when Serial and FullOrderFits.                                    *)
CapInv == SerialInv /\ QueuedWithinCap /\ PositionCapped

=============================================================================
