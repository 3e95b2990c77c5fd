------------------------------- MODULE Router -------------------------------
(***************************************************************************)
(* _route_one (router.py), await by await: what each alpha's handler reads *)
(* from Redis and Postgres, the decision it takes on what it read, and the *)
(* intent it inserts, while other handlers, the operator, the risk watcher *)
(* and the venue adapter go on.                                            *)
(*                                                                         *)
(* BudgetReservation has the reservation in detail (expiry, failures); here*)
(* it is one atomic counter per slug that never expires under an order in  *)
(* flight.  Each entry carries an alpha of its own.                        *)
(***************************************************************************)
EXTENDS Cluster, LpMultiplier, Functions

CONSTANTS
  Entries,         \* alphas delivered to the router
  AlphaOf,         \* the alpha of an entry
  LpPayloads,      \* the payloads Redis may hold for an asset; none when
                   \* its name starts with no tracked alias
  Replicas,        \* router processes; each routes one alpha at a time
  SettledFirst,    \* does the adapter settle each order before the next alpha?
  MarkStep,        \* a move of a position's mark value; 0 when marks are still
  MaxMoves,        \* bound on such moves
  MaxChanges       \* bound on them and on changes of halt keys and drawdowns

Alphas == [strategy: Strategies, slug: Strategies \cup {NoSlug}, asset: Assets,
           direction: {"long", "short", "flat", "watch"}, hint: Nat, confidence: 0..100]

ASSUME RouterAssumption ==
  /\ IsFiniteSet(Entries) /\ IsFiniteSet(Strategies) /\ IsFiniteSet(Assets)
  /\ ({"system"} \cup Strategies) \cap Periods = {}
  /\ AlphaOf \in [Entries -> Alphas]
  /\ \A e \in Entries : AlphaOf[e].slug \in {AlphaOf[e].strategy, NoSlug}
  /\ DOMAIN LpPayloads \subseteq Assets
  /\ \A a \in DOMAIN LpPayloads : LpPayloads[a] \subseteq Payloads
  /\ Replicas \in Nat \ {0}
  /\ SettledFirst \in BOOLEAN
  /\ MarkStep \in Nat /\ MaxMoves \in Nat /\ MaxChanges \in Nat

VARIABLES
  pc,        \* the next await of a handler; "new" before, "done" after it
  reads,     \* what the handler has read
  order,     \* proposed_notional, and then the notional of the intent
  verdict,   \* decision.reason, "accept" for none, "none" before it
  intent,    \* status of the entry's intent row, and of its order
  pending,   \* the reservation counter of a slug
  pos,       \* mark value of a strategy's position in an asset, short negative
  halts,     \* halt keys that are set: "system", or a slug
  drawdown,  \* latest drawdown snapshot, by period
  moves,     \* marks moved so far
  switches,  \* halt keys and drawdowns changed so far
  stopped    \* <<entry, stop>>: it stands since before the entry was taken up

vars  == <<pc, reads, order, verdict, intent, pending, pos, halts, drawdown,
           moves, switches, stopped>>
env   == <<pos, halts, drawdown, moves, switches, stopped>>
rows  == <<verdict, intent>>

Slug(e)      == AlphaOf[e].slug
Strategy(e)  == AlphaOf[e].strategy
Asset(e)     == AlphaOf[e].asset
Direction(e) == AlphaOf[e].direction
IsFlat(e)    == Direction(e) = "flat"

NoPayload == [json |-> "missing", number |-> "none", value |-> Neutral, stamp |-> "unusable"]

NoReads == [halted |-> FALSE, strategyHalted |-> FALSE,
            drawdown |-> [p \in Periods |-> 0], exposure |-> 0, held |-> 0,
            bucketUsd |-> 0, clusterUsd |-> 0, pendingTotal |-> 0, lp |-> NoPayload]

Awaits == {"strategy_halt", "snapshots", "size", "position", "bucket", "cluster",
           "reserve", "evaluate", "release", "insert"}
InHandler(e) == pc[e] \in Awaits

Reads == [halted: BOOLEAN, strategyHalted: BOOLEAN, drawdown: [Periods -> Nat],
          exposure: Nat, held: Int, bucketUsd: Nat, clusterUsd: Nat,
          pendingTotal: Nat, lp: Payloads]

TypeOK ==
  /\ pc \in [Entries -> Awaits \cup {"new", "done"}]
  /\ reads \in [Entries -> Reads]
  /\ order \in [Entries -> Nat]
  /\ verdict \in [Entries -> Verdicts \cup {"none"}]
  /\ intent \in [Entries -> {"none", "queued", "rejected", "filled", "refused"}]
  /\ pending \in [Strategies -> Nat]
  /\ pos \in [Strategies \X Assets -> Int]
  /\ halts \subseteq {"system"} \cup Strategies
  /\ drawdown \in [Periods -> Nat] /\ \A p \in Periods : drawdown[p] <= DrawdownCap[p]
  /\ stopped \subseteq Entries \X ({"system"} \cup Strategies \cup Periods)
  /\ moves \in Nat /\ switches \in Nat

Init ==
  /\ pc       = [e \in Entries |-> "new"]
  /\ reads    = [e \in Entries |-> NoReads]
  /\ order    = [e \in Entries |-> 0]
  /\ verdict  = [e \in Entries |-> "none"]
  /\ intent   = [e \in Entries |-> "none"]
  /\ pending  = [s \in Strategies |-> 0]
  /\ pos      = [p \in Strategies \X Assets |-> 0]
  /\ halts    = {}
  /\ drawdown = [p \in Periods |-> 0]
  /\ moves = 0 /\ switches = 0 /\ stopped = {}

-----------------------------------------------------------------------------
(* The exposures Postgres sums over open positions: of a strategy, of the  *)
(* strategies of a bucket, of the assets a cluster's filter selects.       *)
PosUsd     == [p \in Strategies \X Assets |-> AbsUsd(pos[p])]
OpenUsd(S) == SumFunctionOnSet(PosUsd, S)

OfStrategy(s) == {s} \X Assets
OfBucket(b)   == {s \in Strategies : BucketOf[s] = b} \X Assets
OfFilter(c)   == Strategies \X FilterAssets(c)

ExistingOpenPosition(e) == pos[<<Strategy(e), Asset(e)>>]

Read(e, field, value) == reads' = [reads EXCEPT ![e][field] = value]
Goto(e, step)         == pc' = [pc EXCEPT ![e] = step]
Return(e) ==
  /\ Goto(e, "done")
  /\ reads' = [reads EXCEPT ![e] = NoReads]

(* A watch alpha, or one that expired in the stream: no row.               *)
Skip(e) ==
  /\ pc[e] = "new"
  /\ Return(e)
  /\ UNCHANGED <<order, rows, pending, env>>

(* What must stop an alpha: the halt keys set for it, breached drawdowns.   *)
Breached(dd)      == {p \in Periods : dd[p] >= DrawdownCap[p]}
Stops(hs, dd)     == hs \cup Breached(dd)
StopsFor(e)       == Stops(halts \cap {"system", Slug(e)}, drawdown)

(* A handler starts with the system halt key.                              *)
CheckSystemHalt(e) ==
  /\ pc[e] = "new"
  /\ Direction(e) # "watch"
  /\ Cardinality({f \in Entries : InHandler(f)}) < Replicas
  /\ SettledFirst => \A f \in Entries : intent[f] # "queued"
  /\ Read(e, "halted", "system" \in halts)
  /\ stopped' = stopped \cup {e} \X StopsFor(e)
  /\ Goto(e, "strategy_halt")
  /\ UNCHANGED <<order, rows, pending, pos, halts, drawdown, moves, switches>>

CheckSystemHaltOnly(e) ==
  /\ pc[e] = "strategy_halt"
  /\ Goto(e, "snapshots")
  /\ UNCHANGED <<reads, order, rows, pending, env>>
CheckStrategyHalt(e) ==
  /\ pc[e] = "strategy_halt"
  /\ Read(e, "strategyHalted", Slug(e) \in halts)
  /\ Goto(e, "snapshots")
  /\ UNCHANGED <<order, rows, pending, env>>

ReadSnapshots(e) ==
  /\ pc[e] = "snapshots"
  /\ Read(e, "drawdown", drawdown)
  /\ Goto(e, IF IsFlat(e) THEN "position" ELSE "size")
  /\ UNCHANGED <<order, rows, pending, env>>

(* fetch_multiplier: an asset that is not tracked keeps its size.          *)
PayloadsFor(a) == Get(LpPayloads, a, {NoPayload})

(* fetch_multiplier, strategy_open_exposure_usd and compute_notional, the  *)
(* first of which nothing else here touches.  A close is not sized.        *)
SizeOrder(e) ==
  /\ pc[e] = "size"
  /\ \E p \in PayloadsFor(Asset(e)) :
       LET exposure == IF Slug(e) = NoSlug THEN 0 ELSE OpenUsd(OfStrategy(Slug(e)))
       IN  /\ ~Raises(p)
           /\ reads' = [reads EXCEPT ![e].exposure = exposure, ![e].lp = p]
           /\ \E usd \in ComputeNotional(AlphaOf[e], ParseMultiplier(p), exposure) :
                order' = [order EXCEPT ![e] = usd]
  /\ Goto(e, "position")
  /\ UNCHANGED <<rows, pending, env>>

(* A payload that is no JSON object raises out of the handler.             *)
RaiseOnPayload(e) ==
  /\ pc[e] = "size"
  /\ \E p \in PayloadsFor(Asset(e)) : Raises(p)
  /\ Return(e)
  /\ UNCHANGED <<order, rows, pending, env>>

ReadPosition(e) ==
  /\ pc[e] = "position"
  /\ Read(e, "held", ExistingOpenPosition(e))
  /\ Goto(e, "bucket")
  /\ UNCHANGED <<order, rows, pending, env>>

ReadBucketExposure(e) ==
  /\ pc[e] = "bucket"
  /\ Read(e, "bucketUsd", OpenUsd(OfBucket(BucketOf[Strategy(e)])))
  /\ Goto(e, "cluster")
  /\ UNCHANGED <<order, rows, pending, env>>

(* An order with a slug and a size goes on to its reservation.             *)
ReadClusterExposure(e) ==
  /\ pc[e] = "cluster"
  /\ Read(e, "clusterUsd", OpenUsd(OfFilter(ClusterOf(Asset(e)))))
  /\ Goto(e, IF Slug(e) # NoSlug /\ order[e] > 0 THEN "reserve" ELSE "evaluate")
  /\ UNCHANGED <<order, rows, pending, env>>

ReserveNothing(e) ==
  /\ pc[e] = "reserve"
  /\ Read(e, "pendingTotal", pending[Slug(e)] + order[e])
  /\ Goto(e, "evaluate")
  /\ UNCHANGED <<order, rows, pending, env>>
Reserve(e) ==
  /\ pc[e] = "reserve"
  /\ pending' = [pending EXCEPT ![Slug(e)] = @ + order[e]]
  /\ Read(e, "pendingTotal", pending[Slug(e)] + order[e])
  /\ Goto(e, "evaluate")
  /\ UNCHANGED <<order, rows, env>>

(* What preflight is given.  The router never passes a bankroll tier.      *)
Request(e) ==
  [strategy |-> Strategy(e), slug |-> Slug(e), asset |-> Asset(e),
   direction |-> Direction(e), notional |-> order[e], tier |-> NoTier,
   halted |-> reads[e].halted, strategyHalted |-> reads[e].strategyHalted,
   drawdown |-> reads[e].drawdown, held |-> reads[e].held,
   bucketUsd |-> reads[e].bucketUsd, clusterUsd |-> reads[e].clusterUsd,
   strategyUsd |-> reads[e].exposure + NonNegative(reads[e].pendingTotal - order[e])]

(* An accepted order that was sized to nothing ends here, with no row.     *)
Decide(e) ==
  /\ pc[e] = "evaluate"
  /\ LET v == Evaluate(Request(e))
     IN  /\ verdict' = [verdict EXCEPT ![e] = v]
         /\ CASE v = "accept" /\ ~IsFlat(e) /\ order[e] = 0 -> Return(e)
              [] v # "accept" /\ Slug(e) # NoSlug /\ order[e] > 0 ->
                   Goto(e, "release") /\ UNCHANGED reads
              [] OTHER -> Goto(e, "insert") /\ UNCHANGED reads
  /\ UNCHANGED <<order, intent, pending, env>>

ReleaseAll(e) ==
  /\ pc[e] = "release"
  /\ pending' = [pending EXCEPT ![Slug(e)] = 0]
  /\ Goto(e, "insert")
  /\ UNCHANGED <<reads, order, rows, env>>
Release(e) ==
  /\ pc[e] = "release"
  /\ pending' = [pending EXCEPT ![Slug(e)] = @ - order[e]]
  /\ Goto(e, "insert")
  /\ UNCHANGED <<reads, order, rows, env>>

Insert(e) ==
  /\ pc[e] = "insert"
  /\ intent' = [intent EXCEPT ![e] = IF verdict[e] = "accept" THEN "queued" ELSE "rejected"]
  /\ Return(e)
  /\ UNCHANGED <<order, verdict, pending, env>>

Handler(e) ==
  \/ Skip(e) \/ CheckSystemHalt(e) \/ CheckStrategyHalt(e) \/ ReadSnapshots(e)
  \/ SizeOrder(e) \/ RaiseOnPayload(e) \/ ReadPosition(e) \/ ReadBucketExposure(e)
  \/ ReadClusterExposure(e) \/ Reserve(e) \/ Decide(e) \/ Release(e) \/ Insert(e)

-----------------------------------------------------------------------------
(* The venue adapter fills a queued order, netting it into the position,   *)
(* or refuses it; a close empties the position.                            *)
Settle(e) ==
  /\ intent[e] = "queued"
  /\ intent' = [intent EXCEPT ![e] = "filled"]
  /\ pos' = [pos EXCEPT ![<<Strategy(e), Asset(e)>>] =
               CASE Direction(e) = "long"  -> @ + order[e]
                 [] Direction(e) = "short" -> @ - order[e]
                 [] OTHER -> 0]
  /\ UNCHANGED <<pc, reads, order, verdict, pending, halts, drawdown, moves,
                 switches, stopped>>

Refuse(e) ==
  /\ intent[e] = "queued"
  /\ intent' = [intent EXCEPT ![e] = "refused"]
  /\ UNCHANGED <<pc, reads, order, verdict, pending, env>>

(* A position is left (stop, expiry of the market).                        *)
Exit(p) ==
  /\ pos[p] # 0
  /\ pos' = [pos EXCEPT ![p] = 0]
  /\ UNCHANGED <<pc, reads, order, rows, pending, halts, drawdown, moves, switches, stopped>>

(* Its mark moves; quantity times price need not be whole cents.           *)
Mark(p) ==
  /\ MarkStep > 0 /\ moves < MaxMoves /\ moves + switches < MaxChanges
  /\ pos[p] # 0
  /\ moves' = moves + 1
  /\ \E d \in {MarkStep, -MarkStep} :
       /\ SideOf(pos[p] + d) = SideOf(pos[p])
       /\ pos' = [pos EXCEPT ![p] = @ + d]
  /\ UNCHANGED <<pc, reads, order, rows, pending, halts, drawdown, switches, stopped>>

(* The reservation counter of a slug expires: no order of it is reserved   *)
(* or queued, and no handler holds an exposure it has since outgrown.      *)
Forget(s) ==
  /\ pending[s] # 0
  /\ \A e \in Entries : Slug(e) = s =>
       /\ intent[e] # "queued"
       /\ pc[e] \notin {"evaluate", "release", "insert"}
       /\ pc[e] \in {"position", "bucket", "cluster", "reserve"} =>
            reads[e].exposure >= OpenUsd(OfStrategy(s))
  /\ pending' = [pending EXCEPT ![s] = 0]
  /\ UNCHANGED <<pc, reads, order, rows, env>>

(* The operator sets and clears halt keys.                                 *)
SwitchHalt(h) ==
  /\ moves + switches < MaxChanges
  /\ switches' = switches + 1
  /\ halts' = IF h \in halts THEN halts \ {h} ELSE halts \cup {h}
  /\ stopped' = {x \in stopped : x[2] \in Stops(halts', drawdown)}
  /\ UNCHANGED <<pc, reads, order, rows, pending, pos, drawdown, moves>>

(* The risk watcher writes a snapshot at, or below, the period's cap.      *)
Snapshot(p) ==
  /\ moves + switches < MaxChanges
  /\ switches' = switches + 1
  /\ drawdown' = [drawdown EXCEPT ![p] = DrawdownCap[p] - @]
  /\ stopped' = {x \in stopped : x[2] \in Stops(halts, drawdown')}
  /\ UNCHANGED <<pc, reads, order, rows, pending, pos, halts, moves>>

Environment ==
  \/ \E e \in Entries : Settle(e) \/ Refuse(e)
  \/ \E p \in Strategies \X Assets : Exit(p) \/ Mark(p)
  \/ \E s \in Strategies : Forget(s)
  \/ \E h \in {"system"} \cup Strategies : SwitchHalt(h)
  \/ \E p \in Periods : Snapshot(p)

Next == Environment \/ \E e \in Entries : Handler(e)

Spec == Init /\ [][Next]_vars

-----------------------------------------------------------------------------
QueuedUsd(E) == SumFunctionOnSet(order, {e \in E : intent[e] = "queued"})

(* Whatever handlers interleave, the open positions of a strategy and the  *)
(* orders it has queued stay within its budget until marks move: the       *)
(* reservation closes the gap between reading the exposure and inserting   *)
(* (router.py:246-264).                                                    *)
BudgetCapped ==
  \A s \in Strategies :
    (BudgetCap(s) # NoCap /\ moves = 0) =>
      OpenUsd(OfStrategy(s)) + QueuedUsd({e \in Entries : Strategy(e) = s}) <= BudgetCap(s)

(* The open and queued orders of a bucket stay within its cap across the   *)
(* strategies that share it (preflight.py:310-344).                        *)
BucketCapped ==
  \A b \in DOMAIN BucketTotal :
    BucketTotal[b] > 0 =>
      OpenUsd(OfBucket(b)) + QueuedUsd({e \in Entries : BucketOf[Strategy(e)] = b})
        <= BucketTotal[b]

(* The open and queued orders of a cluster stay within the cluster cap     *)
(* across its markets: "separate strategies fanning out [...] together     *)
(* breach the cluster cap" is what the guard is for (preflight.py:347-383),*)
(* whichever words the filter then looks for (preflight.py:93-98, "turn a  *)
(* cluster key back into a SQL filter").                                   *)
ClusterCapped ==
  ClusterTotal > 0 =>
    \A c \in {k \in {ClusterOf(a) : a \in Assets} : Guarded(k)} :
      LET markets == {a \in Assets : ClusterOf(a) = c}
      IN  OpenUsd(Strategies \X markets)
            + QueuedUsd({e \in Entries : Asset(e) \in markets}) <= ClusterTotal

(* No position outgrows its cap, also not by an opposite order, which the  *)
(* cap lets through and which may reverse the position; a cap of 0         *)
(* disables the check (preflight.py:246-307).                              *)
PositionCapped ==
  \A p \in Strategies \X Assets :
    PositionCap(BucketOf[p[1]]) > 0 => AbsUsd(pos[p]) <= PositionCap(BucketOf[p[1]])

(* A strategy that has not opted into scaling in never adds to a position: *)
(* each trade is one position at the level of strategy and asset           *)
(* (preflight.py:190-231, 204-205).                                        *)
NoScaleIn ==
  [][\A p \in Strategies \X Assets :
       (AbsUsd(pos'[p]) > AbsUsd(pos[p]) /\ SideOf(pos[p]) = SideOf(pos'[p]))
         => p[1] \in ScaleIn]_vars

(* An alpha taken up under a halt key or a drawdown breach that still      *)
(* stands has no live intent, whatever else was switched meanwhile         *)
(* (router.py:74-81, preflight.py:551-576).                                *)
StopsHonoured ==
  \A x \in stopped : intent[x[1]] \in {"none", "rejected"}

(* Sizing never proposes what the budget check would reject on the same    *)
(* exposure, but for the half cent that rounding to a cent may add         *)
(* (sizing.py:175-182).                                                    *)
SizedWithinHeadroom ==
  \A e \in Entries :
    (InHandler(e) /\ order[e] > 0 /\ BudgetCap(Slug(e)) # NoCap)
      => 2 * (reads[e].exposure + order[e] - BudgetCap(Slug(e))) <= Cent

(* An order is larger than without the multiplier, whichever way a tie is  *)
(* rounded, only on the strength of a number that is not known to be       *)
(* stale: "never amplify on missing data" (router.py:166-169,              *)
(* lp_multiplier.py:11-12).                                                *)
AmplifiedOnlyOnData ==
  \A e \in Entries :
    LET a     == AlphaOf[e]
        plain == Scaled(a, BucketUsd(a.asset, BucketOf[a.strategy]), Neutral)
    IN  (InHandler(e) /\ \A usd \in RoundToCent(plain) : order[e] > usd)
          => /\ reads[e].lp.json = "object"
             /\ reads[e].lp.number # "none"
             /\ reads[e].lp.stamp # "stale"

=============================================================================
