------------------------------ MODULE Preflight ------------------------------
(***************************************************************************)
(* preflight.py: the checks an alpha passes before its intent is queued,   *)
(* in the order they run.  A request holds what the router read:           *)
(*   strategy, slug, asset, direction  of the alpha                        *)
(*   halted, strategyHalted            the halt keys                       *)
(*   drawdown                          latest snapshots, by period         *)
(*   held                              the open position, short negative   *)
(*   notional                          the sized order, 0 when not sized   *)
(*   bucketUsd, clusterUsd, strategyUsd   open exposures                   *)
(*   tier                              the bankroll tier's budget, or 0    *)
(***************************************************************************)
EXTENDS Sizing, Sequences

CONSTANTS
  Whitelist,           \* live_strategy_whitelist_csv; {} enforces none
  Periods,             \* periods of the drawdown caps
  DrawdownCap,         \* daily_dd_pct_cap and the others, by period
  DisabledDirections,  \* strategy_disable_directions_csv, <<slug, direction>>
  ScaleIn,             \* allow_same_direction_scale_in_strategies_csv
  PositionMult,        \* bucket_position_cap_mult
  BucketTotal,         \* bucket_total_exposure_pct_cap, by bucket
  ClusterTotal         \* cluster_exposure_pct_cap; 0 disables it

ASSUME PreflightAssumption ==
  /\ Whitelist \subseteq Strategies
  /\ DrawdownCap \in [Periods -> Nat]
  /\ DisabledDirections \subseteq Strategies \X {"long", "short"}
  /\ ScaleIn \subseteq Strategies
  /\ PositionMult \in Nat
  /\ DOMAIN BucketTotal \subseteq Buckets
  /\ \A b \in DOMAIN BucketTotal : BucketTotal[b] \in Nat
  /\ ClusterTotal \in Nat

AbsUsd(x) == IF x < 0 THEN -x ELSE x

(* No bankroll tier: sizing by tier is disabled or its state is stale.     *)
NoTier == 0

SideOf(held) == CASE held > 0 -> "long" [] held < 0 -> "short" [] OTHER -> "none"

Adds(q)    == SideOf(q.held) = q.direction
Opposes(q) == q.held # 0 /\ q.direction # "flat" /\ ~Adds(q)

(* An order with a size to check: not a close, and not sized to nothing.   *)
Opening(q) == q.direction # "flat" /\ q.notional > 0

NotWhitelisted(q) == Whitelist # {} /\ q.slug \notin Whitelist

DrawdownBreached(q) ==
  \E p \in DOMAIN q.drawdown : q.drawdown[p] >= DrawdownCap[p]

DirectionDisabled(q) == <<q.slug, q.direction>> \in DisabledDirections

DuplicatesShortOnly(q) ==
  q.direction = "short" /\ Adds(q) /\ q.slug \notin ScaleIn
WouldDuplicatePosition(q) ==
  q.direction # "flat" /\ Adds(q) /\ q.slug \notin ScaleIn

(* bucket_position_cap_mult orders of the bucket's size, whatever the      *)
(* symbol's own.                                                           *)
PositionCap(bucket) == PositionMult * Get(BucketMax, bucket, DefaultPerTrade)

BreachesPositionOfOrderOnly(q) ==
  LET cap == PositionCap(BucketOf[q.strategy])
  IN  Opening(q) /\ cap > 0 /\ ~Opposes(q) /\ q.notional > cap
WouldBreachPositionCap(q) ==
  LET cap == PositionCap(BucketOf[q.strategy])
  IN  Opening(q) /\ cap > 0 /\ ~Opposes(q) /\ AbsUsd(q.held) + q.notional > cap

BreachesBucketBefore(q) ==
  LET cap == Get(BucketTotal, BucketOf[q.strategy], NoCap)
  IN  Opening(q) /\ cap > 0 /\ q.bucketUsd > cap
WouldBreachBucketExposure(q) ==
  LET cap == Get(BucketTotal, BucketOf[q.strategy], NoCap)
  IN  Opening(q) /\ cap > 0 /\ q.bucketUsd + q.notional > cap

WouldBreachClusterExposure(q) ==
  Opening(q) /\ ClusterTotal > 0 /\ q.clusterUsd + q.notional > ClusterTotal

(* The override of the slug, else the tier's budget, else the default.     *)
WouldBreachStrategyBudget(q) ==
  LET cap == Get(BudgetOverrides, q.slug, IF q.tier > 0 THEN q.tier ELSE DefaultBudget)
  IN  Opening(q) /\ q.slug # NoSlug /\ cap > 0 /\ q.strategyUsd + q.notional > cap

Reasons == <<"strategy_not_whitelisted_for_live", "system_halted", "strategy_halted",
             "dd_breached", "direction_disabled_pre_calibration",
             "duplicate_position_same_direction", "position_cap_exceeded",
             "bucket_exposure_cap_exceeded", "cluster_exposure_cap_exceeded",
             "strategy_budget_breached">>

Checks(q) == <<NotWhitelisted(q), q.halted, q.strategyHalted,
               DrawdownBreached(q), DirectionDisabled(q),
               WouldDuplicatePosition(q), WouldBreachPositionCap(q),
               WouldBreachBucketExposure(q), WouldBreachClusterExposure(q),
               WouldBreachStrategyBudget(q)>>

(* evaluate: "accept", or the reason of the first check that fails.        *)
Verdicts == {"accept"} \cup {Reasons[k] : k \in DOMAIN Reasons}

EvaluateIgnoringHalts(q) ==
  LET failed == {k \in DOMAIN Reasons \ {2, 3} : Checks(q)[k]}
  IN  IF failed = {} THEN "accept" ELSE Reasons[Min(failed)]
Evaluate(q) ==
  LET failed == {k \in DOMAIN Reasons : Checks(q)[k]}
  IN  IF failed = {} THEN "accept" ELSE Reasons[Min(failed)]

=============================================================================
