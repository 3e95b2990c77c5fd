------------------------------- MODULE Sizing -------------------------------
(***************************************************************************)
(* sizing.py: the notional of an order, from the bucket of its strategy,   *)
(* the alpha's hint and confidence, the Liquidity Pulse multiplier and the *)
(* headroom left in the strategy's budget.                                 *)
(*                                                                         *)
(* Amounts are naturals on a grid of Cent units to the cent; percentages   *)
(* of equity are given as the amounts they come to.  A dict of the         *)
(* settings is a function on its keys.  Confidence and multiplier are in   *)
(* hundredths.                                                             *)
(***************************************************************************)
EXTENDS Integers, FiniteSetsExt

CONSTANTS
  Strategies,       \* strategy ids; each is also its slug
  NoSlug,           \* the slug of an alpha whose metadata has none
  Assets,
  Buckets,
  BucketOf,         \* strategies.frontmatter->>'bucket'
  BucketMax,        \* bucket_size_pct_max
  DefaultPerTrade,  \* default_per_trade_pct
  SizeOverrides,    \* bucket_size_overrides, by <<asset, bucket>>
  BudgetOverrides,  \* strategy_budget_overrides, by slug
  DefaultBudget,    \* default_strategy_budget_usd; 0 is none
  OrderCaps,        \* strategy_order_cap_overrides, by slug
  Cent              \* grid units in a cent

ASSUME SizingAssumption ==
  /\ NoSlug \notin Strategies
  /\ BucketOf \in [Strategies -> Buckets]
  /\ DOMAIN BucketMax \subseteq Buckets
  /\ \A b \in DOMAIN BucketMax : BucketMax[b] \in Nat
  /\ DefaultPerTrade \in Nat
  /\ DOMAIN SizeOverrides \subseteq Assets \X Buckets
  /\ \A k \in DOMAIN SizeOverrides : SizeOverrides[k] \in Nat \ {0}
  /\ DOMAIN BudgetOverrides \subseteq Strategies
  /\ \A s \in DOMAIN BudgetOverrides : BudgetOverrides[s] \in Nat \ {0}
  /\ DefaultBudget \in Nat
  /\ DOMAIN OrderCaps \subseteq Strategies
  /\ \A s \in DOMAIN OrderCaps : OrderCaps[s] \in Nat \ {0}
  /\ Cent \in Nat \ {0}

(* dict.get(key, default)                                                  *)
Get(dict, key, default) == IF key \in DOMAIN dict THEN dict[key] ELSE default

(* A cap that is not configured.                                           *)
NoCap == 0

NonNegative(x) == Max({0, x})

(* Per-symbol override, then the bucket's size, then the default.          *)
BucketUsd(asset, bucket) ==
  Get(SizeOverrides, <<asset, bucket>>, Get(BucketMax, bucket, DefaultPerTrade))

BudgetCap(slug) ==
  IF slug = NoSlug THEN NoCap ELSE Get(BudgetOverrides, slug, DefaultBudget)

OrderCap(slug) == Get(OrderCaps, slug, NoCap)

(* The hint may only lower the bucket's size; a missing hint is 0.         *)
Proposed(alpha, bucketUsd) ==
  IF alpha.hint > 0 THEN Min({alpha.hint, bucketUsd}) ELSE bucketUsd

(* Confidence, floored at a quarter, then the clamped multiplier.          *)
Scaled(alpha, bucketUsd, lp) ==
  (Proposed(alpha, bucketUsd) * Max({25, alpha.confidence})
     * Max({50, Min({200, lp})})) \div 10000

(* What the budget and the per-order cap leave; no element for a cap that  *)
(* is not configured.                                                      *)
Limits(slug, exposure) ==
  {NonNegative(cap - exposure) : cap \in {BudgetCap(slug)} \ {NoCap}}
    \cup ({OrderCap(slug)} \ {NoCap})
LimitsWithoutHeadroom(slug, exposure) ==
  ({BudgetCap(slug)} \cup {OrderCap(slug)}) \ {NoCap}

(* round(x, 2): a nearest multiple of a cent, and either of two that are   *)
(* equally near, for the tie is broken by the float's representation.      *)
RoundToCent(x) ==
  LET low == x - (x % Cent)
  IN  {c \in {low, low + Cent} : 2 * (x - c) <= Cent /\ 2 * (c - x) <= Cent}

(* compute_notional, as the set of results it may have.                    *)
ComputeNotionalIgnoringBudget(alpha, lp, exposure) ==
  RoundToCent(Min({Scaled(alpha, BucketUsd(alpha.asset, BucketOf[alpha.strategy]), lp)}
                    \cup LimitsWithoutHeadroom(alpha.slug, exposure)))
ComputeNotional(alpha, lp, exposure) ==
  RoundToCent(Min({Scaled(alpha, BucketUsd(alpha.asset, BucketOf[alpha.strategy]), lp)}
                    \cup Limits(alpha.slug, exposure)))

=============================================================================
