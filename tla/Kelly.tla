------------------------------- MODULE Kelly -------------------------------
(***************************************************************************)
(* kelly_allocator.py: the multiplier of a strategy out of its closed      *)
(* trades.  Multipliers are in hundredths, returns in units of 1/Unit.     *)
(* The window of 30 days is left out.                                      *)
(***************************************************************************)
EXTENDS Integers, Sequences, FiniteSetsExt, Functions

CONSTANTS
  Slugs,
  SlugRank,    \* their order in ORDER BY s.slug
  RowLimit,    \* LIMIT of CLOSED_TRADES_SQL
  MinTrades,   \* samples below which a strategy is neutral; 5 in the code
  Discount,    \* kelly_discount, in hundredths
  Floor,       \* kelly_floor_multiplier
  Ceiling,     \* kelly_ceiling_multiplier
  Unit

ASSUME KellyAssumption ==
  /\ SlugRank \in [Slugs -> Nat]
  /\ \A s, t \in Slugs : SlugRank[s] = SlugRank[t] => s = t
  /\ {RowLimit, Discount} \subseteq Nat
  /\ MinTrades \in Nat \ {0, 1} /\ Unit \in Nat \ {0}
  /\ Floor \in 0..100 /\ Ceiling \in Nat /\ Ceiling >= 100

(* Sizes are left alone.                                                   *)
NeutralKelly == 100

Sized(trades)     == {k \in DOMAIN trades : trades[k].size > 0}
RowsOf(trades, s) == {k \in Sized(trades) : trades[k].slug = s}

(* The trades of a slug among the first RowLimit rows, ordered by slug and *)
(* then the latest first: the limit cuts old trades of a late slug.        *)
FetchedOfAll(trades, s) == UNION {RowsOf(trades, t) : t \in Slugs}
Fetched(trades, s) ==
  LET earlier == UNION {RowsOf(trades, t) : t \in {u \in Slugs : SlugRank[u] < SlugRank[s]}}
  IN  {k \in RowsOf(trades, s) :
         Cardinality(earlier) + Cardinality({j \in RowsOf(trades, s) : j >= k}) <= RowLimit}

Return(trade)   == (trade.pnl * Unit) \div trade.size
Returns(trades) == [k \in Sized(trades) |-> Return(trades[k])]
Squares(trades) == [k \in Sized(trades) |-> Return(trades[k]) * Return(trades[k])]

(* compute_allocation: a quarter of mean over variance, clamped.  When all *)
(* returns are equal the variance is zero but for the rounding of their    *)
(* mean: the result is the neutral one or a bound, on the mean's side.     *)
ComputeAllocation(trades, s) ==
  LET n       == Cardinality(Fetched(trades, s))
      sum     == SumFunctionOnSet(Returns(trades), Fetched(trades, s))
      squares == SumFunctionOnSet(Squares(trades), Fetched(trades, s))
      spread  == n * squares - sum * sum   \* n * (n - 1) variances
  IN  IF n < MinTrades \/ (spread = 0 /\ sum = 0) THEN {NeutralKelly}
      ELSE IF spread = 0 THEN {NeutralKelly, IF sum > 0 THEN Ceiling ELSE Floor}
      ELSE {Max({Floor, Min({Ceiling, (Discount * Unit * sum * (n - 1)) \div spread})})}

(* The payload run_once may write: an entry for each slug with a trade.    *)
Allocations(trades) ==
  LET slugs == {s \in Slugs : Fetched(trades, s) # {}}
  IN  {p \in [slugs -> UNION {ComputeAllocation(trades, s) : s \in slugs}] :
         \A s \in slugs : p[s] \in ComputeAllocation(trades, s)}

=============================================================================
