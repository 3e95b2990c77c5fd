---------------------------- MODULE RouterProofs ----------------------------
(***************************************************************************)
(* Proofs about Router for any alphas, strategies, caps and payloads.      *)
(***************************************************************************)
EXTENDS RouterInvariant, SumTheorems

-----------------------------------------------------------------------------
(* Facts about sizing.                                                     *)

(* NonNegative is the larger of its argument and nought.                   *)
LEMMA NonNegativeFacts ==
  ASSUME NEW x \in Int
  PROVE  NonNegative(x) = IF x > 0 THEN x ELSE 0
BY DEF NonNegative, Max

(* A trade moves the value of a position by at most its own.               *)
LEMMA AbsFacts ==
  ASSUME NEW x \in Int, NEW u \in Nat
  PROVE  /\ AbsUsd(x) \in Nat
         /\ AbsUsd(x + u) <= AbsUsd(x) + u /\ AbsUsd(x - u) <= AbsUsd(x) + u
         /\ AbsUsd(0) = 0
BY DEF AbsUsd

(* Confidence and the multiplier are factors between bounds.               *)
LEMMA ConfidenceBounds ==
  ASSUME NEW confidence \in 0..100
  PROVE  Max({25, confidence}) \in 25..100
BY DEF Max

(* The multiplier is clamped to 0.5x to 2x.                                *)
LEMMA MultiplierBounds ==
  ASSUME NEW lp \in Int
  PROVE  Max({50, Min({200, lp})}) \in 50..200
<1>1. Min({200, lp}) = IF lp < 200 THEN lp ELSE 200
  BY DEF Min
<1>2. ASSUME NEW m \in Int, m <= 200
      PROVE  Max({50, m}) \in 50..200
  BY <1>2 DEF Max
<1> QED
  BY <1>1, <1>2

(* The base size of a bucket is an amount.                                 *)
LEMMA BucketUsdType ==
  ASSUME NEW a \in Assets, NEW b \in Buckets
  PROVE  BucketUsd(a, b) \in Nat
BY SizingAssumption DEF BucketUsd, Get

(* The product of three factors, two of them at most k and m.              *)
LEMMA ProductBound ==
  ASSUME NEW p \in Nat, NEW c \in Nat, NEW m \in Nat, NEW q \in Nat,
         p <= q, c <= 100, m <= 200
  PROVE  p * c * m \in Nat /\ (p * c * m) \div 10000 <= 2 * q
<1>1. p * c \in Nat /\ p * c <= p * 100
  OBVIOUS
<1>2. p * c * m \in Nat /\ p * c * m <= (p * c) * 200
  BY <1>1
<1>3. p * c * m <= 20000 * q
  BY <1>1, <1>2
<1> QED
  BY <1>2, <1>3

(* An order before limits is at most twice its bucket's size.              *)
LEMMA ScaledFacts ==
  ASSUME NEW a \in Alphas, NEW lp \in Int
  PROVE  LET usd == BucketUsd(a.asset, BucketOf[a.strategy])
         IN  /\ usd \in Nat
             /\ Scaled(a, usd, lp) \in Nat
             /\ Scaled(a, usd, lp) <= 2 * usd
<1> DEFINE usd == BucketUsd(a.asset, BucketOf[a.strategy])
           p   == Proposed(a, usd)
           c   == Max({25, a.confidence})
           m   == Max({50, Min({200, lp})})
<1>1. a.asset \in Assets /\ BucketOf[a.strategy] \in Buckets /\ a.hint \in Nat
      /\ a.confidence \in 0..100
  BY SizingAssumption DEF Alphas
<1>2. usd \in Nat
  BY <1>1, BucketUsdType
<1>3. c \in 25..100 /\ m \in 50..200
  <2>1. c \in 25..100
    BY <1>1, ConfidenceBounds
  <2>2. m \in 50..200
    BY MultiplierBounds
  <2> QED
    BY <2>1, <2>2
<1> HIDE DEF usd, c, m
<1>4. p \in Nat /\ p <= usd
  BY <1>1, <1>2 DEF Proposed, Min
<1> HIDE DEF p
<1>5. p * c * m \in Nat /\ (p * c * m) \div 10000 <= 2 * usd
  BY <1>2, <1>3, <1>4, ProductBound
<1>6. Scaled(a, usd, lp) = (p * c * m) \div 10000
  BY DEF Scaled, p, c, m
<1> QED
  BY <1>2, <1>5, <1>6 DEF usd

(* Rounding to a cent yields a multiple of a cent, at most half a cent off,*)
(* and rounds up only what is at least half a cent.                        *)
LEMMA RoundFacts ==
  ASSUME NEW x \in Nat, NEW c \in RoundToCent(x)
  PROVE  /\ c \in Nat
         /\ 2 * (c - x) <= Cent /\ 2 * (x - c) <= Cent
         /\ \E k \in Nat : c = Cent * k
<1>1. Cent \in Nat \ {0}
  BY SizingAssumption
<1> DEFINE k == x \div Cent
           r == x % Cent
<1>2. k \in Nat /\ r \in 0..(Cent - 1) /\ x = Cent * k + r
  BY <1>1
<1>3. Cent * k \in Nat /\ Cent * (k + 1) = Cent * k + Cent
  BY <1>1, <1>2
<1>4. c \in {x - r, (x - r) + Cent} /\ 2 * (x - c) <= Cent /\ 2 * (c - x) <= Cent
  BY DEF RoundToCent
<1> HIDE DEF k, r
<1>5. x - r = Cent * k
  BY <1>1, <1>2, <1>3
<1>6. c = Cent * k \/ c = Cent * (k + 1)
  BY <1>3, <1>4, <1>5
<1>7. c \in Nat
  BY <1>1, <1>3, <1>6
<1> QED
  BY <1>2, <1>4, <1>6, <1>7

(* Different multiples of a cent are at least a cent apart.                *)
LEMMA CentsApart ==
  ASSUME NEW j \in Nat, NEW k \in Nat, Cent * j > Cent * k
  PROVE  Cent * j >= Cent * k + Cent
<1>1. Cent \in Nat \ {0}
  BY SizingAssumption
<1>2. j > k
  <2>1. ASSUME j <= k
        PROVE  FALSE
    <3>1. k - j \in Nat /\ Cent * (k - j) \in Nat
      BY <1>1, <2>1
    <3>2. Cent * k = Cent * j + Cent * (k - j)
      BY <1>1, <2>1
    <3> QED
      BY <1>1, <3>1, <3>2
  <2> QED
    BY <2>1
<1>3. j - k - 1 \in Nat /\ Cent * (j - k - 1) \in Nat
  BY <1>1, <1>2
<1>4. Cent * j = Cent * k + Cent + Cent * (j - k - 1)
  BY <1>1, <1>2
<1>5. Cent * k \in Nat
  BY <1>1
<1> QED
  BY <1>1, <1>3, <1>4, <1>5

(* Rounding keeps order: what a smaller amount rounds to is at most what   *)
(* a larger one may round to.                                              *)
LEMMA RoundMonotone ==
  ASSUME NEW x \in Nat, NEW y \in Nat, x <= y, NEW c \in RoundToCent(x)
  PROVE  \E d \in RoundToCent(y) : c <= d
<1>1. Cent \in Nat \ {0}
  BY SizingAssumption
<1>2. c \in Nat /\ 2 * (c - x) <= Cent
  BY RoundFacts
<1>3. PICK j \in Nat : c = Cent * j
  BY RoundFacts
<1>4. PICK d \in RoundToCent(y) : TRUE
  <2> DEFINE r == y % Cent
             low == y - r
  <2>1. r \in 0..(Cent - 1)
    BY <1>1
  <2> HIDE DEF r
  <2>2. 2 * r <= Cent \/ 2 * (Cent - r) <= Cent
    BY <1>1, <2>1
  <2>3. CASE 2 * r <= Cent
    <3>1. 2 * (y - low) <= Cent /\ 2 * (low - y) <= Cent
      BY <1>1, <2>1, <2>3
    <3> QED
      BY <3>1 DEF RoundToCent, r
  <2>4. CASE 2 * (Cent - r) <= Cent
    <3>1. 2 * (y - (low + Cent)) <= Cent /\ 2 * ((low + Cent) - y) <= Cent
      BY <1>1, <2>1, <2>4
    <3> QED
      BY <3>1 DEF RoundToCent, r
  <2> QED
    BY <2>2, <2>3, <2>4
<1>5. d \in Nat /\ 2 * (y - d) <= Cent
  BY RoundFacts
<1>6. PICK k \in Nat : d = Cent * k
  BY <1>4, RoundFacts
<1>7. CASE c <= d
  BY <1>7
<1>8. CASE c > d
  <2>1. c >= d + Cent
    BY <1>3, <1>6, <1>8, CentsApart
  <2>2. x = y
    BY <1>1, <1>2, <1>5, <2>1
  <2> QED
    BY <1>2, <2>2
<1> QED
  BY <1>2, <1>5, <1>7, <1>8

(* A limit is a natural number; there are finitely many.                   *)
LEMMA LimitsType ==
  ASSUME NEW slug \in Strategies \cup {NoSlug}, NEW exposure \in Nat
  PROVE  /\ Limits(slug, exposure) \subseteq Nat
         /\ BudgetCap(slug) \in Nat
         /\ BudgetCap(slug) # NoCap =>
              NonNegative(BudgetCap(slug) - exposure) \in Limits(slug, exposure)
<1>1. BudgetCap(slug) \in Nat /\ OrderCap(slug) \in Nat
  BY SizingAssumption DEF BudgetCap, OrderCap, Get, NoCap
<1>2. NonNegative(BudgetCap(slug) - exposure) \in Nat
  BY <1>1, NonNegativeFacts
<1> QED
  BY <1>1, <1>2 DEF Limits

(* What sizing computes: an amount rounded from at most the scaled size    *)
(* and at most what the budget leaves.                                     *)
LEMMA SizeFacts ==
  ASSUME NEW a \in Alphas, NEW lp \in Int, NEW exposure \in Nat,
         NEW usd \in ComputeNotional(a, lp, exposure)
  PROVE  /\ usd \in Nat
         /\ \E x \in Nat :
              /\ usd \in RoundToCent(x)
              /\ x <= Scaled(a, BucketUsd(a.asset, BucketOf[a.strategy]), lp)
              /\ BudgetCap(a.slug) # NoCap => x <= NonNegative(BudgetCap(a.slug) - exposure)
<1> DEFINE scaled == Scaled(a, BucketUsd(a.asset, BucketOf[a.strategy]), lp)
           S == {scaled} \cup Limits(a.slug, exposure)
<1>1. a.slug \in Strategies \cup {NoSlug}
  BY DEF Alphas
<1>2. scaled \in Nat
  BY ScaledFacts
<1> HIDE DEF scaled
<1>3. S \in SUBSET Nat /\ S # {}
  BY <1>1, <1>2, LimitsType
<1>4. Min(S) \in S /\ \A m \in S : Min(S) <= m
  <2> HIDE DEF S
  <2> QED
    BY <1>3, MinNat
<1>5. BudgetCap(a.slug) # NoCap => NonNegative(BudgetCap(a.slug) - exposure) \in S
  BY <1>1, LimitsType
<1>6. scaled \in S
  OBVIOUS
<1>7. usd \in RoundToCent(Min(S))
  BY DEF ComputeNotional, S, scaled
<1> HIDE DEF S
<1>8. usd \in Nat
  BY <1>3, <1>4, <1>7, RoundFacts
<1> QED
  BY <1>3, <1>4, <1>5, <1>6, <1>7, <1>8 DEF scaled

-----------------------------------------------------------------------------
(* Facts about preflight and the multiplier.                               *)

(* An order is accepted only if no check fails.                            *)
LEMMA EvaluateFacts ==
  ASSUME NEW q
  PROVE  /\ Evaluate(q) \in Verdicts
         /\ Evaluate(q) = "accept" =>
              /\ ~q.halted /\ ~q.strategyHalted /\ ~DrawdownBreached(q)
              /\ ~WouldDuplicatePosition(q) /\ ~WouldBreachPositionCap(q)
              /\ ~WouldBreachBucketExposure(q) /\ ~WouldBreachClusterExposure(q)
              /\ ~WouldBreachStrategyBudget(q)
<1> DEFINE failed == {k \in DOMAIN Reasons : Checks(q)[k]}
<1>1. DOMAIN Reasons = 1..10 /\ \A k \in 1..10 : Reasons[k] # "accept"
  BY DEF Reasons
<1>2. Evaluate(q) = IF failed = {} THEN "accept" ELSE Reasons[Min(failed)]
  BY DEF Evaluate
<1>3. failed # {} => Min(failed) \in 1..10
  <2>1. failed \in SUBSET Nat /\ failed \subseteq 1..10
    BY <1>1
  <2> HIDE DEF failed
  <2> QED
    BY <2>1, MinNat
<1>4. failed = {} =>
        /\ ~q.halted /\ ~q.strategyHalted /\ ~DrawdownBreached(q)
        /\ ~WouldDuplicatePosition(q) /\ ~WouldBreachPositionCap(q)
        /\ ~WouldBreachBucketExposure(q) /\ ~WouldBreachClusterExposure(q)
        /\ ~WouldBreachStrategyBudget(q)
  <2>1. failed = {} => \A k \in 1..10 : ~Checks(q)[k]
    BY <1>1
  <2> HIDE DEF failed
  <2>2. (\A k \in 1..10 : ~Checks(q)[k]) =>
          ~Checks(q)[2] /\ ~Checks(q)[3] /\ ~Checks(q)[4] /\ ~Checks(q)[6]
            /\ ~Checks(q)[7] /\ ~Checks(q)[8] /\ ~Checks(q)[9] /\ ~Checks(q)[10]
    OBVIOUS
  <2>3. /\ Checks(q)[2] = q.halted /\ Checks(q)[3] = q.strategyHalted
        /\ Checks(q)[4] = DrawdownBreached(q) /\ Checks(q)[6] = WouldDuplicatePosition(q)
        /\ Checks(q)[7] = WouldBreachPositionCap(q)
        /\ Checks(q)[8] = WouldBreachBucketExposure(q)
        /\ Checks(q)[9] = WouldBreachClusterExposure(q)
        /\ Checks(q)[10] = WouldBreachStrategyBudget(q)
    BY DEF Checks
  <2> QED
    BY <2>1, <2>2, <2>3
<1> HIDE DEF failed
<1>5. failed # {} => Evaluate(q) \in Verdicts /\ Evaluate(q) # "accept"
  BY <1>1, <1>2, <1>3 DEF Verdicts
<1> QED
  BY <1>2, <1>4, <1>5 DEF Verdicts

(* Whatever the payload, parsing it returns a number.                      *)
LEMMA MultiplierType ==
  ASSUME NEW p \in Payloads
  PROVE  ParseMultiplier(p) \in Int
<1>1. p.value \in Int
  BY DEF Payloads
<1>2. Max({50, Min({200, p.value})}) \in Int
  <2> DEFINE v == p.value
  <2>1. v \in Int
    BY <1>1
  <2> HIDE DEF v
  <2>2. Max({50, Min({200, v})}) \in 50..200
    BY <2>1, MultiplierBounds
  <2> QED
    BY <2>2 DEF v
<1> QED
  BY <1>2 DEF ParseMultiplier, Clamp, Neutral

(* The payloads a handler may hold, and what their multiplier may be.      *)
LEMMA PayloadFacts ==
  ASSUME NEW a \in Assets, NEW p \in PayloadsFor(a)
  PROVE  p \in Payloads /\ ParseMultiplier(p) \in Int
<1>1. NoPayload \in Payloads
  BY DEF NoPayload, Payloads, Neutral
<1>2. p \in Payloads
  BY <1>1, RouterAssumption DEF PayloadsFor, Get
<1> QED
  BY <1>2, MultiplierType

-----------------------------------------------------------------------------
(* Types.                                                                  *)

(* A read of the right type keeps the record of reads well typed.          *)
LEMMA ReadFields ==
  ASSUME NEW r \in Reads
  PROVE  /\ \A v \in BOOLEAN : /\ [r EXCEPT !["halted"] = v] \in Reads
                               /\ [r EXCEPT !["strategyHalted"] = v] \in Reads
         /\ \A v \in [Periods -> Nat] : [r EXCEPT !["drawdown"] = v] \in Reads
         /\ \A v \in Int : [r EXCEPT !["held"] = v] \in Reads
         /\ \A v \in Nat : /\ [r EXCEPT !["bucketUsd"] = v] \in Reads
                           /\ [r EXCEPT !["clusterUsd"] = v] \in Reads
                           /\ [r EXCEPT !["pendingTotal"] = v] \in Reads
         /\ \A v \in Nat, p \in Payloads :
              [r EXCEPT !.exposure = v, !.lp = p] \in Reads
BY DEF Reads

(* So is the record a handler starts with.                                 *)
LEMMA NoReadsType == NoReads \in Reads
BY DEF NoReads, Reads, NoPayload, Payloads, Neutral

(* Reading one field leaves the reads of other handlers alone.             *)
LEMMA ReadType ==
  ASSUME reads \in [Entries -> Reads], NEW e \in Entries, NEW r \in Reads,
         reads' = [reads EXCEPT ![e] = r]
  PROVE  reads' \in [Entries -> Reads]
OBVIOUS

(* Read, as an update of the handler's own record.                         *)
LEMMA ReadEffect ==
  ASSUME reads \in [Entries -> Reads], NEW e \in Entries, NEW field, NEW v,
         Read(e, field, v)
  PROVE  reads' = [reads EXCEPT ![e] = [reads[e] EXCEPT ![field] = v]]
BY DEF Read

(* Sums over positions and over orders are natural numbers that grow with  *)
(* the rows.                                                               *)
LEMMA PositionsFinite ==
  ASSUME NEW S \in SUBSET (Strategies \X Assets)
  PROVE  IsFiniteSet(S)
<1>1. IsFiniteSet(Strategies \X Assets)
  BY RouterAssumption, FS_Product
<1> QED
  BY <1>1, FS_Subset

(* Sets of entries are finite.                                             *)
LEMMA EntriesFinite ==
  ASSUME NEW E \in SUBSET Entries
  PROVE  IsFiniteSet(E)
BY RouterAssumption, FS_Subset

(* Position values are natural numbers.                                    *)
LEMMA PosUsdType ==
  ASSUME TypeOK
  PROVE  PosUsd \in [Strategies \X Assets -> Nat]
BY DEF TypeOK, PosUsd, AbsUsd

(* So are the exposures, which grow with the positions they cover.         *)
LEMMA OpenUsdFacts ==
  ASSUME TypeOK, NEW S \in SUBSET (Strategies \X Assets)
  PROVE  /\ OpenUsd(S) \in Nat
         /\ \A T \in SUBSET S : OpenUsd(T) <= OpenUsd(S)
<1>1. IsFiniteSet(S) /\ \A p \in S : PosUsd[p] \in Nat
  BY PositionsFinite, PosUsdType
<1>2. OpenUsd(S) \in Nat
  BY <1>1, SumNat DEF OpenUsd
<1>3. \A T \in SUBSET S : OpenUsd(T) <= OpenUsd(S)
  BY <1>1, SumMonotone DEF OpenUsd
<1> QED
  BY <1>2, <1>3

(* The three exposures are sums over existing positions.                   *)
LEMMA PositionSets ==
  /\ \A s \in Strategies : OfStrategy(s) \in SUBSET (Strategies \X Assets)
  /\ \A b : OfBucket(b) \in SUBSET (Strategies \X Assets)
  /\ \A c : OfFilter(c) \in SUBSET (Strategies \X Assets)
BY DEF OfStrategy, OfBucket, OfFilter, FilterAssets

(* A sum of orders, and what one order adds to it.                         *)
LEMMA OrdersUsdFacts ==
  ASSUME order \in [Entries -> Nat], NEW E \in SUBSET Entries
  PROVE  /\ OrdersUsd(E) \in Nat
         /\ \A F \in SUBSET E : OrdersUsd(F) <= OrdersUsd(E)
         /\ \A e \in E : order[e] <= OrdersUsd(E)
         /\ \A e \in Entries \ E : OrdersUsd(E \cup {e}) = OrdersUsd(E) + order[e]
         /\ \A e \in E : OrdersUsd(E) = OrdersUsd(E \ {e}) + order[e]
<1>1. \A F \in SUBSET Entries : IsFiniteSet(F) /\ \A e \in F : order[e] \in Nat
  BY EntriesFinite
<1>2. ASSUME NEW F \in SUBSET Entries
      PROVE  OrdersUsd(F) \in Nat
  BY <1>1, SumNat DEF OrdersUsd
<1>3. \A F \in SUBSET E : OrdersUsd(F) <= OrdersUsd(E)
  BY <1>1, SumMonotone DEF OrdersUsd
<1>4. ASSUME NEW F \in SUBSET Entries, NEW e \in F
      PROVE  OrdersUsd(F) = OrdersUsd(F \ {e}) + order[e]
  <2>1. IsFiniteSet(F) /\ \A x \in F : order[x] \in Int
    BY <1>1
  <2>2. SumFunctionOnSet(order, F) = order[e] + SumFunctionOnSet(order, F \ {e})
    BY <2>1, SumRemove
  <2>3. OrdersUsd(F \ {e}) \in Nat /\ order[e] \in Nat
    BY <1>2
  <2> QED
    BY <2>2, <2>3 DEF OrdersUsd
<1>5. ASSUME NEW e \in Entries \ E
      PROVE  OrdersUsd(E \cup {e}) = OrdersUsd(E) + order[e]
  <2> DEFINE F == E \cup {e}
  <2>1. F \in SUBSET Entries /\ e \in F /\ F \ {e} = E
    OBVIOUS
  <2> HIDE DEF F
  <2>2. OrdersUsd(F) = OrdersUsd(E) + order[e]
    BY <1>4, <2>1
  <2> QED
    BY <2>2 DEF F
<1>6. \A e \in E : order[e] <= OrdersUsd(E)
  <2> TAKE e \in E
  <2>1. OrdersUsd(E) = OrdersUsd(E \ {e}) + order[e]
    BY <1>4
  <2>2. OrdersUsd(E \ {e}) \in Nat /\ order[e] \in Nat
    BY <1>2
  <2> QED
    BY <2>1, <2>2
<1> QED
  BY <1>2, <1>3, <1>4, <1>5, <1>6

(* What an alpha carries; its slug, if any, is its strategy.               *)
LEMMA AlphaFacts ==
  ASSUME NEW e \in Entries
  PROVE  /\ AlphaOf[e] \in Alphas
         /\ Strategy(e) \in Strategies /\ Asset(e) \in Assets
         /\ Slug(e) \in Strategies \cup {NoSlug}
         /\ Slug(e) # NoSlug => Slug(e) = Strategy(e)
         /\ Direction(e) \in {"long", "short", "flat", "watch"}
         /\ PositionOf(e) \in Strategies \X Assets
BY RouterAssumption DEF Alphas, Strategy, Asset, Slug, Direction, PositionOf

(* The initial state is well typed.                                        *)
LEMMA TypeInit == Init => TypeOK
BY NoReadsType, PreflightAssumption
   DEF Init, TypeOK, Verdicts

(* What sizing reads and computes has the types of its fields.             *)
LEMMA SizeOrderEffect ==
  ASSUME TypeOK, NEW e \in Entries, SizeOrder(e)
  PROVE  \E p \in Payloads, exposure \in Nat, usd \in Nat :
           /\ exposure = IF Slug(e) = NoSlug THEN 0 ELSE OpenUsd(OfStrategy(Slug(e)))
           /\ usd \in ComputeNotional(AlphaOf[e], ParseMultiplier(p), exposure)
           /\ reads' = [reads EXCEPT ![e] = [reads[e] EXCEPT !.exposure = exposure, !.lp = p]]
           /\ order' = [order EXCEPT ![e] = usd]
           /\ ParseMultiplier(p) \in Int
<1> DEFINE exposure == IF Slug(e) = NoSlug THEN 0 ELSE OpenUsd(OfStrategy(Slug(e)))
<1>1. exposure \in Nat
  BY AlphaFacts, PositionSets, OpenUsdFacts
<1>2. PICK p \in PayloadsFor(Asset(e)) :
        /\ reads' = [reads EXCEPT ![e].exposure = exposure, ![e].lp = p]
        /\ \E usd \in ComputeNotional(AlphaOf[e], ParseMultiplier(p), exposure) :
             order' = [order EXCEPT ![e] = usd]
  BY DEF SizeOrder
<1>3. p \in Payloads /\ ParseMultiplier(p) \in Int
  BY AlphaFacts, PayloadFacts
<1> HIDE DEF exposure
<1>4. PICK usd \in ComputeNotional(AlphaOf[e], ParseMultiplier(p), exposure) :
        order' = [order EXCEPT ![e] = usd]
  BY <1>2
<1>5. usd \in Nat
  BY <1>1, <1>3, <1>4, AlphaFacts, SizeFacts
<1>6. reads' = [reads EXCEPT ![e] = [reads[e] EXCEPT !.exposure = exposure, !.lp = p]]
  BY <1>2 DEF TypeOK
<1> QED
  BY <1>1, <1>3, <1>4, <1>5, <1>6 DEF exposure

(* A reservation that is released is still in the counter.                 *)
LEMMA ReleaseCovered ==
  ASSUME TypeOK, ReservationsCovered, NEW e \in Entries, Slug(e) # NoSlug,
         pc[e] = "release", order[e] > 0
  PROVE  order[e] <= pending[Slug(e)]
<1>1. Slug(e) \in Strategies
  BY AlphaFacts
<1>2. e \in InFlight(Slug(e)) /\ InFlight(Slug(e)) \in SUBSET Entries
  BY DEF InFlight, ReservedOf, AcceptedOf, QueuedOf, SizedOrders
<1>3. order[e] <= OrdersUsd(InFlight(Slug(e))) /\ OrdersUsd(InFlight(Slug(e))) \in Nat
  BY <1>2, OrdersUsdFacts DEF TypeOK
<1>4. OrdersUsd(InFlight(Slug(e))) <= pending[Slug(e)]
  BY <1>1 DEF ReservationsCovered
<1> QED
  BY <1>1, <1>3, <1>4 DEF TypeOK

(* Every step keeps types: the one that could fail is giving back a        *)
(* reservation, which would leave a negative counter.                      *)
LEMMA TypeStep == CoreInv /\ [Next]_vars => TypeOK'
<1> SUFFICES ASSUME CoreInv, [Next]_vars PROVE TypeOK'
  OBVIOUS
<1> USE DEF CoreInv
<1>a. TypeOK
  OBVIOUS
<1>b. reads \in [Entries -> Reads]
  BY DEF TypeOK
<1>c. ASSUME NEW e \in Entries, NEW field, NEW v, Read(e, field, v),
             [reads[e] EXCEPT ![field] = v] \in Reads
      PROVE  reads' \in [Entries -> Reads]
  BY <1>b, <1>c, ReadEffect, ReadType
<1>d. ASSUME NEW e \in Entries, reads' = [reads EXCEPT ![e] = NoReads]
      PROVE  reads' \in [Entries -> Reads]
  BY <1>b, <1>d, NoReadsType, ReadType
<1>1. ASSUME NEW e \in Entries, Skip(e) \/ RaiseOnPayload(e) PROVE TypeOK'
  BY <1>1, <1>d DEF Skip, RaiseOnPayload, Return, Goto, TypeOK, rows, env
<1>2. ASSUME NEW e \in Entries, CheckSystemHalt(e) PROVE TypeOK'
  <2> DEFINE v == "system" \in halts
  <2>0. [reads[e] EXCEPT !["halted"] = v] \in Reads
    <3>1. v \in BOOLEAN
      OBVIOUS
    <3> HIDE DEF v
    <3> QED
      BY <1>b, <3>1, ReadFields
  <2>1. reads' \in [Entries -> Reads]
    BY <1>2, <1>c, <2>0 DEF CheckSystemHalt
  <2>2. StopsFor(e) \subseteq {"system"} \cup Strategies \cup Periods
    BY DEF StopsFor, Stops, Breached, TypeOK
  <2> QED
    BY <1>2, <2>1, <2>2 DEF CheckSystemHalt, Goto, TypeOK, Awaits, rows
<1>3. ASSUME NEW e \in Entries, CheckStrategyHalt(e) PROVE TypeOK'
  <2> DEFINE v == Slug(e) \in halts
  <2>0. [reads[e] EXCEPT !["strategyHalted"] = v] \in Reads
    <3>1. v \in BOOLEAN
      OBVIOUS
    <3> HIDE DEF v
    <3> QED
      BY <1>b, <3>1, ReadFields
  <2>1. reads' \in [Entries -> Reads]
    BY <1>3, <1>c, <2>0 DEF CheckStrategyHalt
  <2> QED
    BY <1>3, <2>1 DEF CheckStrategyHalt, Goto, TypeOK, Awaits, rows, env
<1>4. ASSUME NEW e \in Entries, ReadSnapshots(e) PROVE TypeOK'
  <2>1. drawdown \in [Periods -> Nat]
    BY DEF TypeOK
  <2>2. reads' \in [Entries -> Reads]
    BY <1>4, <1>b, <1>c, <2>1, ReadFields DEF ReadSnapshots
  <2> QED
    BY <1>4, <2>2 DEF ReadSnapshots, Goto, TypeOK, Awaits, rows, env
<1>5. ASSUME NEW e \in Entries, SizeOrder(e) PROVE TypeOK'
  <2>1. PICK p \in Payloads, exposure \in Nat, usd \in Nat :
          /\ exposure = IF Slug(e) = NoSlug THEN 0 ELSE OpenUsd(OfStrategy(Slug(e)))
          /\ usd \in ComputeNotional(AlphaOf[e], ParseMultiplier(p), exposure)
          /\ reads' = [reads EXCEPT ![e] = [reads[e] EXCEPT !.exposure = exposure, !.lp = p]]
          /\ order' = [order EXCEPT ![e] = usd]
          /\ ParseMultiplier(p) \in Int
    BY <1>5, <1>a, SizeOrderEffect
  <2>2. reads' \in [Entries -> Reads]
    BY <1>b, <2>1, ReadFields, ReadType
  <2> QED
    BY <1>5, <2>1, <2>2 DEF SizeOrder, Goto, TypeOK, Awaits, rows, env
<1>6. ASSUME NEW e \in Entries, ReadPosition(e) PROVE TypeOK'
  <2>1. ExistingOpenPosition(e) \in Int
    BY AlphaFacts DEF ExistingOpenPosition, TypeOK
  <2>2. reads' \in [Entries -> Reads]
    BY <1>6, <1>b, <1>c, <2>1, ReadFields DEF ReadPosition
  <2> QED
    BY <1>6, <2>2 DEF ReadPosition, Goto, TypeOK, Awaits, rows, env
<1>7. ASSUME NEW e \in Entries, ReadBucketExposure(e) PROVE TypeOK'
  <2>1. OpenUsd(OfBucket(BucketOf[Strategy(e)])) \in Nat
    BY PositionSets, OpenUsdFacts
  <2>2. reads' \in [Entries -> Reads]
    BY <1>7, <1>b, <1>c, <2>1, ReadFields DEF ReadBucketExposure
  <2> QED
    BY <1>7, <2>2 DEF ReadBucketExposure, Goto, TypeOK, Awaits, rows, env
<1>8. ASSUME NEW e \in Entries, ReadClusterExposure(e) PROVE TypeOK'
  <2>1. OpenUsd(OfFilter(ClusterOf(Asset(e)))) \in Nat
    BY PositionSets, OpenUsdFacts
  <2>2. reads' \in [Entries -> Reads]
    BY <1>8, <1>b, <1>c, <2>1, ReadFields DEF ReadClusterExposure
  <2> QED
    BY <1>8, <2>2 DEF ReadClusterExposure, Goto, TypeOK, Awaits, rows, env
<1>9. ASSUME NEW e \in Entries, Reserve(e) PROVE TypeOK'
  <2>1. Slug(e) \in Strategies
    BY <1>9, AlphaFacts DEF Reserve, HandlersConsistent, HandlerConsistent, VerdictKnown
  <2>2. pending[Slug(e)] + order[e] \in Nat
    BY <2>1 DEF TypeOK
  <2>3. reads' \in [Entries -> Reads]
    BY <1>9, <1>b, <1>c, <2>2, ReadFields DEF Reserve
  <2>4. pending' \in [Strategies -> Nat]
    BY <1>9, <2>1, <2>2 DEF Reserve, TypeOK
  <2> QED
    BY <1>9, <2>3, <2>4 DEF Reserve, Goto, TypeOK, Awaits, rows, env
<1>10. ASSUME NEW e \in Entries, Decide(e) PROVE TypeOK'
  <2>1. PICK v : /\ v \in Verdicts /\ verdict' = [verdict EXCEPT ![e] = v]
                 /\ \/ Return(e)
                    \/ Goto(e, "release") /\ UNCHANGED reads
                    \/ Goto(e, "insert") /\ UNCHANGED reads
    BY <1>10, EvaluateFacts DEF Decide
  <2>2. reads' \in [Entries -> Reads]
    BY <1>b, <1>d, <2>1 DEF Return
  <2>3. pc' \in [Entries -> Awaits \cup {"new", "done"}]
    BY <2>1 DEF Return, Goto, TypeOK, Awaits
  <2>4. verdict' \in [Entries -> Verdicts \cup {"none"}]
    BY <2>1 DEF TypeOK
  <2>5. UNCHANGED <<order, intent, pending, env>>
    BY <1>10 DEF Decide
  <2> QED
    BY <2>2, <2>3, <2>4, <2>5 DEF TypeOK, env
<1>11. ASSUME NEW e \in Entries, Release(e) PROVE TypeOK'
  <2>1. /\ Slug(e) \in Strategies
        /\ order[e] <= pending[Slug(e)]
    BY <1>11, AlphaFacts, ReleaseCovered DEF Release, HandlersConsistent, HandlerConsistent, VerdictKnown
  <2>2. pending[Slug(e)] - order[e] \in Nat
    BY <2>1 DEF TypeOK
  <2> QED
    BY <1>11, <2>1, <2>2 DEF Release, Goto, TypeOK, Awaits, rows, env
<1>12. ASSUME NEW e \in Entries, Insert(e) PROVE TypeOK'
  BY <1>12, <1>d DEF Insert, Return, Goto, TypeOK, rows, env
<1>13. ASSUME NEW e \in Entries, Settle(e) \/ Refuse(e) PROVE TypeOK'
  BY <1>13, AlphaFacts DEF Settle, Refuse, TypeOK, rows, env, PositionOf
<1>14. ASSUME NEW p \in Strategies \X Assets, Exit(p) \/ Mark(p) PROVE TypeOK'
  <2>1. CASE Exit(p)
    BY <2>1 DEF Exit, TypeOK, rows
  <2>2. CASE Mark(p)
    <3>1. PICK d \in {MarkStep, -MarkStep} : pos' = [pos EXCEPT ![p] = @ + d]
      BY <2>2 DEF Mark
    <3>2. d \in Int
      BY RouterAssumption
    <3>3. pos' \in [Strategies \X Assets -> Int]
      BY <3>1, <3>2 DEF TypeOK
    <3> QED
      BY <2>2, <3>3 DEF Mark, TypeOK, rows
  <2> QED
    BY <1>14, <2>1, <2>2
<1>15. ASSUME NEW s \in Strategies, Forget(s) PROVE TypeOK'
  BY <1>15 DEF Forget, TypeOK, rows, env
<1>16. ASSUME NEW h \in {"system"} \cup Strategies, SwitchHalt(h) PROVE TypeOK'
  BY <1>16 DEF SwitchHalt, TypeOK, rows
<1>17. ASSUME NEW p \in Periods, Snapshot(p) PROVE TypeOK'
  <2>1. DrawdownCap[p] \in Nat /\ drawdown[p] \in Nat /\ drawdown[p] <= DrawdownCap[p]
    BY PreflightAssumption DEF TypeOK
  <2> QED
    BY <1>17, <2>1 DEF Snapshot, TypeOK, rows
<1>18. CASE UNCHANGED vars
  BY <1>18 DEF vars, TypeOK
<1> QED
  BY <1>1, <1>2, <1>3, <1>4, <1>5, <1>6, <1>7, <1>8, <1>9, <1>10, <1>11, <1>12, <1>13,
     <1>14, <1>15, <1>16, <1>17, <1>18 DEF Next, Environment, Handler

-----------------------------------------------------------------------------
(* What a handler holds.                                                   *)

Fields == {"halted", "strategyHalted", "drawdown", "exposure", "held", "bucketUsd",
           "clusterUsd", "pendingTotal", "lp"}

(* Reading a field changes that field of that handler only.                *)
LEMMA ReadValues ==
  ASSUME reads \in [Entries -> Reads], NEW e \in Entries, NEW field \in Fields, NEW v,
         Read(e, field, v)
  PROVE  /\ \A f \in Entries \ {e} : reads'[f] = reads[f]
         /\ reads'[e][field] = v
         /\ \A g \in Fields \ {field} : reads'[e][g] = reads[e][g]
<1>1. reads' = [reads EXCEPT ![e] = [reads[e] EXCEPT ![field] = v]]
  BY ReadEffect
<1>2. reads[e] \in Reads
  OBVIOUS
<1>3. DOMAIN reads[e] = Fields
  BY <1>2 DEF Reads, Fields
<1>4. reads'[e] = [reads[e] EXCEPT ![field] = v]
  BY <1>1
<1> QED
  BY <1>1, <1>3, <1>4

Unmoved(e) ==
  /\ pc'[e] = pc[e] /\ reads'[e] = reads[e] /\ order'[e] = order[e]
  /\ verdict'[e] = verdict[e] /\ intent'[e] = intent[e]

(* Preflight is given the same while reads and order stand.                *)
LEMMA RequestKept ==
  ASSUME NEW e \in Entries, reads'[e] = reads[e], order'[e] = order[e]
  PROVE  Request(e)' = Request(e)
BY DEF Request

(* A handler that is not moved stays consistent.                           *)
LEMMA HandlerKept ==
  ASSUME NEW e \in Entries, Unmoved(e), HandlerConsistent(e)
  PROVE  HandlerConsistent(e)'
<1>1. SizeKnown(e)'
  BY DEF Unmoved, HandlerConsistent, SizeKnown
<1>2. VerdictKnown(e)'
  BY RequestKept DEF Unmoved, HandlerConsistent, VerdictKnown
<1> QED
  BY <1>1, <1>2 DEF Unmoved, HandlerConsistent

(* Reading anything but what sizes an order leaves the size known.         *)
LEMMA SizeKept ==
  ASSUME TypeOK, NEW e \in Entries, NEW field \in Fields \ {"exposure", "lp"}, NEW v,
         Read(e, field, v), order'[e] = order[e], SizeKnown(e),
         pc[e] \in SizedAwaits \cup {"new", "strategy_halt", "snapshots", "size"},
         pc'[e] \in {"strategy_halt", "snapshots", "size"}
           => pc[e] \in {"new", "strategy_halt", "snapshots"},
         pc'[e] \in SizedAwaits => pc[e] \in SizedAwaits \/ IsFlat(e),
         pc'[e] # "new"
  PROVE  SizeKnown(e)'
<1>1. reads'[e].exposure = reads[e].exposure /\ reads'[e].lp = reads[e].lp
  BY ReadValues DEF Fields, TypeOK
<1> QED
  BY <1>1 DEF SizeKnown, SizedAwaits

(* Every step leaves each handler consistent.                              *)
LEMMA ConsistentStep ==
  TypeOK /\ HandlersConsistent /\ [Next]_vars => HandlersConsistent'
<1> SUFFICES ASSUME TypeOK, HandlersConsistent, [Next]_vars PROVE HandlersConsistent'
  OBVIOUS
<1>a. ASSUME NEW e \in Entries, \A f \in Entries \ {e} : Unmoved(f), HandlerConsistent(e)'
      PROVE  HandlersConsistent'
  BY <1>a, HandlerKept DEF HandlersConsistent
<1>b. ASSUME \A f \in Entries : Unmoved(f)
      PROVE  HandlersConsistent'
  BY <1>b, HandlerKept DEF HandlersConsistent
<1>c. \A e \in Entries : HandlerConsistent(e) /\ SizeKnown(e) /\ VerdictKnown(e)
  BY DEF HandlersConsistent, HandlerConsistent
<1>1. ASSUME NEW e \in Entries, Skip(e) \/ RaiseOnPayload(e) PROVE HandlersConsistent'
  <2>1. \A f \in Entries \ {e} : Unmoved(f)
    BY <1>1 DEF Skip, RaiseOnPayload, Return, Goto, TypeOK, rows, env, Unmoved
  <2>2. pc'[e] = "done" /\ order'[e] = order[e]
    BY <1>1 DEF Skip, RaiseOnPayload, Return, Goto, TypeOK
  <2>3. HandlerConsistent(e)'
    BY <1>c, <2>2 DEF HandlerConsistent, SizeKnown, VerdictKnown, SizedAwaits
  <2> QED
    BY <2>1, <2>3, <1>a
<1>2. ASSUME NEW e \in Entries, NEW field \in {"halted", "strategyHalted", "drawdown",
                                               "held", "bucketUsd", "clusterUsd"},
             NEW v, Read(e, field, v),
             NEW next \in {"strategy_halt", "snapshots", "size", "position", "bucket",
                           "cluster", "reserve", "evaluate"}, Goto(e, next),
             UNCHANGED <<order, rows>>,
             <<pc[e], next>> \in
               {<<"new", "strategy_halt">>, <<"strategy_halt", "snapshots">>,
                <<"snapshots", "size">>, <<"snapshots", "position">>,
                <<"position", "bucket">>, <<"bucket", "cluster">>,
                <<"cluster", "reserve">>, <<"cluster", "evaluate">>},
             next = "position" => IsFlat(e), next = "size" => ~IsFlat(e),
             next = "reserve" => Slug(e) # NoSlug /\ order[e] > 0
      PROVE  HandlersConsistent'
  <2>1. \A f \in Entries \ {e} : reads'[f] = reads[f]
    BY <1>2, ReadValues DEF Fields, TypeOK
  <2>2. pc'[e] = next /\ \A f \in Entries \ {e} : pc'[f] = pc[f]
    BY <1>2 DEF Goto, TypeOK
  <2>3. \A f \in Entries \ {e} : Unmoved(f)
    BY <1>2, <2>1, <2>2 DEF Unmoved, rows
  <2>4. SizeKnown(e)'
    BY <1>2, <1>c, <2>2, SizeKept DEF Fields, SizedAwaits
  <2>5. VerdictKnown(e)'
    BY <1>2, <1>c, <2>2 DEF VerdictKnown, rows
  <2> QED
    BY <1>2, <2>2, <2>3, <2>4, <2>5, <1>a DEF HandlerConsistent
<1>3. ASSUME NEW e \in Entries,
             CheckSystemHalt(e) \/ CheckStrategyHalt(e) \/ ReadSnapshots(e)
      PROVE  HandlersConsistent'
  BY <1>2, <1>3 DEF CheckSystemHalt, CheckStrategyHalt, ReadSnapshots, env
<1>4. ASSUME NEW e \in Entries,
             ReadPosition(e) \/ ReadBucketExposure(e) \/ ReadClusterExposure(e)
      PROVE  HandlersConsistent'
  BY <1>2, <1>4 DEF ReadPosition, ReadBucketExposure, ReadClusterExposure, env
<1>5. ASSUME NEW e \in Entries, SizeOrder(e) PROVE HandlersConsistent'
  <2>1. PICK p \in Payloads, exposure \in Nat, usd \in Nat :
          /\ exposure = IF Slug(e) = NoSlug THEN 0 ELSE OpenUsd(OfStrategy(Slug(e)))
          /\ usd \in ComputeNotional(AlphaOf[e], ParseMultiplier(p), exposure)
          /\ reads' = [reads EXCEPT ![e] = [reads[e] EXCEPT !.exposure = exposure, !.lp = p]]
          /\ order' = [order EXCEPT ![e] = usd]
          /\ ParseMultiplier(p) \in Int
    BY <1>5, SizeOrderEffect
  <2>2. \A f \in Entries \ {e} : Unmoved(f)
    BY <1>5, <2>1 DEF SizeOrder, Goto, TypeOK, Unmoved, rows, env
  <2>3. pc'[e] = "position" /\ order'[e] = usd /\ ~IsFlat(e)
    BY <1>5, <1>c, <2>1 DEF SizeOrder, Goto, TypeOK, HandlerConsistent
  <2>4. reads'[e].exposure = exposure /\ reads'[e].lp = p
    BY <2>1 DEF TypeOK, Reads
  <2>5. SizeKnown(e)'
    BY <2>1, <2>3, <2>4 DEF SizeKnown, SizedAwaits
  <2>6. VerdictKnown(e)'
    BY <1>5, <1>c, <2>3 DEF SizeOrder, VerdictKnown, rows
  <2> QED
    BY <2>2, <2>3, <2>5, <2>6, <1>a DEF HandlerConsistent
<1>6. ASSUME NEW e \in Entries, Reserve(e) PROVE HandlersConsistent'
  <2>1. \A f \in Entries \ {e} : reads'[f] = reads[f]
    BY <1>6, ReadValues DEF Fields, TypeOK, Reserve
  <2>2. pc'[e] = "evaluate" /\ \A f \in Entries \ {e} : pc'[f] = pc[f]
    BY <1>6 DEF Goto, TypeOK, Reserve
  <2>3. \A f \in Entries \ {e} : Unmoved(f)
    BY <1>6, <2>1, <2>2 DEF Unmoved, rows, Reserve
  <2>4. SizeKnown(e)'
    BY <1>6, <1>c, <2>2, SizeKept DEF Fields, SizedAwaits, Reserve
  <2>5. VerdictKnown(e)'
    BY <1>6, <1>c, <2>2 DEF VerdictKnown, rows, Reserve
  <2> QED
    BY <2>2, <2>3, <2>4, <2>5, <1>a DEF HandlerConsistent
<1>7. ASSUME NEW e \in Entries, Decide(e) PROVE HandlersConsistent'
  <2> DEFINE v == Evaluate(Request(e))
  <2>1. /\ verdict' = [verdict EXCEPT ![e] = v]
        /\ \/ Return(e)
           \/ /\ v # "accept" /\ Slug(e) # NoSlug /\ order[e] > 0
              /\ Goto(e, "release") /\ UNCHANGED reads
           \/ /\ v = "accept" => IsFlat(e) \/ order[e] # 0
              /\ Goto(e, "insert") /\ UNCHANGED reads
    BY <1>7 DEF Decide
  <2>2. pc[e] = "evaluate" /\ intent' = intent /\ order' = order /\ verdict'[e] = v
    BY <1>7, <2>1 DEF Decide, TypeOK
  <2>3. \A f \in Entries \ {e} : Unmoved(f)
    BY <2>1, <2>2 DEF Return, Goto, TypeOK, Unmoved
  <2>4. intent[e] = "none" /\ order[e] \in Nat
    BY <1>c, <2>2 DEF VerdictKnown, TypeOK
  <2> HIDE DEF v
  <2>5. \/ pc'[e] = "done"
        \/ pc'[e] = "release" /\ v # "accept" /\ Slug(e) # NoSlug /\ order[e] > 0
             /\ reads'[e] = reads[e]
        \/ pc'[e] = "insert" /\ (v = "accept" => IsFlat(e) \/ order[e] # 0)
             /\ reads'[e] = reads[e]
    BY <2>1 DEF Return, Goto, TypeOK
  <2>6. SizeKnown(e)'
    BY <1>c, <2>2, <2>5 DEF SizeKnown, SizedAwaits
  <2>7. pc'[e] # "done" => Request(e)' = Request(e)
    BY <2>2, <2>5, RequestKept
  <2>8. VerdictKnown(e)'
    BY <2>2, <2>4, <2>5, <2>7 DEF VerdictKnown, v
  <2> QED
    BY <2>3, <2>5, <2>6, <2>8, <1>a DEF HandlerConsistent
<1>8. ASSUME NEW e \in Entries, Release(e) PROVE HandlersConsistent'
  <2>1. \A f \in Entries \ {e} : Unmoved(f)
    BY <1>8 DEF Release, Goto, TypeOK, Unmoved, rows, env
  <2>2. pc[e] = "release" /\ pc'[e] = "insert" /\ reads'[e] = reads[e]
        /\ UNCHANGED <<order, verdict, intent>>
    BY <1>8 DEF Release, Goto, TypeOK, rows, env
  <2>3. Request(e)' = Request(e)
    BY <2>2, RequestKept
  <2>4. SizeKnown(e)'
    BY <1>c, <2>2 DEF SizeKnown, SizedAwaits
  <2>5. VerdictKnown(e)'
    BY <1>c, <2>2, <2>3 DEF VerdictKnown
  <2> QED
    BY <2>1, <2>2, <2>4, <2>5, <1>a DEF HandlerConsistent
<1>9. ASSUME NEW e \in Entries, Insert(e) PROVE HandlersConsistent'
  <2>1. \A f \in Entries \ {e} : Unmoved(f)
    BY <1>9 DEF Insert, Return, Goto, TypeOK, Unmoved, rows, env
  <2>2. pc[e] = "insert" /\ pc'[e] = "done" /\ order'[e] = order[e]
    BY <1>9 DEF Insert, Return, Goto, TypeOK, env
  <2>3. HandlerConsistent(e)'
    BY <1>c, <2>2 DEF HandlerConsistent, SizeKnown, VerdictKnown, SizedAwaits
  <2> QED
    BY <2>1, <2>3, <1>a
<1>10. ASSUME NEW e \in Entries, Settle(e) \/ Refuse(e) PROVE HandlersConsistent'
  <2>1. \A f \in Entries \ {e} : Unmoved(f)
    BY <1>10 DEF Settle, Refuse, TypeOK, Unmoved, rows, env
  <2>2. pc[e] = "done" /\ pc'[e] = "done" /\ order'[e] = order[e]
    BY <1>10, <1>c DEF Settle, Refuse, VerdictKnown, env
  <2>3. HandlerConsistent(e)'
    BY <1>c, <2>2 DEF HandlerConsistent, SizeKnown, VerdictKnown, SizedAwaits
  <2> QED
    BY <2>1, <2>3, <1>a
<1>11. CASE UNCHANGED <<pc, reads, order, rows>>
  BY <1>11, <1>b DEF Unmoved, rows
<1>12. CASE \/ \E p \in Strategies \X Assets : Exit(p) \/ Mark(p)
            \/ \E s \in Strategies : Forget(s)
            \/ \E h \in {"system"} \cup Strategies : SwitchHalt(h)
            \/ \E p \in Periods : Snapshot(p)
            \/ UNCHANGED vars
  BY <1>11, <1>12 DEF Exit, Mark, Forget, SwitchHalt, Snapshot, vars, rows
<1> QED
  BY <1>1, <1>3, <1>4, <1>5, <1>6, <1>7, <1>8, <1>9, <1>10, <1>12
     DEF Next, Environment, Handler

-----------------------------------------------------------------------------
(* What a step changes.                                                    *)

(* A step moves an entry only if it is a step of that entry.               *)
LEMMA StepOf ==
  ASSUME TypeOK, [Next]_vars, NEW e \in Entries
  PROVE  Unmoved(e) \/ Handler(e) \/ Settle(e) \/ Refuse(e)
<1>1. ASSUME NEW f \in Entries, f # e, Read(f, "halted", "system" \in halts)
             \/ Read(f, "strategyHalted", Slug(f) \in halts) \/ Read(f, "drawdown", drawdown)
             \/ Read(f, "held", ExistingOpenPosition(f))
             \/ Read(f, "bucketUsd", OpenUsd(OfBucket(BucketOf[Strategy(f)])))
             \/ Read(f, "clusterUsd", OpenUsd(OfFilter(ClusterOf(Asset(f)))))
             \/ Read(f, "pendingTotal", pending[Slug(f)] + order[f])
      PROVE  reads'[e] = reads[e]
  BY <1>1, ReadEffect DEF TypeOK
<1>2. ASSUME NEW f \in Entries, f # e, NEW step, Goto(f, step)
      PROVE  pc'[e] = pc[e]
  BY <1>2 DEF Goto, TypeOK
<1>3. ASSUME NEW f \in Entries, f # e, Return(f)
      PROVE  pc'[e] = pc[e] /\ reads'[e] = reads[e]
  BY <1>2, <1>3 DEF Return, TypeOK
<1>4. ASSUME NEW f \in Entries, f # e, Handler(f)
      PROVE  Unmoved(e)
  <2>1. CASE Skip(f) \/ RaiseOnPayload(f) 
    BY <1>3, <1>4, <2>1 DEF Skip, RaiseOnPayload, Unmoved, rows
  <2>2. CASE \/ CheckSystemHalt(f) \/ CheckStrategyHalt(f) \/ ReadSnapshots(f) 
             \/ ReadPosition(f) \/ ReadBucketExposure(f)
             \/ ReadClusterExposure(f) \/ Reserve(f)
    BY <1>1, <1>2, <1>4, <2>2 DEF CheckSystemHalt, CheckStrategyHalt, ReadSnapshots, 
       ReadPosition, ReadBucketExposure, ReadClusterExposure, Reserve, Unmoved, rows
  <2>3. CASE SizeOrder(f)
    BY <1>2, <1>4, <2>3 DEF SizeOrder, Unmoved, rows, TypeOK
  <2>4. CASE Decide(f) 
    <3>1. PICK v : verdict' = [verdict EXCEPT ![f] = v]
      BY <2>4 DEF Decide
    <3>2. Return(f) \/ (\E step : Goto(f, step) /\ UNCHANGED reads)
      BY <2>4 DEF Decide
    <3>3. pc'[e] = pc[e] /\ reads'[e] = reads[e]
      BY <1>2, <1>3, <1>4, <3>2
    <3> QED
      BY <1>4, <2>4, <3>1, <3>3 DEF Decide, Unmoved, TypeOK
  <2>5. CASE Release(f) \/ Insert(f)
    BY <1>2, <1>3, <1>4, <2>5 DEF Release, Insert, Unmoved, rows, TypeOK
  <2> QED
    BY <1>4, <2>1, <2>2, <2>3, <2>4, <2>5 DEF Handler
<1>5. ASSUME NEW f \in Entries, f # e, Settle(f) \/ Refuse(f)
      PROVE  Unmoved(e)
  BY <1>5 DEF Settle, Refuse, Unmoved, TypeOK
<1>6. CASE \/ \E p \in Strategies \X Assets : Exit(p) \/ Mark(p)
           \/ \E s \in Strategies : Forget(s)
           \/ \E h \in {"system"} \cup Strategies : SwitchHalt(h)
           \/ \E p \in Periods : Snapshot(p)
           \/ UNCHANGED vars
  BY <1>6 DEF Exit, Mark, Forget, SwitchHalt, Snapshot, vars, rows, Unmoved
<1> QED
  BY <1>4, <1>5, <1>6 DEF Next, Environment

(* Fewer orders, each unchanged, sum to no more.                           *)
LEMMA OrdersShrink ==
  ASSUME order \in [Entries -> Nat], NEW E \in SUBSET Entries, NEW F \in SUBSET E,
         \A e \in F : order'[e] = order[e]
  PROVE  SumFunctionOnSet(order', F) <= OrdersUsd(E)
<1>1. IsFiniteSet(F)
  BY EntriesFinite
<1>2. SumFunctionOnSet(order', F) = SumFunctionOnSet(order, F)
  BY <1>1, SumAgree
<1>3. OrdersUsd(F) <= OrdersUsd(E)
  BY OrdersUsdFacts
<1> QED
  BY <1>2, <1>3 DEF OrdersUsd

(* The orders in flight, as one set.                                       *)
LEMMA InFlightMember ==
  ASSUME NEW s
  PROVE  /\ InFlight(s) =
              {e \in Entries :
                 /\ Slug(e) = s /\ order[e] > 0
                 /\ \/ pc[e] \in {"evaluate", "release"}
                    \/ pc[e] = "insert" /\ verdict[e] = "accept"
                    \/ intent[e] = "queued"}
         /\ InFlight(s)' =
              {e \in Entries :
                 /\ Slug(e) = s /\ order'[e] > 0
                 /\ \/ pc'[e] \in {"evaluate", "release"}
                    \/ pc'[e] = "insert" /\ verdict'[e] = "accept"
                    \/ intent'[e] = "queued"}
BY DEF InFlight, ReservedOf, AcceptedOf, QueuedOf, SizedOrders, Slug

(* The queued and passing orders, as one set.                              *)
LEMMA LiveMember ==
  ASSUME NEW s
  PROVE  /\ QueuedOf(s) \cup Passing(s) =
              {e \in Entries :
                 /\ Slug(e) = s /\ order[e] > 0
                 /\ \/ pc[e] = "evaluate" /\ ~WouldBreachStrategyBudget(Request(e))
                    \/ pc[e] = "insert" /\ verdict[e] = "accept"
                    \/ intent[e] = "queued"}
         /\ (QueuedOf(s) \cup Passing(s))' =
              {e \in Entries :
                 /\ Slug(e) = s /\ order'[e] > 0
                 /\ \/ pc'[e] = "evaluate" /\ ~WouldBreachStrategyBudget(Request(e)')
                    \/ pc'[e] = "insert" /\ verdict'[e] = "accept"
                    \/ intent'[e] = "queued"}
BY DEF Passing, ReservedOf, AcceptedOf, QueuedOf, SizedOrders, Slug

-----------------------------------------------------------------------------
(* Only a reservation puts an order in flight; the orders that will be     *)
(* queued if the budget allows are among them.                             *)
LEMMA LiveInFlight ==
  ASSUME NEW s
  PROVE  /\ QueuedOf(s) \cup Passing(s) \subseteq InFlight(s)
         /\ InFlight(s) \in SUBSET Entries
BY DEF InFlight, Passing, ReservedOf, AcceptedOf, QueuedOf, SizedOrders

(* But for Reserve, the step of a handler, or of its order, takes the      *)
(* order out of flight or leaves it as live as it was.                     *)
LEMMA OwnStep ==
  ASSUME TypeOK, NEW e \in Entries, HandlerConsistent(e), Slug(e) # NoSlug,
         Handler(e) \/ Settle(e) \/ Refuse(e), ~Reserve(e)
  PROVE  \/ /\ pc'[e] \notin {"evaluate", "release", "insert"} \/ order'[e] = 0
            /\ intent'[e] # "queued"
         \/ /\ pc[e] = "evaluate" /\ verdict'[e] = Evaluate(Request(e)) 
            /\ order'[e] = order[e] /\ intent'[e] = intent[e]
            /\ pc'[e] \in {"insert", "release"}
            /\ pc'[e] = "release" => verdict'[e] # "accept"
         \/ /\ pc[e] = "release" /\ verdict[e] # "accept" /\ verdict'[e] = verdict[e]
            /\ order'[e] = order[e] /\ intent'[e] = intent[e]
            /\ pc'[e] = "insert"
         \/ /\ pc[e] = "insert" /\ verdict[e] = "accept" /\ pc'[e] = "done"
            /\ order'[e] = order[e]
<1>1. VerdictKnown(e) /\ SizeKnown(e)
  BY DEF HandlerConsistent
<1>2. CASE \/ Skip(e) \/ CheckSystemHalt(e) \/ CheckStrategyHalt(e) \/ ReadSnapshots(e)
           \/ SizeOrder(e) \/ RaiseOnPayload(e) \/ ReadPosition(e) \/ ReadBucketExposure(e)
           \/ ReadClusterExposure(e)
  <2>1. pc[e] # "done" /\ intent' = intent
    BY <1>2 DEF Skip, CheckSystemHalt, CheckStrategyHalt, ReadSnapshots, SizeOrder, 
         RaiseOnPayload, ReadPosition, ReadBucketExposure, ReadClusterExposure, rows
  <2>2. pc'[e] \notin {"evaluate", "release", "insert"} \/ order'[e] = 0
    BY <1>2 DEF Skip, CheckSystemHalt, CheckStrategyHalt, ReadSnapshots, SizeOrder, 
         RaiseOnPayload, ReadPosition, ReadBucketExposure, ReadClusterExposure, Goto, Return, TypeOK
  <2> QED
    BY <1>1, <2>1, <2>2 DEF VerdictKnown
<1>3. CASE Decide(e)
  <2> DEFINE v == Evaluate(Request(e))
  <2>1. /\ verdict' = [verdict EXCEPT ![e] = v]
        /\ \/ Return(e)
           \/ v # "accept" /\ Goto(e, "release")
           \/ Goto(e, "insert")
    BY <1>3 DEF Decide
  <2> HIDE DEF v
  <2>2. pc[e] = "evaluate" /\ intent' = intent /\ order' = order /\ verdict'[e] = v
    BY <1>3, <2>1 DEF Decide, TypeOK
  <2>3. pc'[e] \in {"done", "insert"} \/ (v # "accept" /\ pc'[e] = "release")
    BY <2>1 DEF Return, Goto, TypeOK
  <2> QED
    BY <1>1, <2>2, <2>3 DEF VerdictKnown, v
<1>4. CASE Release(e)
  BY <1>1, <1>4 DEF Release, Goto, TypeOK, VerdictKnown, rows
<1>5. CASE Insert(e)
  BY <1>1, <1>5 DEF Insert, Goto, Return, TypeOK, VerdictKnown, rows
<1>6. CASE Settle(e) \/ Refuse(e)
  BY <1>1, <1>6 DEF Settle, Refuse, TypeOK, VerdictKnown, rows
<1> QED
  BY <1>2, <1>3, <1>4, <1>5, <1>6 DEF Handler

(* But for Reserve, no step brings an order into flight.                   *)
LEMMA InFlightShrinks ==
  ASSUME TypeOK, HandlersConsistent, [Next]_vars, NEW s \in Strategies,
         \A e \in Entries : Slug(e) = s => ~Reserve(e)
  PROVE  /\ InFlight(s)' \subseteq InFlight(s)
         /\ (QueuedOf(s) \cup Passing(s))' \subseteq QueuedOf(s) \cup Passing(s)
         /\ \A e \in InFlight(s)' : order'[e] = order[e]
<1> SUFFICES ASSUME NEW e \in Entries, Slug(e) = s, order'[e] > 0
             PROVE  /\ e \in InFlight(s)' => e \in InFlight(s) /\ order'[e] = order[e]
                    /\ e \in (QueuedOf(s) \cup Passing(s))' => e \in QueuedOf(s) \cup Passing(s)
  BY InFlightMember, LiveMember
<1>1. HandlerConsistent(e) /\ Slug(e) # NoSlug
  BY SizingAssumption DEF HandlersConsistent
<1>2. CASE Unmoved(e)
  <2>1. Request(e)' = Request(e)
    BY <1>2, RequestKept DEF Unmoved
  <2> QED
    BY <1>2, <2>1, InFlightMember, LiveMember DEF Unmoved
<1>3. CASE Handler(e) \/ Settle(e) \/ Refuse(e)
  <2>1. Evaluate(Request(e)) = "accept" => ~WouldBreachStrategyBudget(Request(e))
    BY EvaluateFacts
  <2> QED
    BY <1>1, <1>3, <2>1, OwnStep, InFlightMember, LiveMember
<1> QED
  BY <1>2, <1>3, StepOf

(* The counter of a slug changes only with a reservation, a release, or    *)
(* when it is forgotten.                                                   *)
LEMMA PendingStep ==
  ASSUME TypeOK, HandlersConsistent, [Next]_vars, NEW s \in Strategies
  PROVE  \/ pending'[s] = pending[s]
         \/ Forget(s)
         \/ \E e \in Entries : Slug(e) = s /\ (Reserve(e) \/ Release(e))
<1>1. ASSUME NEW e \in Entries, Reserve(e) \/ Release(e)
      PROVE  Slug(e) = s \/ pending'[s] = pending[s]
  BY <1>1 DEF Reserve, Release, TypeOK
<1>2. ASSUME NEW e \in Entries, Handler(e), ~Reserve(e), ~Release(e)
      PROVE  pending' = pending
  BY <1>2 DEF Handler, Skip, CheckSystemHalt, CheckStrategyHalt, ReadSnapshots, SizeOrder,
       RaiseOnPayload, ReadPosition, ReadBucketExposure, ReadClusterExposure, Decide, Insert
<1>3. ASSUME NEW t \in Strategies, Forget(t)
      PROVE  t = s \/ pending'[s] = pending[s]
  BY <1>3 DEF Forget, TypeOK
<1>4. CASE \/ \E e \in Entries : Settle(e) \/ Refuse(e)
           \/ \E p \in Strategies \X Assets : Exit(p) \/ Mark(p)
           \/ \E h \in {"system"} \cup Strategies : SwitchHalt(h)
           \/ \E p \in Periods : Snapshot(p)
           \/ UNCHANGED vars
  BY <1>4 DEF Settle, Refuse, Exit, Mark, SwitchHalt, Snapshot, vars
<1> QED
  BY <1>1, <1>2, <1>3, <1>4 DEF Next, Environment

(* Reserve brings one order into flight.                                   *)
LEMMA ReserveJoins ==
  ASSUME TypeOK, HandlersConsistent, [Next]_vars, NEW e \in Entries, Reserve(e)
  PROVE  /\ Slug(e) \in Strategies /\ order[e] > 0 /\ order' = order
         /\ pending' = [pending EXCEPT ![Slug(e)] = @ + order[e]]
         /\ e \notin InFlight(Slug(e))
         /\ InFlight(Slug(e))' \subseteq InFlight(Slug(e)) \cup {e}
         /\ (QueuedOf(Slug(e)) \cup Passing(Slug(e)))' 
              \subseteq QueuedOf(Slug(e)) \cup Passing(Slug(e)) \cup {e}
<1>1. VerdictKnown(e) /\ pc[e] = "reserve" /\ order' = order
      /\ pending' = [pending EXCEPT ![Slug(e)] = @ + order[e]]
  BY DEF HandlersConsistent, HandlerConsistent, Reserve
<1>2. Slug(e) \in Strategies /\ order[e] > 0 /\ intent[e] # "queued"
  BY <1>1, AlphaFacts DEF VerdictKnown
<1>3. e \notin InFlight(Slug(e))
  BY <1>1, <1>2, InFlightMember
<1>4. ASSUME NEW f \in Entries \ {e}
      PROVE  Unmoved(f) /\ Request(f)' = Request(f)
  <2>1. reads'[f] = reads[f] /\ pc'[f] = pc[f]
    BY ReadValues DEF Reserve, Goto, TypeOK, Fields
  <2> QED
    BY <2>1, <1>1, RequestKept DEF Reserve, Unmoved, rows
<1>5. \A f \in Entries \ {e} : f \in InFlight(Slug(e))' => f \in InFlight(Slug(e))
  BY <1>4, InFlightMember DEF Unmoved
<1>6. \A f \in Entries \ {e} : f \in (QueuedOf(Slug(e)) \cup Passing(Slug(e)))' 
        => f \in QueuedOf(Slug(e)) \cup Passing(Slug(e))
  BY <1>4, LiveMember DEF Unmoved
<1> QED
  BY <1>1, <1>2, <1>3, <1>5, <1>6, InFlightMember, LiveMember

(* Release takes one order out of flight.                                  *)
LEMMA ReleaseLeaves ==
  ASSUME TypeOK, HandlersConsistent, [Next]_vars, NEW e \in Entries, Release(e)
  PROVE  /\ Slug(e) \in Strategies /\ order' = order
         /\ pending' = [pending EXCEPT ![Slug(e)] = @ - order[e]]
         /\ e \in InFlight(Slug(e))
         /\ InFlight(Slug(e))' \subseteq InFlight(Slug(e)) \ {e}
<1>1. VerdictKnown(e) /\ pc[e] = "release" /\ order' = order /\ rows' = rows
      /\ pending' = [pending EXCEPT ![Slug(e)] = @ - order[e]]
      /\ pc'[e] = "insert"
  BY DEF HandlersConsistent, HandlerConsistent, Release, Goto, TypeOK
<1>2. /\ Slug(e) \in Strategies /\ order[e] > 0 /\ intent[e] # "queued"
      /\ verdict[e] # "accept" /\ ~Reserve(e)
  BY <1>1, AlphaFacts DEF VerdictKnown, Reserve
<1>3. e \in InFlight(Slug(e)) /\ e \notin InFlight(Slug(e))'
  BY <1>1, <1>2, InFlightMember DEF rows
<1>4. \A f \in Entries : ~Reserve(f)
  <2> SUFFICES ASSUME NEW f \in Entries, Reserve(f) PROVE FALSE
    OBVIOUS
  <2>1. pc'[f] = "evaluate" /\ pc[f] = "reserve"
    BY DEF Reserve, Goto, TypeOK
  <2>2. f # e /\ pc'[f] = pc[f]
    BY <1>1, <2>1 DEF Release, Goto, TypeOK
  <2> QED
    BY <2>1, <2>2
<1>5. InFlight(Slug(e))' \subseteq InFlight(Slug(e))
  BY <1>2, <1>4, InFlightShrinks
<1> QED
  BY <1>1, <1>2, <1>3, <1>5

(* A counter expires under no order in flight.                             *)
LEMMA ForgetEmpty ==
  ASSUME TypeOK, HandlersConsistent, NEW s \in Strategies, Forget(s)
  PROVE  /\ InFlight(s) = {} 
         /\ pending' = [pending EXCEPT ![s] = 0]
         /\ pc' = pc /\ reads' = reads /\ order' = order
BY InFlightMember DEF Forget

(* An order that joins a set adds itself to the sum, one that leaves it    *)
(* takes itself away.                                                      *)
LEMMA OrdersJoin ==
  ASSUME order \in [Entries -> Nat], order' = order, NEW E \in SUBSET Entries,
         NEW e \in Entries, NEW F \in SUBSET (E \cup {e})
  PROVE  SumFunctionOnSet(order', F) <= OrdersUsd(E) + order[e]
<1> DEFINE G == E \cup {e}
<1>1. G \in SUBSET Entries /\ F \in SUBSET G
  OBVIOUS
<1>2. OrdersUsd(G) <= OrdersUsd(E) + order[e]
  <2>1. CASE e \in E
    <3>1. G = E
      BY <2>1
    <3> HIDE DEF G
    <3>2. OrdersUsd(E) \in Nat /\ order[e] \in Nat
      BY OrdersUsdFacts
    <3> QED
      BY <3>1, <3>2
  <2>2. CASE e \notin E
    <3>1. OrdersUsd(G) = OrdersUsd(E) + order[e]
      BY <2>2, OrdersUsdFacts
    <3>2. OrdersUsd(E) \in Nat /\ order[e] \in Nat
      BY OrdersUsdFacts
    <3> HIDE DEF G
    <3> QED
      BY <3>1, <3>2
  <2> QED
    BY <2>1, <2>2
<1> HIDE DEF G
<1>3. SumFunctionOnSet(order', F) <= OrdersUsd(G)
  BY <1>1, OrdersShrink
<1>4. OrdersUsd(G) \in Nat /\ OrdersUsd(E) \in Nat /\ order[e] \in Nat
  BY <1>1, OrdersUsdFacts
<1>5. SumFunctionOnSet(order', F) \in Nat
  <2>1. IsFiniteSet(F) /\ \A x \in F : order'[x] \in Nat
    BY <1>1, EntriesFinite
  <2> QED
    BY <2>1, SumNat
<1> QED
  BY <1>2, <1>3, <1>4, <1>5

(* A set of orders that loses one is smaller by its size.                  *)
LEMMA OrdersLeave ==
  ASSUME order \in [Entries -> Nat], order' = order, NEW E \in SUBSET Entries,
         NEW e \in E, NEW F \in SUBSET (E \ {e})
  PROVE  SumFunctionOnSet(order', F) <= OrdersUsd(E) - order[e]
<1> DEFINE G == E \ {e}
<1>1. G \in SUBSET Entries /\ F \in SUBSET G
  OBVIOUS
<1>2. OrdersUsd(E) = OrdersUsd(G) + order[e]
  BY OrdersUsdFacts
<1> HIDE DEF G
<1>3. SumFunctionOnSet(order', F) <= OrdersUsd(G)
  BY <1>1, OrdersShrink
<1>4. OrdersUsd(G) \in Nat /\ order[e] \in Nat
  BY <1>1, OrdersUsdFacts
<1>5. SumFunctionOnSet(order', F) \in Nat
  <2>1. IsFiniteSet(F) /\ \A x \in F : order'[x] \in Nat
    BY <1>1, EntriesFinite
  <2> QED
    BY <2>1, SumNat
<1> QED
  BY <1>2, <1>3, <1>4, <1>5

(* What a step does to the orders in flight, it does to the counter, or    *)
(* less.                                                                   *)
LEMMA FlightStep ==
  ASSUME TypeOK, TypeOK', HandlersConsistent, [Next]_vars, NEW s \in Strategies
  PROVE  \/ /\ OrdersUsd(InFlight(s))' <= OrdersUsd(InFlight(s))
            /\ pending'[s] = pending[s]
            /\ \A e \in Entries : Slug(e) = s => ~Reserve(e)
         \/ \E e \in Entries :
              /\ Reserve(e) /\ Slug(e) = s
              /\ OrdersUsd(InFlight(s))' <= OrdersUsd(InFlight(s)) + order[e]
              /\ pending'[s] = pending[s] + order[e]
         \/ \E e \in Entries :
              /\ Release(e) /\ Slug(e) = s
              /\ OrdersUsd(InFlight(s))' <= OrdersUsd(InFlight(s)) - order[e]
              /\ pending'[s] = pending[s] - order[e]
         \/ /\ Forget(s)
            /\ OrdersUsd(InFlight(s))' = 0
            /\ pending'[s] = 0
<1> DEFINE F == InFlight(s)
<1>0. F \in SUBSET Entries /\ order \in [Entries -> Nat]
  BY LiveInFlight DEF TypeOK
<1>1. ASSUME NEW e \in Entries, Reserve(e), Slug(e) = s
      PROVE  /\ OrdersUsd(F)' <= OrdersUsd(F) + order[e]
             /\ pending'[s] = pending[s] + order[e]
  <2>1. /\ e \notin F /\ F' \subseteq F \cup {e} /\ order' = order
        /\ pending' = [pending EXCEPT ![s] = @ + order[e]]
    BY <1>1, ReserveJoins
  <2>2. OrdersUsd(F)' = SumFunctionOnSet(order', F')
    BY DEF OrdersUsd
  <2> HIDE DEF F
  <2>3. SumFunctionOnSet(order', F') <= OrdersUsd(F) + order[e]
    BY <1>0, <2>1, OrdersJoin
  <2> QED
    BY <2>1, <2>2, <2>3 DEF TypeOK
<1>2. ASSUME NEW e \in Entries, Release(e), Slug(e) = s
      PROVE  /\ OrdersUsd(F)' <= OrdersUsd(F) - order[e]
             /\ pending'[s] = pending[s] - order[e]
  <2>1. /\ e \in F /\ F' \subseteq F \ {e} /\ order' = order
        /\ pending' = [pending EXCEPT ![s] = @ - order[e]]
    BY <1>2, ReleaseLeaves
  <2>2. OrdersUsd(F)' = SumFunctionOnSet(order', F')
    BY DEF OrdersUsd
  <2> HIDE DEF F
  <2>3. SumFunctionOnSet(order', F') <= OrdersUsd(F) - order[e]
    BY <1>0, <2>1, OrdersLeave
  <2> QED
    BY <2>1, <2>2, <2>3 DEF TypeOK
<1>3. ASSUME Forget(s)
      PROVE  OrdersUsd(F)' = 0 /\ pending'[s] = 0
  <2>1. /\ F = {} /\ pending' = [pending EXCEPT ![s] = 0] /\ pc' = pc
    BY <1>3, ForgetEmpty
  <2>2. \A e \in Entries : ~Reserve(e)
    BY <2>1 DEF Reserve, Goto, TypeOK
  <2>3. F' = {}
    BY <2>1, <2>2, InFlightShrinks
  <2>4. OrdersUsd(F)' = SumFunctionOnSet(order', F')
    BY DEF OrdersUsd
  <2> HIDE DEF F
  <2> QED
    BY <2>1, <2>3, <2>4, SumEmpty DEF TypeOK
<1>4. ASSUME \A e \in Entries : Slug(e) = s => ~Reserve(e)
      PROVE  OrdersUsd(F)' <= OrdersUsd(F)
  <2>1. F' \in SUBSET F /\ \A e \in F' : order'[e] = order[e]
    BY <1>4, InFlightShrinks
  <2>2. OrdersUsd(F)' = SumFunctionOnSet(order', F')
    BY DEF OrdersUsd
  <2> HIDE DEF F
  <2>3. SumFunctionOnSet(order', F') <= OrdersUsd(F)
    BY <1>0, <2>1, OrdersShrink
  <2> QED
    BY <2>2, <2>3
<1> HIDE DEF F
<1>5. \/ \E e \in Entries : Reserve(e) /\ Slug(e) = s
      \/ \E e \in Entries : Release(e) /\ Slug(e) = s
      \/ Forget(s)
      \/ pending'[s] = pending[s] /\ \A e \in Entries : Slug(e) = s => ~Reserve(e)
  BY PendingStep
<1> QED
  BY <1>1, <1>2, <1>3, <1>4, <1>5 DEF F

(* Every step keeps the counter above the orders in flight.                *)
LEMMA CoveredStep == CoreInv /\ TypeOK' /\ [Next]_vars => ReservationsCovered'
<1> SUFFICES ASSUME CoreInv, TypeOK', [Next]_vars, NEW s \in Strategies
             PROVE  OrdersUsd(InFlight(s))' <= pending'[s]
  BY DEF ReservationsCovered
<1>1. /\ OrdersUsd(InFlight(s)) \in Nat /\ OrdersUsd(InFlight(s)) <= pending[s]
      /\ pending[s] \in Nat /\ order \in [Entries -> Nat]
  BY LiveInFlight, OrdersUsdFacts DEF CoreInv, TypeOK, ReservationsCovered
<1>2. OrdersUsd(InFlight(s))' \in Nat
  <2>1. InFlight(s)' \in SUBSET Entries /\ order' \in [Entries -> Nat]
    BY InFlightMember DEF TypeOK
  <2>2. IsFiniteSet(InFlight(s)') /\ \A x \in InFlight(s)' : order'[x] \in Nat
    BY <2>1, EntriesFinite
  <2>3. SumFunctionOnSet(order', InFlight(s)') \in Nat
    BY <2>2, SumNat
  <2> QED
    BY <2>3 DEF OrdersUsd
<1> QED
  BY <1>1, <1>2, FlightStep DEF CoreInv

(* The initial state satisfies the core invariant.                         *)
LEMMA CoreInit == Init => CoreInv
<1> SUFFICES ASSUME Init PROVE CoreInv
  OBVIOUS
<1>1. TypeOK
  BY TypeInit
<1>2. HandlersConsistent
  BY DEF Init, HandlersConsistent, HandlerConsistent, SizeKnown, VerdictKnown, SizedAwaits
<1>3. ASSUME NEW s \in Strategies
      PROVE  OrdersUsd(InFlight(s)) <= pending[s]
  <2>1. InFlight(s) = {} /\ pending[s] = 0
    BY InFlightMember DEF Init
  <2> QED
    BY <2>1, SumEmpty DEF OrdersUsd
<1> QED
  BY <1>1, <1>2, <1>3 DEF CoreInv, ReservationsCovered

(* Every step preserves the core invariant.                                *)
LEMMA CoreStep == CoreInv /\ [Next]_vars => CoreInv'
BY TypeStep, ConsistentStep, CoveredStep DEF CoreInv

(* In every reachable state handlers know what they decided and on what,   *)
(* and the reservation counters cover the orders in flight.                *)
THEOREM Typing == Spec => []CoreInv
BY CoreInit, CoreStep, PTL DEF Spec

(* Every reachable state is well typed; no counter goes negative.          *)
THEOREM TypeCorrect == Spec => []TypeOK
<1>1. CoreInv => TypeOK
  BY DEF CoreInv
<1> QED
  BY <1>1, Typing, PTL

-----------------------------------------------------------------------------
(* Sizing.                                                                 *)

(* An order that still is in a handler and has a size was sized.           *)
LEMMA SizedOrder ==
  ASSUME CoreInv, NEW e \in Entries, InHandler(e), order[e] > 0
  PROVE  /\ order[e] \in ComputeNotional(AlphaOf[e], ParseMultiplier(reads[e].lp),
                                         reads[e].exposure)
         /\ AlphaOf[e] \in Alphas /\ ParseMultiplier(reads[e].lp) \in Int
         /\ reads[e].exposure \in Nat
<1>1. SizeKnown(e)
  BY DEF CoreInv, HandlersConsistent, HandlerConsistent
<1>2. reads[e] \in Reads
  BY DEF CoreInv, TypeOK
<1>3. reads[e].exposure \in Nat /\ reads[e].lp \in Payloads
  BY <1>2 DEF Reads
<1> QED
  BY <1>1, <1>3, AlphaFacts, MultiplierType DEF SizeKnown, InHandler, Awaits, SizedAwaits

(* Sizing never proposes more than half a cent beyond the headroom that    *)
(* the exposure it read leaves in the budget.                              *)
LEMMA HeadroomHolds == CoreInv => SizedWithinHeadroom
<1> SUFFICES ASSUME CoreInv, NEW e \in Entries, InHandler(e), order[e] > 0,
                    BudgetCap(Slug(e)) # NoCap
             PROVE  2 * (reads[e].exposure + order[e] - BudgetCap(Slug(e))) <= Cent
  BY DEF SizedWithinHeadroom
<1> DEFINE exposure == reads[e].exposure
           cap      == BudgetCap(Slug(e))
<1>1. cap \in Nat /\ exposure \in Nat /\ Cent \in Nat \ {0}
  BY AlphaFacts, SizedOrder, LimitsType, SizingAssumption
<1>2. PICK x \in Nat : order[e] \in RoundToCent(x) /\ x <= NonNegative(cap - exposure)
  BY SizedOrder, SizeFacts DEF Slug
<1>3. order[e] \in Nat /\ 2 * (order[e] - x) <= Cent
  BY <1>2, RoundFacts
<1>4. PICK k \in Nat : order[e] = Cent * k
  BY <1>2, RoundFacts
<1> HIDE DEF exposure, cap
<1>5. CASE exposure < cap
  BY <1>1, <1>2, <1>3, <1>5, NonNegativeFacts DEF exposure, cap
<1>6. CASE exposure >= cap
  <2>1. x = 0
    BY <1>1, <1>2, <1>6, NonNegativeFacts
  <2>2. Cent * k > Cent * 0
    BY <1>1, <1>4
  <2>3. order[e] >= Cent
    BY <1>1, <1>4, <2>2, CentsApart
  <2> QED
    BY <1>1, <1>3, <2>1, <2>3
<1> QED
  BY <1>1, <1>5, <1>6

(* A payload without a usable, fresh number leaves an order its size.      *)
LEMMA AmplifiedHolds == CoreInv => AmplifiedOnlyOnData
<1> SUFFICES ASSUME CoreInv, NEW e \in Entries, InHandler(e),
                    \A usd \in RoundToCent(Scaled(AlphaOf[e],
                         BucketUsd(Asset(e), BucketOf[Strategy(e)]), Neutral)) : order[e] > usd
             PROVE  /\ reads[e].lp.json = "object"
                    /\ reads[e].lp.number # "none"
                    /\ reads[e].lp.stamp # "stale"
  BY DEF AmplifiedOnlyOnData, Asset, Strategy
<1> DEFINE plain == Scaled(AlphaOf[e], BucketUsd(Asset(e), BucketOf[Strategy(e)]), Neutral)
           lp    == ParseMultiplier(reads[e].lp)
<1>1. plain \in Nat /\ Cent \in Nat \ {0} /\ order[e] \in Nat
  BY AlphaFacts, ScaledFacts, SizingAssumption DEF Neutral, Asset, Strategy, CoreInv, TypeOK
<1>2. order[e] > 0
  <2>1. 0 \in RoundToCent(0)
    BY <1>1 DEF RoundToCent
  <2> HIDE DEF plain
  <2>2. PICK d \in RoundToCent(plain) : 0 <= d
    BY <1>1, <2>1, RoundMonotone
  <2>3. d \in Nat
    BY <1>1, RoundFacts
  <2> QED
    BY <1>1, <2>2, <2>3 DEF plain
<1>3. ASSUME lp = Neutral
      PROVE  FALSE
  <2>1. PICK x \in Nat : order[e] \in RoundToCent(x) /\ x <= plain
    BY <1>2, <1>3, SizedOrder, SizeFacts DEF Asset, Strategy
  <2> HIDE DEF plain
  <2>2. PICK d \in RoundToCent(plain) : order[e] <= d
    BY <1>1, <2>1, RoundMonotone
  <2>3. d \in Nat /\ order[e] > d
    BY <1>1, RoundFacts DEF plain
  <2> QED
    BY <1>1, <2>2, <2>3
<1> QED
  BY <1>3 DEF ParseMultiplier, Clamp, Neutral

(* An order never exceeds by more than half a cent the headroom of the     *)
(* budget at the exposure it was sized on.                                 *)
THEOREM HeadroomKept == Spec => []SizedWithinHeadroom
BY HeadroomHolds, Typing, PTL

(* No order is amplified without a fresh number from Liquidity Pulse.      *)
THEOREM AmplifiedOnData == Spec => []AmplifiedOnlyOnData
BY AmplifiedHolds, Typing, PTL

-----------------------------------------------------------------------------
(* Stops.                                                                  *)

(* A stop that is no longer set is dropped, so one that is kept still      *)
(* stands, as the halt key or the drawdown it was.                         *)
LEMMA StopStands ==
  ASSUME TypeOK, [Next]_vars, NEW x \in stopped, StopSeen(x[1], x[2]), x \in stopped'
  PROVE  x[2] \in (halts' \cap {"system", Slug(x[1])}) \cup Breached(drawdown')
<1> DEFINE h == x[2]
           keys == {"system", Slug(x[1])}
<1>1. h \in (halts \cap keys) \cup Breached(drawdown)
  BY DEF StopSeen
<1>2. halts \cap Periods = {} /\ \A dd : Breached(dd) \subseteq Periods
  BY RouterAssumption DEF TypeOK, Breached
<1>3. ASSUME NEW k \in {"system"} \cup Strategies, SwitchHalt(k)
      PROVE  h \in halts' \cup Breached(drawdown) /\ drawdown' = drawdown
  BY <1>3 DEF SwitchHalt, Stops
<1>4. ASSUME NEW p \in Periods, Snapshot(p)
      PROVE  h \in halts \cup Breached(drawdown') /\ halts' = halts
  BY <1>4 DEF Snapshot, Stops
<1>5. ASSUME NEW e \in Entries, Handler(e)
      PROVE  halts' = halts /\ drawdown' = drawdown
  BY <1>5 DEF Handler, Skip, CheckSystemHalt, CheckStrategyHalt, ReadSnapshots, SizeOrder,
       RaiseOnPayload, ReadPosition, ReadBucketExposure, ReadClusterExposure, Reserve,
       Decide, Release, Insert, env
<1>6. CASE \/ \E e \in Entries : Settle(e) \/ Refuse(e)
           \/ \E p \in Strategies \X Assets : Exit(p) \/ Mark(p)
           \/ \E s \in Strategies : Forget(s)
           \/ UNCHANGED vars
  <2>1. halts' = halts /\ drawdown' = drawdown
    BY <1>6 DEF Settle, Refuse, Exit, Mark, Forget, vars, env
  <2> QED
    BY <2>1, <1>1
<1> HIDE DEF h, keys
<1>7. h \in (halts' \cap keys) \cup Breached(drawdown')
  BY <1>1, <1>2, <1>3, <1>4, <1>5, <1>6 DEF Next, Environment, h, keys
<1> QED
  BY <1>7 DEF h, keys

(* Preflight rejects on any stop the handler has seen.                     *)
LEMMA StopRejects ==
  ASSUME CoreInv, NEW e \in Entries, NEW h, StopSeen(e, h), pc[e] = "insert"
  PROVE  verdict[e] # "accept"
<1>1. /\ verdict[e] = Evaluate(Request(e))
      /\ h \in ({"system"} \cup Strategies) \cup Periods
      /\ reads[e].drawdown \in [Periods -> Nat]
  <2>1. reads[e] \in Reads
    BY DEF CoreInv, TypeOK
  <2> QED
    BY <2>1 DEF CoreInv, HandlersConsistent, HandlerConsistent, VerdictKnown, StopSeen,
                TypeOK, Breached, Reads
<1>2. \/ reads[e].halted
      \/ reads[e].strategyHalted
      \/ h \in Periods /\ reads[e].drawdown[h] >= DrawdownCap[h]
  BY <1>1 DEF StopSeen, InHandler, Awaits
<1>3. \/ Request(e).halted \/ Request(e).strategyHalted \/ DrawdownBreached(Request(e))
  BY <1>1, <1>2 DEF Request, DrawdownBreached
<1> QED
  BY <1>1, <1>3, EvaluateFacts

(* A stop that still stands is still seen after a step.                    *)
LEMMA StopKept ==
  ASSUME CoreInv, [Next]_vars, NEW e \in Entries, NEW h, StopSeen(e, h),
         h \in (halts' \cap {"system", Slug(e)}) \cup Breached(drawdown')
  PROVE  StopSeen(e, h)'
<1>a. TypeOK /\ VerdictKnown(e)
  BY DEF CoreInv, HandlersConsistent, HandlerConsistent
<1>b. (halts \cap Periods = {}) /\ (Breached(drawdown) \subseteq Periods)
  BY <1>a, RouterAssumption DEF TypeOK, Breached
<1>1. CASE Unmoved(e)
  BY <1>1 DEF StopSeen, Unmoved, InHandler, Slug
<1>2. CASE Settle(e) \/ Refuse(e)
  BY <1>2 DEF StopSeen, Settle, Refuse
<1>3. CASE Skip(e) \/ CheckSystemHalt(e)
  BY <1>3 DEF StopSeen, Skip, CheckSystemHalt
<1>4. CASE CheckStrategyHalt(e)
  <2>1. pc[e] = "strategy_halt" /\ pc'[e] = "snapshots" /\ intent' = intent
    BY <1>a, <1>4 DEF CheckStrategyHalt, Goto, TypeOK, rows
  <2>2. reads'[e].halted = reads[e].halted /\ reads'[e].strategyHalted = (Slug(e) \in halts)
    BY <1>a, <1>4, ReadValues DEF CheckStrategyHalt, TypeOK, Fields
  <2>3. h \in Strategies \ {"system"} => Slug(e) \in halts
    BY <1>b, RouterAssumption DEF StopSeen
  <2>4. h = "system" => reads[e].halted
    BY <2>1 DEF StopSeen, InHandler, Awaits
  <2> QED
    BY <2>1, <2>2, <2>3, <2>4 DEF StopSeen, Slug
<1>5. CASE ReadSnapshots(e)
  <2>1. pc[e] = "snapshots" /\ pc'[e] \in {"position", "size"} /\ intent' = intent
    BY <1>a, <1>5 DEF ReadSnapshots, Goto, TypeOK, rows
  <2>2. /\ reads'[e].halted = reads[e].halted
        /\ reads'[e].strategyHalted = reads[e].strategyHalted
        /\ reads'[e].drawdown = drawdown
    BY <1>a, <1>5, ReadValues DEF ReadSnapshots, TypeOK, Fields
  <2>3. h \in Periods => drawdown[h] >= DrawdownCap[h]
    BY <1>a, RouterAssumption DEF StopSeen, Breached, TypeOK
  <2>4. /\ h = "system" => reads[e].halted
        /\ h \in Strategies \ {"system"} => reads[e].strategyHalted
    BY <2>1 DEF StopSeen, InHandler, Awaits
  <2> QED
    BY <2>1, <2>2, <2>3, <2>4 DEF StopSeen, Slug
<1>6. ASSUME /\ pc[e] \in {"size", "position", "bucket", "cluster", "reserve", "evaluate", "release"}
             /\ pc'[e] \in Awaits \cup {"done"}
             /\ intent' = intent
             /\ pc'[e] # "done" =>
                  /\ reads'[e].halted = reads[e].halted
                  /\ reads'[e].strategyHalted = reads[e].strategyHalted
                  /\ reads'[e].drawdown = reads[e].drawdown
      PROVE  StopSeen(e, h)'
  <2>1. /\ h = "system" => reads[e].halted
        /\ h \in Strategies \ {"system"} => reads[e].strategyHalted
        /\ h \in Periods => reads[e].drawdown[h] >= DrawdownCap[h]
    BY <1>6 DEF StopSeen, InHandler, Awaits
  <2> QED
    BY <1>6, <2>1 DEF StopSeen, InHandler, Awaits, Slug
<1>7. CASE ReadPosition(e) \/ ReadBucketExposure(e) \/ ReadClusterExposure(e) \/ Reserve(e)
  <2>1. /\ pc[e] \in {"position", "bucket", "cluster", "reserve"}
        /\ pc'[e] \in Awaits
        /\ intent' = intent
    BY <1>7, <1>a DEF ReadPosition, ReadBucketExposure, ReadClusterExposure, Reserve, Goto,
         rows, TypeOK, Awaits
  <2>2. /\ reads'[e].halted = reads[e].halted
        /\ reads'[e].strategyHalted = reads[e].strategyHalted
        /\ reads'[e].drawdown = reads[e].drawdown
    BY <1>7, <1>a, ReadValues DEF ReadPosition, ReadBucketExposure, ReadClusterExposure,
         Reserve, TypeOK, Fields
  <2> QED
    BY <1>6, <2>1, <2>2
<1>8. CASE SizeOrder(e)
  <2>1. /\ pc[e] = "size" /\ pc'[e] \in Awaits /\ intent' = intent
    BY <1>8, <1>a DEF SizeOrder, Goto, rows, TypeOK, Awaits
  <2>2. PICK p, exposure :
          reads' = [reads EXCEPT ![e] = [reads[e] EXCEPT !.exposure = exposure, !.lp = p]]
    BY <1>8, <1>a, SizeOrderEffect
  <2>3. /\ reads'[e].halted = reads[e].halted
        /\ reads'[e].strategyHalted = reads[e].strategyHalted
        /\ reads'[e].drawdown = reads[e].drawdown
    BY <1>a, <2>2 DEF TypeOK, Reads
  <2> QED
    BY <1>6, <2>1, <2>3
<1>9. CASE RaiseOnPayload(e) \/ Release(e)
  BY <1>6, <1>9, <1>a DEF RaiseOnPayload, Release, Return, Goto, TypeOK, rows, Awaits
<1>10. CASE Decide(e)
  <2>1. Return(e) \/ (\E step \in {"release", "insert"} : Goto(e, step) /\ UNCHANGED reads)
    BY <1>10 DEF Decide
  <2>2. pc[e] = "evaluate" /\ intent' = intent
    BY <1>10 DEF Decide
  <2>3. pc'[e] = "done" \/ (pc'[e] \in {"release", "insert"} /\ reads' = reads)
    BY <1>a, <2>1 DEF Return, Goto, TypeOK
  <2> QED
    BY <1>6, <2>2, <2>3 DEF Awaits
<1>11. CASE Insert(e)
  <2>1. verdict[e] # "accept"
    BY <1>11, StopRejects DEF Insert
  <2>2. pc'[e] = "done" /\ intent'[e] = "rejected"
    BY <1>a, <1>11, <2>1 DEF Insert, Return, Goto, TypeOK
  <2> QED
    BY <2>2 DEF StopSeen, InHandler, Awaits, Slug
<1> QED
  BY <1>a, <1>1, <1>2, <1>3, <1>4, <1>5, <1>7, <1>8, <1>9, <1>10, <1>11, StepOf DEF Handler

(* Every step preserves the invariant of the stops.                        *)
LEMMA StopsStep == StopsInv /\ [Next]_vars => StopsInv'
<1> SUFFICES ASSUME StopsInv, [Next]_vars, NEW x \in stopped'
             PROVE  StopSeen(x[1], x[2])'
  BY CoreStep DEF StopsInv, StopsSeen
<1>a. CoreInv /\ TypeOK /\ TypeOK'
  BY CoreStep DEF StopsInv, CoreInv
<1> DEFINE e == x[1]
           h == x[2]
<1>b. e \in Entries /\ h \in ({"system"} \cup Strategies) \cup Periods
  BY <1>a DEF TypeOK
<1>1. CASE x \notin stopped
  <2>1. CheckSystemHalt(e) /\ h \in StopsFor(e)
    <3>1. PICK f \in Entries : CheckSystemHalt(f)
      BY <1>1 DEF Next, Environment, Handler, Skip, CheckStrategyHalt, ReadSnapshots,
           SizeOrder, RaiseOnPayload, ReadPosition, ReadBucketExposure, ReadClusterExposure,
           Reserve, Decide, Release, Insert, env, Settle, Refuse, Exit, Mark, Forget,
           SwitchHalt, Snapshot, vars
    <3> QED
      BY <1>1, <3>1 DEF CheckSystemHalt
  <2>2. pc'[e] = "strategy_halt" /\ pc[e] = "new" /\ halts' = halts /\ drawdown' = drawdown
        /\ intent' = intent
    BY <1>a, <1>b, <2>1 DEF CheckSystemHalt, Goto, TypeOK, rows
  <2>3. reads'[e].halted = ("system" \in halts)
    BY <1>a, <1>b, <2>1, ReadValues DEF CheckSystemHalt, TypeOK, Fields
  <2>4. h \in (halts \cap {"system", Slug(e)}) \cup Breached(drawdown)
    BY <2>1 DEF StopsFor, Stops
  <2>5. h = "system" => "system" \in halts
    BY <2>4, RouterAssumption DEF Breached
  <2>6. intent[e] = "none"
    BY <1>a, <1>b, <2>2 DEF CoreInv, HandlersConsistent, HandlerConsistent, VerdictKnown
  <2> HIDE DEF e, h
  <2>7. StopSeen(e, h)'
    BY <2>2, <2>3, <2>4, <2>5, <2>6 DEF StopSeen, Slug
  <2> QED
    BY <2>7 DEF e, h
<1>2. CASE x \in stopped
  <2>1. StopSeen(e, h)
    BY <1>2 DEF StopsInv, StopsSeen
  <2>2. h \in (halts' \cap {"system", Slug(e)}) \cup Breached(drawdown')
    BY <1>2, <1>a, <2>1, StopStands
  <2>3. StopSeen(e, h)'
    BY <1>2, <1>a, <1>b, <2>1, <2>2, StopKept DEF StopsInv, StopsSeen
  <2> QED
    BY <2>3 DEF e, h
<1> QED
  BY <1>1, <1>2

(* Initially no stop is on record.                                         *)
LEMMA StopsInit == Init => StopsInv
BY CoreInit DEF Init, StopsInv, StopsSeen

(* Every stop since before an alpha was taken up, and that still stands,   *)
(* is in what its handler has read by then.                                *)
THEOREM StopsRead == Spec => []StopsSeen
<1>1. StopsInv => StopsSeen
  BY DEF StopsInv, StopsSeen
<1> QED
  BY StopsInit, StopsStep, <1>1, PTL DEF Spec

(* No alpha taken up under a stop that still stands has a live intent.     *)
THEOREM Stopped == Spec => []StopsHonoured
<1>1. StopsSeen => StopsHonoured
  BY DEF StopsSeen, StopSeen, StopsHonoured
<1> QED
  BY StopsRead, <1>1, PTL

-----------------------------------------------------------------------------
(* Open positions.                                                         *)

(* A fill adds at most its order to what is open; nothing else adds while  *)
(* marks stand still.                                                      *)
LEMMA PosStep ==
  ASSUME TypeOK, TypeOK', [Next]_vars, moves' = moves
  PROVE  \/ \A p \in Strategies \X Assets : AbsUsd(pos'[p]) <= AbsUsd(pos[p])
         \/ \E e \in Entries :
              /\ Settle(e) /\ ~IsFlat(e)
              /\ AbsUsd(pos'[PositionOf(e)]) <= AbsUsd(pos[PositionOf(e)]) + order[e]
              /\ \A p \in (Strategies \X Assets) \ {PositionOf(e)} : pos'[p] = pos[p]
<1> DEFINE Less == \A p \in Strategies \X Assets : AbsUsd(pos'[p]) <= AbsUsd(pos[p])
<1>0. \A p \in Strategies \X Assets : pos[p] \in Int /\ AbsUsd(pos[p]) \in Nat
  BY DEF TypeOK, AbsUsd
<1>1. ASSUME pos' = pos PROVE Less
  BY <1>0, <1>1
<1>2. ASSUME NEW e \in Entries, Handler(e) PROVE pos' = pos
  BY <1>2 DEF Handler, Skip, CheckSystemHalt, CheckStrategyHalt, ReadSnapshots, SizeOrder,
       RaiseOnPayload, ReadPosition, ReadBucketExposure, ReadClusterExposure, Reserve,
       Decide, Release, Insert, env
<1>3. ASSUME NEW p \in Strategies \X Assets, pos' = [pos EXCEPT ![p] = 0] PROVE Less
  <2> SUFFICES ASSUME NEW q \in Strategies \X Assets
               PROVE  AbsUsd(pos'[q]) <= AbsUsd(pos[q])
    OBVIOUS
  <2>1. pos'[q] \in {0, pos[q]}
    BY <1>3 DEF TypeOK
  <2>2. AbsUsd(0) = 0
    BY DEF AbsUsd
  <2> QED
    BY <1>0, <2>1, <2>2
<1>4. ASSUME NEW p \in Strategies \X Assets, Exit(p) PROVE Less
  BY <1>3, <1>4 DEF Exit
<1>5. ASSUME NEW p \in Strategies \X Assets, Mark(p) PROVE FALSE
  BY <1>5 DEF Mark, TypeOK
<1>6. ASSUME NEW e \in Entries, Settle(e)
      PROVE  \/ Less
             \/ /\ ~IsFlat(e)
                /\ AbsUsd(pos'[PositionOf(e)]) <= AbsUsd(pos[PositionOf(e)]) + order[e]
                /\ \A p \in (Strategies \X Assets) \ {PositionOf(e)} : pos'[p] = pos[p]
  <2> DEFINE p == PositionOf(e)
  <2>1. p \in Strategies \X Assets /\ order[e] \in Nat /\ pos[p] \in Int
    BY AlphaFacts DEF TypeOK
  <2>2. pos' = [pos EXCEPT ![p] = CASE Direction(e) = "long"  -> pos[p] + order[e]
                                    [] Direction(e) = "short" -> pos[p] - order[e]
                                    [] OTHER -> 0]
    BY <1>6 DEF Settle, PositionOf
  <2> HIDE DEF p
  <2>3. CASE Direction(e) \in {"long", "short"}
    <3>1. pos'[p] \in {pos[p] + order[e], pos[p] - order[e]}
      BY <2>1, <2>2, <2>3 DEF TypeOK
    <3>2. AbsUsd(pos'[p]) <= AbsUsd(pos[p]) + order[e]
      BY <2>1, <3>1, AbsFacts
    <3>3. \A q \in (Strategies \X Assets) \ {p} : pos'[q] = pos[q]
      BY <2>1, <2>2 DEF TypeOK
    <3> QED
      BY <2>3, <3>2, <3>3 DEF IsFlat, p
  <2>4. CASE Direction(e) \notin {"long", "short"}
    <3>1. pos' = [pos EXCEPT ![p] = 0]
      BY <2>2, <2>4
    <3> QED
      BY <1>3, <2>1, <3>1
  <2> QED
    BY <2>3, <2>4
<1>7. CASE \/ \E e \in Entries : Refuse(e)
           \/ \E s \in Strategies : Forget(s)
           \/ \E h \in {"system"} \cup Strategies : SwitchHalt(h)
           \/ \E p \in Periods : Snapshot(p)
           \/ UNCHANGED vars
  <2>1. pos' = pos
    BY <1>7 DEF Refuse, Forget, SwitchHalt, Snapshot, vars, env
  <2> QED
    BY <1>1, <2>1
<1> QED
  BY <1>1, <1>2, <1>4, <1>5, <1>6, <1>7 DEF Next, Environment

(* Marks never move back: if none has moved, none had.                     *)
LEMMA MovesStep ==
  ASSUME TypeOK, [Next]_vars
  PROVE  moves' \in Nat /\ (moves' = 0 => moves = 0 /\ moves' = moves)
<1>1. ASSUME NEW e \in Entries, Handler(e) PROVE moves' = moves
  BY <1>1 DEF Handler, Skip, CheckSystemHalt, CheckStrategyHalt, ReadSnapshots, SizeOrder,
       RaiseOnPayload, ReadPosition, ReadBucketExposure, ReadClusterExposure, Reserve,
       Decide, Release, Insert, env
<1>2. ASSUME NEW p \in Strategies \X Assets, Mark(p) PROVE moves' = moves + 1
  BY <1>2 DEF Mark
<1>3. CASE \/ \E e \in Entries : Settle(e) \/ Refuse(e)
           \/ \E p \in Strategies \X Assets : Exit(p)
           \/ \E s \in Strategies : Forget(s)
           \/ \E h \in {"system"} \cup Strategies : SwitchHalt(h)
           \/ \E p \in Periods : Snapshot(p)
           \/ UNCHANGED vars
  BY <1>3 DEF Settle, Refuse, Exit, Forget, SwitchHalt, Snapshot, vars, env, TypeOK
<1>4. moves \in Nat
  BY DEF TypeOK
<1> QED
  BY <1>1, <1>2, <1>3, <1>4 DEF Next, Environment

(* So a sum of open positions grows only by a fill, by at most its order.  *)
LEMMA OpenStep ==
  ASSUME TypeOK, TypeOK', [Next]_vars, moves' = moves,
         NEW S \in SUBSET (Strategies \X Assets)
  PROVE  \/ OpenUsd(S)' <= OpenUsd(S)
         \/ \E e \in Entries :
              /\ Settle(e) /\ ~IsFlat(e) /\ PositionOf(e) \in S
              /\ OpenUsd(S)' <= OpenUsd(S) + order[e]
<1> DEFINE f == PosUsd
           g == [p \in Strategies \X Assets |-> AbsUsd(pos'[p])]
<1>0. /\ OpenUsd(S) = SumFunctionOnSet(f, S) /\ OpenUsd(S)' = SumFunctionOnSet(g, S)
      /\ IsFiniteSet(S)
  BY PositionsFinite DEF OpenUsd, PosUsd
<1>1. \A p \in Strategies \X Assets :
        /\ f[p] \in Nat /\ f[p] = AbsUsd(pos[p])
        /\ g[p] \in Nat /\ g[p] = AbsUsd(pos'[p])
  BY DEF TypeOK, PosUsd, AbsUsd
<1> HIDE DEF f, g
<1>2. ASSUME \A p \in S : g[p] <= f[p]
      PROVE  OpenUsd(S)' <= OpenUsd(S)
  <2>1. \A p \in S : f[p] \in Int /\ g[p] \in Int /\ g[p] <= f[p]
    BY <1>1, <1>2
  <2>2. SumFunctionOnSet(g, S) <= SumFunctionOnSet(f, S)
    BY <1>0, <2>1, SumLess
  <2> QED
    BY <1>0, <2>2
<1>3. ASSUME NEW e \in Entries, Settle(e), ~IsFlat(e),
             AbsUsd(pos'[PositionOf(e)]) <= AbsUsd(pos[PositionOf(e)]) + order[e],
             \A p \in (Strategies \X Assets) \ {PositionOf(e)} : pos'[p] = pos[p]
      PROVE  \/ OpenUsd(S)' <= OpenUsd(S)
             \/ PositionOf(e) \in S /\ OpenUsd(S)' <= OpenUsd(S) + order[e]
  <2> DEFINE p == PositionOf(e)
  <2>1. \A q \in S \ {p} : f[q] = g[q]
    BY <1>1, <1>3
  <2>2. CASE p \notin S
    BY <1>1, <1>2, <2>1, <2>2
  <2>3. CASE p \in S
    <3>1. f[p] \in Nat /\ g[p] \in Nat /\ g[p] <= f[p] + order[e] /\ order[e] \in Nat
      BY <1>1, <1>3, <2>3 DEF TypeOK
    <3>2. \A q \in S : f[q] \in Int /\ g[q] \in Int
      BY <1>1
    <3> HIDE DEF p
    <3>3. SumFunctionOnSet(g, S) = SumFunctionOnSet(f, S) + (g[p] - f[p])
      BY <1>0, <2>1, <2>3, <3>2, SumChange
    <3>4. SumFunctionOnSet(f, S) \in Int
      BY <1>0, <3>2, SumInt
    <3> QED
      BY <1>0, <2>3, <3>1, <3>3, <3>4 DEF p
  <2> QED
    BY <2>2, <2>3
<1>4. CASE \A p \in Strategies \X Assets : AbsUsd(pos'[p]) <= AbsUsd(pos[p])
  BY <1>1, <1>2, <1>4
<1> QED
  BY <1>3, <1>4, PosStep

-----------------------------------------------------------------------------
(* The budget.                                                             *)

(* A fill takes its order from the orders in flight.                       *)
LEMMA SettleLeaves ==
  ASSUME TypeOK, HandlersConsistent, [Next]_vars, NEW e \in Entries, Settle(e),
         NEW s \in Strategies, Slug(e) = s, order[e] > 0
  PROVE  /\ order' = order
         /\ e \in QueuedOf(s) \cup Passing(s) /\ e \in InFlight(s)
         /\ (QueuedOf(s) \cup Passing(s))' \subseteq (QueuedOf(s) \cup Passing(s)) \ {e}
         /\ InFlight(s)' \subseteq InFlight(s) \ {e}
<1>1. /\ intent[e] = "queued" /\ intent'[e] = "filled" /\ order' = order /\ pc' = pc
      /\ VerdictKnown(e)
  BY DEF Settle, TypeOK, HandlersConsistent, HandlerConsistent
<1>2. pc'[e] = "done"
  BY <1>1 DEF VerdictKnown
<1>3. \A f \in Entries : ~Reserve(f)
  BY <1>1 DEF Reserve, Goto, TypeOK
<1>4. e \in QueuedOf(s) \cup Passing(s) /\ e \notin (QueuedOf(s) \cup Passing(s))'
  BY <1>1, <1>2, LiveMember
<1>5. e \in InFlight(s) /\ e \notin InFlight(s)'
  BY <1>1, <1>2, InFlightMember
<1> QED
  BY <1>1, <1>3, <1>4, <1>5, InFlightShrinks

(* Without a new reservation, what is open and in flight, and what is open *)
(* and may be queued, only gets less.                                      *)
LEMMA OpenAndInFlight ==
  ASSUME CoreInv, TypeOK', Slugged, [Next]_vars, moves' = moves, NEW s \in Strategies,
         \A e \in Entries : Slug(e) = s => ~Reserve(e),
         NEW E \in SUBSET Entries, NEW F \in SUBSET Entries,
         \/ E = InFlight(s) /\ F = InFlight(s)'
         \/ E = QueuedOf(s) \cup Passing(s) /\ F = (QueuedOf(s) \cup Passing(s))'
  PROVE  OpenUsd(OfStrategy(s))' + SumFunctionOnSet(order', F)
           <= OpenUsd(OfStrategy(s)) + OrdersUsd(E)
<1> DEFINE S == OfStrategy(s)
           sum == SumFunctionOnSet(order', F)
<1>0. TypeOK /\ HandlersConsistent
  BY DEF CoreInv
<1>1. S \in SUBSET (Strategies \X Assets)
  BY PositionSets
<1>2. F \subseteq E /\ \A e \in F : order'[e] = order[e]
  BY <1>0, InFlightShrinks, LiveInFlight, InFlightMember, LiveMember
<1>3. order \in [Entries -> Nat] /\ order' \in [Entries -> Nat]
  BY <1>0 DEF TypeOK
<1>4. sum <= OrdersUsd(E)
  BY <1>2, <1>3, OrdersShrink
<1>5. sum \in Nat /\ OrdersUsd(E) \in Nat
  <2>1. IsFiniteSet(F) /\ \A x \in F : order'[x] \in Nat
    BY <1>3, EntriesFinite
  <2> QED
    BY <1>3, <2>1, SumNat, OrdersUsdFacts
<1> HIDE DEF S, sum
<1>6. OpenUsd(S) \in Nat
  BY <1>0, <1>1, OpenUsdFacts
<1>7. OpenUsd(S)' \in Nat
  <2> DEFINE g == [p \in Strategies \X Assets |-> AbsUsd(pos'[p])]
  <2>1. \A p \in S : g[p] \in Nat
    BY <1>1 DEF TypeOK, AbsUsd
  <2>2. OpenUsd(S)' = SumFunctionOnSet(g, S)
    BY DEF OpenUsd, PosUsd, S, OfStrategy
  <2> HIDE DEF g
  <2> QED
    BY <1>1, <2>1, <2>2, PositionsFinite, SumNat
<1>8. CASE OpenUsd(S)' <= OpenUsd(S)
  BY <1>4, <1>5, <1>6, <1>7, <1>8 DEF S, sum
<1>9. ASSUME NEW e \in Entries, Settle(e), ~IsFlat(e), PositionOf(e) \in S,
             OpenUsd(S)' <= OpenUsd(S) + order[e]
      PROVE  OpenUsd(S)' + sum <= OpenUsd(S) + OrdersUsd(E)
  <2>1. Slug(e) = s /\ order[e] \in Nat
    BY <1>3, <1>9, AlphaFacts DEF Slugged, S, OfStrategy, PositionOf
  <2>2. CASE order[e] = 0
    BY <1>4, <1>5, <1>6, <1>7, <1>9, <2>2
  <2>3. CASE order[e] > 0
    <3>1. e \in E /\ F \in SUBSET (E \ {e}) /\ order' = order
      BY <1>0, <1>9, <2>1, <2>3, SettleLeaves
    <3>2. sum <= OrdersUsd(E) - order[e]
      BY <1>3, <3>1, OrdersLeave DEF sum
    <3> QED
      BY <1>5, <1>6, <1>7, <1>9, <2>1, <3>2
  <2> QED
    BY <2>1, <2>2, <2>3
<1>10. \/ OpenUsd(S)' <= OpenUsd(S)
       \/ \E e \in Entries :
            /\ Settle(e) /\ ~IsFlat(e) /\ PositionOf(e) \in S
            /\ OpenUsd(S)' <= OpenUsd(S) + order[e]
  <2>1. \/ OpenUsd(OfStrategy(s))' <= OpenUsd(OfStrategy(s))
        \/ \E e \in Entries :
            /\ Settle(e) /\ ~IsFlat(e) /\ PositionOf(e) \in OfStrategy(s)
            /\ OpenUsd(OfStrategy(s))' <= OpenUsd(OfStrategy(s)) + order[e]
    BY <1>0, <1>1, OpenStep DEF S
  <2> QED
    BY <2>1 DEF S
<1> QED
  BY <1>8, <1>9, <1>10 DEF S, sum

(* The two sums of the budget are natural numbers.                         *)
LEMMA SumsType ==
  ASSUME TypeOK, TypeOK', NEW s \in Strategies
  PROVE  /\ OpenUsd(OfStrategy(s)) \in Nat /\ OpenUsd(OfStrategy(s))' \in Nat
         /\ OrdersUsd(InFlight(s)) \in Nat /\ OrdersUsd(InFlight(s))' \in Nat
         /\ OrdersUsd(QueuedOf(s) \cup Passing(s)) \in Nat
         /\ OrdersUsd(QueuedOf(s) \cup Passing(s))' \in Nat
         /\ pending[s] \in Nat /\ pending'[s] \in Nat
<1> DEFINE S == OfStrategy(s)
           E == InFlight(s)
           L == QueuedOf(s) \cup Passing(s)
           g == [p \in Strategies \X Assets |-> AbsUsd(pos'[p])]
<1>1. S \in SUBSET (Strategies \X Assets)
  BY PositionSets
<1>2. \A p \in S : g[p] \in Nat
  BY <1>1 DEF TypeOK, AbsUsd
<1>3. /\ OpenUsd(S)' = SumFunctionOnSet(g, S)
      /\ OrdersUsd(E)' = SumFunctionOnSet(order', E')
      /\ OrdersUsd(L)' = SumFunctionOnSet(order', L')
  BY DEF OpenUsd, PosUsd, OfStrategy, OrdersUsd
<1>4. /\ E \in SUBSET Entries /\ E' \in SUBSET Entries
      /\ L \in SUBSET Entries /\ L' \in SUBSET Entries
      /\ order \in [Entries -> Nat] /\ order' \in [Entries -> Nat]
  BY InFlightMember, LiveMember DEF TypeOK
<1> HIDE DEF S, E, L, g
<1>5. OpenUsd(S) \in Nat /\ OpenUsd(S)' \in Nat
  BY <1>1, <1>2, <1>3, OpenUsdFacts, PositionsFinite, SumNat
<1>6. OrdersUsd(E) \in Nat /\ OrdersUsd(L) \in Nat
  BY <1>4, OrdersUsdFacts
<1>7. ASSUME NEW F \in SUBSET Entries
      PROVE  SumFunctionOnSet(order', F) \in Nat
  <2>1. IsFiniteSet(F) /\ \A x \in F : order'[x] \in Nat
    BY <1>4, EntriesFinite
  <2> QED
    BY <2>1, SumNat
<1>8. OrdersUsd(E)' \in Nat /\ OrdersUsd(L)' \in Nat
  BY <1>3, <1>4, <1>7
<1>9. pending[s] \in Nat /\ pending'[s] \in Nat
  BY DEF TypeOK
<1> QED
  BY <1>5, <1>6, <1>8, <1>9 DEF S, E, L

(* A handler that waits to reserve holds the exposure it was sized on.     *)
LEMMA ExposureRead ==
  ASSUME CoreInv, [Next]_vars, NEW e \in Entries, ~IsFlat(e),
         pc'[e] \in {"position", "bucket", "cluster", "reserve"}
  PROVE  \/ SizeOrder(e)
         \/ /\ pc[e] \in {"position", "bucket", "cluster", "reserve"}
            /\ reads'[e].exposure = reads[e].exposure
<1>1. TypeOK /\ VerdictKnown(e)
  BY DEF CoreInv, HandlersConsistent, HandlerConsistent
<1>2. CASE Unmoved(e)
  BY <1>2 DEF Unmoved
<1>3. CASE Settle(e) \/ Refuse(e)
  BY <1>1, <1>3 DEF Settle, Refuse, VerdictKnown
<1>4. CASE ReadPosition(e) \/ ReadBucketExposure(e) \/ ReadClusterExposure(e)
  BY <1>1, <1>4, ReadValues
     DEF ReadPosition, ReadBucketExposure, ReadClusterExposure, TypeOK, Fields
<1>5. CASE \/ Skip(e) \/ CheckSystemHalt(e) \/ CheckStrategyHalt(e) \/ ReadSnapshots(e)
           \/ RaiseOnPayload(e) \/ Reserve(e) \/ Release(e) \/ Insert(e)
  BY <1>1, <1>5 DEF Skip, CheckSystemHalt, CheckStrategyHalt, ReadSnapshots,
       RaiseOnPayload, Reserve, Release, Insert, Return, Goto, TypeOK
<1>6. CASE Decide(e)
  <2>1. Return(e) \/ Goto(e, "release") \/ Goto(e, "insert")
    BY <1>6 DEF Decide
  <2> QED
    BY <1>1, <2>1 DEF Return, Goto, TypeOK
<1> QED
  BY <1>1, <1>2, <1>3, <1>4, <1>5, <1>6, StepOf DEF Handler

(* Every step keeps what a handler has read, with the counter, above what  *)
(* is open or in flight.                                                   *)
LEMMA ExposureStep ==
  CoreInv /\ TypeOK' /\ Slugged /\ ExposureCovered /\ [Next]_vars => ExposureCovered'
<1> SUFFICES ASSUME CoreInv, TypeOK', Slugged, ExposureCovered, [Next]_vars,
                    NEW e \in Entries, moves' = 0, Slug(e) # NoSlug, ~IsFlat(e),
                    pc'[e] \in {"position", "bucket", "cluster", "reserve"}
             PROVE  OpenUsd(OfStrategy(Slug(e)))' + OrdersUsd(InFlight(Slug(e)))'
                      <= reads'[e].exposure + pending'[Slug(e)]
  BY DEF ExposureCovered, Slug, IsFlat, Direction
<1> DEFINE s == Slug(e)
<1>0. TypeOK /\ HandlersConsistent /\ ReservationsCovered /\ s \in Strategies
  BY AlphaFacts DEF CoreInv
<1>1. moves = 0 /\ moves' = moves
  BY <1>0, MovesStep
<1> HIDE DEF s
<1> DEFINE O == OpenUsd(OfStrategy(s))
           F == OrdersUsd(InFlight(s))
           open == OpenUsd(OfStrategy(s))'
           flight == OrdersUsd(InFlight(s))'
<1>2. /\ O \in Nat /\ F \in Nat /\ open \in Nat /\ flight \in Nat
      /\ pending[s] \in Nat /\ pending'[s] \in Nat /\ F <= pending[s]
  BY <1>0, SumsType DEF ReservationsCovered
<1>3. /\ reads[e].exposure \in Nat /\ reads'[e].exposure \in Nat
      /\ \A f \in Entries : order[f] \in Nat
  <2>1. reads[e] \in Reads /\ reads'[e] \in Reads
    BY <1>0 DEF TypeOK
  <2> QED
    BY <1>0, <2>1 DEF Reads, TypeOK
<1>4. ASSUME \A f \in Entries : Slug(f) = s => ~Reserve(f)
      PROVE  open + flight <= O + F
  <2>1. InFlight(s) \in SUBSET Entries /\ InFlight(s)' \in SUBSET Entries
    BY InFlightMember
  <2>2. OpenUsd(OfStrategy(s))' + SumFunctionOnSet(order', InFlight(s)')
          <= OpenUsd(OfStrategy(s)) + OrdersUsd(InFlight(s))
    BY <1>0, <1>1, <1>4, <2>1, OpenAndInFlight
  <2>3. OrdersUsd(InFlight(s))' = SumFunctionOnSet(order', InFlight(s)')
    BY DEF OrdersUsd
  <2> QED
    BY <2>2, <2>3
<1>5. ASSUME pos' = pos
      PROVE  open = O
  BY <1>5 DEF OpenUsd, PosUsd, OfStrategy
<1>6. ASSUME NEW f \in Entries, Reserve(f) \/ Release(f)
      PROVE  pos' = pos
  BY <1>6 DEF Reserve, Release, env
<1>7. Forget(s) => pos' = pos
  BY DEF Forget, env
<1>8. CASE SizeOrder(e)
  <2>1. reads'[e].exposure = O /\ pending' = pending
    <3>1. PICK p \in Payloads, exposure \in Nat :
            /\ exposure = IF Slug(e) = NoSlug THEN 0 ELSE OpenUsd(OfStrategy(Slug(e)))
            /\ reads' = [reads EXCEPT ![e] = [reads[e] EXCEPT !.exposure = exposure, !.lp = p]]
      BY <1>0, <1>8, SizeOrderEffect
    <3>2. reads'[e].exposure = exposure
      BY <1>0, <3>1 DEF TypeOK, Reads
    <3> QED
      BY <1>8, <3>1, <3>2 DEF SizeOrder, s
  <2>2. \A f \in Entries : ~Reserve(f)
    <3> SUFFICES ASSUME NEW f \in Entries, Reserve(f) PROVE FALSE
      OBVIOUS
    <3>1. f # e /\ pc'[f] = pc[f]
      BY <1>0, <1>8 DEF SizeOrder, Reserve, Goto, TypeOK
    <3> QED
      BY <1>0, <3>1 DEF Reserve, Goto, TypeOK
  <2>3. open + flight <= O + F
    BY <1>4, <2>2
  <2> QED
    BY <1>2, <2>1, <2>3 DEF s
<1>9. CASE /\ pc[e] \in {"position", "bucket", "cluster", "reserve"}
           /\ reads'[e].exposure = reads[e].exposure
  <2>1. O + F <= reads[e].exposure + pending[s]
    BY <1>1, <1>9 DEF ExposureCovered, s
  <2>2. CASE /\ pending'[s] = pending[s]
             /\ \A f \in Entries : Slug(f) = s => ~Reserve(f)
    <3>1. open + flight <= O + F
      BY <1>4, <2>2
    <3> HIDE DEF O, F, open, flight
    <3> QED
      BY <1>2, <1>3, <1>9, <2>1, <2>2, <3>1 DEF s, open, flight
  <2>3. ASSUME NEW f \in Entries, Reserve(f), flight <= F + order[f],
               pending'[s] = pending[s] + order[f]
        PROVE  open + flight <= reads'[e].exposure + pending'[s]
    <3>1. open = O /\ order[f] \in Nat
      BY <1>3, <1>5, <1>6, <2>3
    <3> HIDE DEF O, F, open, flight
    <3> QED
      BY <1>2, <1>3, <1>9, <2>1, <2>3, <3>1
  <2>4. ASSUME NEW f \in Entries, Release(f), flight <= F - order[f],
               pending'[s] = pending[s] - order[f]
        PROVE  open + flight <= reads'[e].exposure + pending'[s]
    <3>1. open = O /\ order[f] \in Nat
      BY <1>3, <1>5, <1>6, <2>4
    <3> HIDE DEF O, F, open, flight
    <3> QED
      BY <1>2, <1>3, <1>9, <2>1, <2>4, <3>1
  <2>5. CASE Forget(s) /\ flight = 0 /\ pending'[s] = 0
    <3>1. open = O
      BY <1>5, <1>7, <2>5
    <3>2. reads[e].exposure >= O
      BY <1>9, <2>5 DEF Forget, s
    <3> HIDE DEF O, F, open, flight
    <3> QED
      BY <1>2, <1>3, <1>9, <2>5, <3>1, <3>2 DEF s, open, flight
  <2> QED
    BY <1>0, <2>2, <2>3, <2>4, <2>5, FlightStep DEF s
<1> QED
  BY <1>8, <1>9, ExposureRead

(* A reservation that passes the budget check leaves room for the order.   *)
LEMMA ReserveFits ==
  ASSUME CoreInv, TypeOK', ExposureCovered, [Next]_vars, moves = 0,
         NEW e \in Entries, Reserve(e), BudgetCap(Slug(e)) # NoCap,
         ~WouldBreachStrategyBudget(Request(e)')
  PROVE  OpenUsd(OfStrategy(Slug(e))) + OrdersUsd(InFlight(Slug(e))) + order[e]
           <= BudgetCap(Slug(e))
<1> DEFINE s == Slug(e)
           q == Request(e)'
           O == OpenUsd(OfStrategy(s))
           F == OrdersUsd(InFlight(s))
<1>0. TypeOK /\ HandlersConsistent /\ SizeKnown(e)
  BY DEF CoreInv, HandlersConsistent, HandlerConsistent
<1>1. /\ s \in Strategies /\ s # NoSlug /\ order[e] > 0 /\ order' = order
      /\ pc[e] = "reserve" /\ ~IsFlat(e)
  <2>1. /\ s \in Strategies /\ order[e] > 0 /\ order' = order /\ pc[e] = "reserve"
    BY <1>0, ReserveJoins DEF Reserve
  <2>2. ~IsFlat(e)
    BY <1>0, <2>1 DEF SizeKnown
  <2> QED
    BY <2>1, <2>2, SizingAssumption
<1>2. reads'[e].pendingTotal = pending[s] + order[e] /\ reads'[e].exposure = reads[e].exposure
  BY <1>0, ReadValues DEF Reserve, TypeOK, Fields
<1>3. /\ q.direction = Direction(e) /\ q.slug = s /\ q.notional = order[e] /\ q.tier = NoTier
      /\ q.strategyUsd = reads[e].exposure
                           + NonNegative((pending[s] + order[e]) - order[e])
  BY <1>1, <1>2 DEF Request, Direction, Slug
<1>4. /\ O \in Nat /\ F \in Nat /\ pending[s] \in Nat /\ order[e] \in Nat
      /\ reads[e].exposure \in Nat
  <2>1. reads[e] \in Reads
    BY <1>0 DEF TypeOK
  <2>2. O \in Nat /\ F \in Nat /\ pending[s] \in Nat
    BY <1>0, <1>1, SumsType
  <2> QED
    BY <1>0, <2>1, <2>2 DEF Reads, TypeOK
<1>5. O + F <= reads[e].exposure + pending[s]
  BY <1>1 DEF ExposureCovered
<1>6. BudgetCap(s) \in Nat /\ BudgetCap(s) > 0
  BY <1>1, <1>4, LimitsType DEF NoCap
<1>7. NonNegative((pending[s] + order[e]) - order[e]) = pending[s]
  <2>1. (pending[s] + order[e]) - order[e] = pending[s]
    BY <1>4
  <2>2. NonNegative(pending[s]) = IF pending[s] > 0 THEN pending[s] ELSE 0
    BY <1>4, NonNegativeFacts
  <2> QED
    BY <1>4, <2>1, <2>2
<1>8. q.strategyUsd + q.notional <= BudgetCap(s)
  <2>1. ~WouldBreachStrategyBudget(q)
    OBVIOUS
  <2>2. Get(BudgetOverrides, q.slug, IF q.tier > 0 THEN q.tier ELSE DefaultBudget) = BudgetCap(s)
    BY <1>1, <1>3 DEF BudgetCap, NoTier, Get
  <2>3. Opening(q) /\ q.slug # NoSlug
    BY <1>1, <1>3 DEF Opening, IsFlat
  <2>4. q.strategyUsd + q.notional \in Nat
    BY <1>3, <1>4, <1>7
  <2> HIDE DEF q
  <2> QED
    BY <1>6, <2>1, <2>2, <2>3, <2>4 DEF WouldBreachStrategyBudget
<1> HIDE DEF q, O, F
<1> QED
  BY <1>3, <1>4, <1>5, <1>6, <1>7, <1>8 DEF s, O, F

(* Every step keeps what is open, queued or passing within the budget.     *)
LEMMA PassingStep ==
  ASSUME CoreInv, TypeOK', Slugged, ExposureCovered, PassingFits, [Next]_vars
  PROVE  PassingFits'
<1> SUFFICES ASSUME NEW s \in Strategies, moves' = 0, BudgetCap(s) # NoCap
             PROVE  OpenUsd(OfStrategy(s))' + OrdersUsd(QueuedOf(s) \cup Passing(s))'
                      <= BudgetCap(s)
  BY DEF PassingFits
<1>0. TypeOK /\ HandlersConsistent
  BY DEF CoreInv
<1>1. moves = 0 /\ moves' = moves
  BY <1>0, MovesStep
<1> DEFINE L == QueuedOf(s) \cup Passing(s)
           O == OpenUsd(OfStrategy(s))
           open == OpenUsd(OfStrategy(s))'
           sum == SumFunctionOnSet(order', L')
<1>2. L \in SUBSET Entries /\ L' \in SUBSET Entries
  BY LiveMember
<1>3. OrdersUsd(L)' = sum
  BY DEF OrdersUsd
<1>4. /\ O \in Nat /\ open \in Nat /\ OrdersUsd(L) \in Nat /\ sum \in Nat
      /\ OrdersUsd(InFlight(s)) \in Nat
  BY <1>0, <1>3, SumsType
<1>5. O + OrdersUsd(L) <= BudgetCap(s) /\ BudgetCap(s) \in Nat
  BY <1>1, LimitsType DEF PassingFits
<1>6. CASE \A e \in Entries : Slug(e) = s => ~Reserve(e)
  <2>1. open + sum <= O + OrdersUsd(L)
    BY <1>1, <1>2, <1>6, OpenAndInFlight
  <2> HIDE DEF L, O, open, sum
  <2>2. open + sum <= BudgetCap(s)
    BY <1>4, <1>5, <2>1
  <2> QED
    BY <1>3, <2>2 DEF open, L
<1>7. ASSUME NEW e \in Entries, Slug(e) = s, Reserve(e)
      PROVE  open + sum <= BudgetCap(s)
  <2>1. /\ order' = order /\ order[e] > 0 /\ order[e] \in Nat
        /\ InFlight(s)' \subseteq InFlight(s) \cup {e}
        /\ L' \subseteq L \cup {e}
        /\ order \in [Entries -> Nat]
    BY <1>0, <1>7, ReserveJoins DEF TypeOK
  <2>2. open = O
    BY <1>7 DEF Reserve, env, OpenUsd, PosUsd, OfStrategy
  <2>3. CASE e \notin L'
    <3>1. L' \in SUBSET L /\ \A f \in L' : order'[f] = order[f]
      BY <2>1, <2>3
    <3> HIDE DEF L
    <3>2. sum <= OrdersUsd(L)
      BY <1>2, <2>1, <3>1, OrdersShrink
    <3> HIDE DEF O, open, sum
    <3> QED
      BY <1>4, <1>5, <2>2, <3>2
  <2>4. CASE e \in L'
    <3>1. ~WouldBreachStrategyBudget(Request(e)')
      <4>1. pc'[e] = "evaluate" /\ intent[e] = "none" /\ intent' = intent
        BY <1>0, <1>7 DEF Reserve, Goto, TypeOK, rows, HandlersConsistent,
             HandlerConsistent, VerdictKnown
      <4> QED
        BY <2>4, <4>1, LiveMember
    <3>2. O + OrdersUsd(InFlight(s)) + order[e] <= BudgetCap(s)
      BY <1>1, <1>7, <3>1, ReserveFits
    <3>3. L' \in SUBSET (InFlight(s) \cup {e})
      BY <2>1, InFlightMember, LiveMember
    <3>4. InFlight(s) \in SUBSET Entries
      BY LiveInFlight
    <3> HIDE DEF L
    <3>5. sum <= OrdersUsd(InFlight(s)) + order[e]
      BY <2>1, <3>3, <3>4, OrdersJoin
    <3> HIDE DEF O, open, sum
    <3> QED
      BY <1>4, <1>5, <2>1, <2>2, <3>2, <3>5
  <2> QED
    BY <2>3, <2>4
<1>8. (\E e \in Entries : Slug(e) = s /\ Reserve(e)) => open + sum <= BudgetCap(s)
  BY <1>7
<1>9. (\E e \in Entries : Slug(e) = s /\ Reserve(e)) => open + OrdersUsd(L)' <= BudgetCap(s)
  BY <1>3, <1>8
<1> QED
  BY <1>6, <1>9

(* Every step preserves the invariant of the budget.                       *)
LEMMA BudgetStep == Slugged /\ BudgetInv /\ [Next]_vars => BudgetInv'
<1> SUFFICES ASSUME Slugged, BudgetInv, [Next]_vars PROVE BudgetInv'
  OBVIOUS
<1>1. CoreInv' /\ TypeOK'
  BY CoreStep DEF BudgetInv, CoreInv
<1> QED
  BY <1>1, ExposureStep, PassingStep DEF BudgetInv

(* Initially nothing is open.                                              *)
LEMMA NothingOpen ==
  ASSUME Init, NEW S \in SUBSET (Strategies \X Assets)
  PROVE  OpenUsd(S) = 0
<1>1. \A p \in S : PosUsd[p] = 0
  BY DEF Init, PosUsd, AbsUsd
<1>2. IsFiniteSet(S) /\ {} \in SUBSET S
  BY PositionsFinite
<1>3. SumFunctionOnSet(PosUsd, S) = SumFunctionOnSet(PosUsd, {})
  BY <1>1, <1>2, SumSupport
<1> QED
  BY <1>3, SumEmpty DEF OpenUsd

(* The initial state satisfies the invariant of the budget.                *)
LEMMA BudgetInit == Init => BudgetInv
<1> SUFFICES ASSUME Init PROVE BudgetInv
  OBVIOUS
<1>1. CoreInv
  BY CoreInit
<1>2. ExposureCovered
  BY DEF Init, ExposureCovered
<1>3. ASSUME NEW s \in Strategies
      PROVE  OpenUsd(OfStrategy(s)) + OrdersUsd(QueuedOf(s) \cup Passing(s)) <= BudgetCap(s)
  <2> DEFINE S == OfStrategy(s)
             L == QueuedOf(s) \cup Passing(s)
  <2>1. L = {}
    BY LiveMember DEF Init
  <2>2. OrdersUsd(L) = 0
    BY <2>1, SumEmpty DEF OrdersUsd
  <2>3. OpenUsd(S) = 0
    BY NothingOpen, PositionSets
  <2>4. BudgetCap(s) \in Nat
    BY LimitsType
  <2> HIDE DEF S, L
  <2> QED
    BY <2>2, <2>3, <2>4 DEF S, L
<1> QED
  BY <1>1, <1>2, <1>3 DEF BudgetInv, PassingFits

(* Queued orders without a reservation are closes, and have no size.       *)
LEMMA BudgetImplies == Slugged /\ BudgetInv => BudgetCapped
<1> SUFFICES ASSUME Slugged, BudgetInv, NEW s \in Strategies, BudgetCap(s) # NoCap,
                    moves = 0
             PROVE  OpenUsd(OfStrategy(s)) + QueuedUsd({e \in Entries : Strategy(e) = s})
                      <= BudgetCap(s)
  BY DEF BudgetCapped
<1> DEFINE T == {x \in {e \in Entries : Strategy(e) = s} : intent[x] = "queued"}
           Q == QueuedOf(s)
           L == Q \cup Passing(s)
           O == OpenUsd(OfStrategy(s))
<1>0. TypeOK /\ HandlersConsistent
  BY DEF BudgetInv, CoreInv
<1>1. QueuedUsd({e \in Entries : Strategy(e) = s}) = OrdersUsd(T)
  BY DEF QueuedUsd, OrdersUsd
<1>2. T \in SUBSET Entries /\ L \in SUBSET Entries /\ Q \in SUBSET L
  BY LiveMember
<1>3. Q \in SUBSET T
  BY AlphaFacts, SizingAssumption DEF QueuedOf, SizedOrders
<1>4. \A e \in T \ Q : order[e] = 0
  <2> SUFFICES ASSUME NEW e \in T \ Q PROVE order[e] = 0
    OBVIOUS
  <2>1. Slug(e) = NoSlug \/ ~(order[e] > 0)
    BY AlphaFacts DEF QueuedOf, SizedOrders
  <2>2. order[e] \in Nat /\ SizeKnown(e)
    BY <1>0 DEF TypeOK, HandlersConsistent, HandlerConsistent
  <2> QED
    BY <2>1, <2>2 DEF Slugged, SizeKnown
<1>5. O \in Nat /\ O + OrdersUsd(L) <= BudgetCap(s)
  BY <1>0, PositionSets, OpenUsdFacts DEF BudgetInv, PassingFits
<1>6. order \in [Entries -> Nat] /\ BudgetCap(s) \in Nat
  BY <1>0, LimitsType DEF TypeOK
<1> HIDE DEF T, Q, L, O
<1>7. IsFiniteSet(T) /\ \A e \in T : order[e] \in Nat
  BY <1>2, <1>6, EntriesFinite
<1>8. OrdersUsd(T) = OrdersUsd(Q)
  BY <1>3, <1>4, <1>7, SumSupport DEF OrdersUsd
<1>9. OrdersUsd(Q) <= OrdersUsd(L) /\ OrdersUsd(L) \in Nat /\ OrdersUsd(T) \in Nat
  BY <1>2, <1>6, OrdersUsdFacts
<1>10. O + OrdersUsd(T) <= BudgetCap(s)
  BY <1>5, <1>6, <1>8, <1>9
<1> QED
  BY <1>1, <1>10 DEF O

(* Whatever handlers interleave, the counters bridge the gap between the   *)
(* reading of an exposure and the queuing of an order, if every opening    *)
(* alpha carries its slug.                                                 *)
THEOREM BudgetBridged == ASSUME Slugged PROVE Spec => []BudgetInv
<1>1. Init => BudgetInv
  BY BudgetInit
<1>2. BudgetInv /\ [Next]_vars => BudgetInv'
  BY BudgetStep
<1> QED
  BY <1>1, <1>2, PTL DEF Spec

(* So no strategy's open positions and queued orders outgrow its budget.   *)
THEOREM BudgetKept == ASSUME Slugged PROVE Spec => []BudgetCapped
<1>1. Spec => []BudgetInv
  BY BudgetBridged
<1>2. BudgetInv => BudgetCapped
  BY BudgetImplies
<1> QED
  BY <1>1, <1>2, PTL

=============================================================================
