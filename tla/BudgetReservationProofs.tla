----------------------- MODULE BudgetReservationProofs -----------------------
(***************************************************************************)
(* Proofs about BudgetReservation for any finite set of entries and any    *)
(* budgets: type correctness without further assumptions, and the budget   *)
(* itself when the environment is Timely (module BudgetInvariant).         *)
(***************************************************************************)
EXTENDS BudgetInvariant, SumTheorems

-----------------------------------------------------------------------------
(* Facts about sums over entries.                                          *)

(* Every set of entries is finite, and its sum is a natural number that    *)
(* grows with the set and is at most additive.                             *)
LEMMA SumFacts ==
  ASSUME NEW f \in [Entries -> Nat], NEW S \in SUBSET Entries, NEW T \in SUBSET Entries
  PROVE  /\ IsFiniteSet(S)
         /\ SumFunctionOnSet(f, S) \in Nat
         /\ S \subseteq T => SumFunctionOnSet(f, S) <= SumFunctionOnSet(f, T)
         /\ SumFunctionOnSet(f, S \cup T)
              <= SumFunctionOnSet(f, S) + SumFunctionOnSet(f, T)
<1> DEFINE Sum(X) == SumFunctionOnSet(f, X)
           R == T \ S
<1>1. ASSUME NEW X \in SUBSET Entries
      PROVE  IsFiniteSet(X) /\ Sum(X) \in Nat /\ \A x \in X : f[x] \in Nat
  <2>1. IsFiniteSet(X) /\ \A x \in X : f[x] \in Nat
    BY EntriesAssumption, FS_Subset
  <2> QED
    BY <2>1, SumNat
<1>2. S \subseteq T => Sum(S) <= Sum(T)
  BY <1>1, SumMonotone
<1>3. Sum(S \cup R) = Sum(S) + Sum(R)
  <2>1. S \cap R = {} /\ \A x \in S \cup R : f[x] \in Int
    OBVIOUS
  <2>2. IsFiniteSet(S) /\ IsFiniteSet(R)
    BY <1>1
  <2> HIDE DEF R
  <2> QED
    BY <2>1, <2>2, SumDisjointUnion
<1>4. Sum(R) <= Sum(T)
  BY <1>1, SumMonotone
<1>5. Sum(S \cup T) = Sum(S \cup R)
  <2>1. S \cup T = S \cup R
    OBVIOUS
  <2> HIDE DEF R
  <2> QED
    BY <2>1
<1>6. Sum(S) \in Nat /\ Sum(R) \in Nat /\ Sum(T) \in Nat
  BY <1>1
<1>7. Sum(S \cup T) <= Sum(S) + Sum(T)
  <2> HIDE DEF Sum, R
  <2> QED
    BY <1>3, <1>4, <1>5, <1>6
<1> QED
  BY <1>1, <1>2, <1>7

(* The amounts of the model are such numbers.                              *)
LEMMA AmountsNat == /\ TypeOK => amt \in [Entries -> Nat]
                    /\ TypeOK' => amt' \in [Entries -> Nat]
BY AmountsAssumption DEF TypeOK

(* An entry that is not in a set adds its amount to the sum.               *)
LEMMA SumAdd ==
  ASSUME NEW f \in [Entries -> 0..MaxUsd], NEW S \in SUBSET Entries,
         NEW e \in Entries, e \notin S
  PROVE  SumFunctionOnSet(f, S \cup {e}) = SumFunctionOnSet(f, S) + f[e]
<1> DEFINE T == S \cup {e}
<1>1. IsFiniteSet(T) /\ (\A x \in T : f[x] \in Int) /\ e \in T
  BY EntriesAssumption, AmountsAssumption, FS_Subset
<1>2. SumFunctionOnSet(f, S) \in Nat
  BY AmountsAssumption, SumFacts
<1>3. T \ {e} = S
  OBVIOUS
<1> HIDE DEF T
<1>4. SumFunctionOnSet(f, T) = f[e] + SumFunctionOnSet(f, T \ {e})
  BY <1>1, SumRemove
<1>5. SumFunctionOnSet(f, T) = SumFunctionOnSet(f, S) + f[e]
  BY <1>1, <1>2, <1>3, <1>4
<1> QED
  BY <1>5 DEF T

(* Changing the amount of an entry outside a set keeps its sum.            *)
LEMMA SumExcept ==
  ASSUME NEW f \in [Entries -> 0..MaxUsd], NEW S \in SUBSET Entries,
         NEW e \in Entries, e \notin S, NEW u
  PROVE  SumFunctionOnSet([f EXCEPT ![e] = u], S) = SumFunctionOnSet(f, S)
<1> DEFINE g == [f EXCEPT ![e] = u]
<1>1. \A x \in S : g[x] = f[x]
  OBVIOUS
<1>2. IsFiniteSet(S)
  BY EntriesAssumption, FS_Subset
<1> HIDE DEF g
<1>3. SumFunctionOnSet(g, S) = SumFunctionOnSet(f, S)
  BY <1>1, <1>2, SumAgree
<1> QED
  BY <1>3 DEF g

-----------------------------------------------------------------------------
(* Type correctness.                                                       *)

(* The sets of a strategy are sets of entries.                             *)
LEMMA SetsOfEntries ==
  ASSUME NEW s
  PROVE  /\ Of(s) \subseteq Entries
         /\ Queued(s) \subseteq Of(s)
         /\ Open(s) \subseteq Of(s)
         /\ Held(s) \subseteq Of(s)
         /\ Passing(s) \subseteq Of(s)
BY DEF Of, Queued, Open, Held, Passing

(* The sized order is a whole amount of at most MaxUsd.                    *)
LEMMA SizedType ==
  ASSUME NEW e \in Entries, NEW x \in Nat
  PROVE  Sized(e, x) \in 0..MaxUsd
<1>1. Want[e] \in 1..MaxUsd /\ Cap[StrategyOf[e]] \in Nat /\ MaxUsd \in Nat
  BY AmountsAssumption, EntriesAssumption
<1> QED
  BY <1>1 DEF Sized, Headroom, NonNeg, Least

(* The initial state is well typed.                                        *)
LEMMA TypeInit == Init => TypeOK
BY AmountsAssumption DEF Init, TypeOK

(* Every step of the router, of the adapter and of the clock keeps types.  *)
LEMMA TypeStep == TypeOK /\ [Next]_vars => TypeOK'
<1> SUFFICES ASSUME TypeOK, [Next]_vars PROVE TypeOK'
  OBVIOUS
<1> USE DEF TypeOK
<1>1. ASSUME NEW e \in Entries, ReadExposure(e) PROVE TypeOK'
  <2> DEFINE usd == Sized(e, Usd(Open(StrategyOf[e])))
  <2>1. Usd(Open(StrategyOf[e])) \in Nat
    BY AmountsNat, SumFacts, SetsOfEntries DEF Usd
  <2>2. usd \in 0..MaxUsd
    BY <2>1, SizedType
  <2>3. Open(StrategyOf[e]) \in SUBSET Entries
    BY SetsOfEntries
  <2>4. amt' = [amt EXCEPT ![e] = usd] /\ seen' = [seen EXCEPT ![e] = Open(StrategyOf[e])]
    BY <1>1 DEF ReadExposure
  <2> HIDE DEF usd
  <2>5. amt' \in [Entries -> 0..MaxUsd] /\ seen' \in [Entries -> SUBSET Entries]
    BY <2>2, <2>3, <2>4
  <2>6. pc' \in [Entries -> RouteSteps \cup {"new", "done"}]
    BY <1>1 DEF ReadExposure, RouteSteps
  <2> QED
    BY <1>1, <2>5, <2>6 DEF ReadExposure
<1>2. ASSUME NEW e \in Entries, Reserve(e) \/ ReserveFails(e) PROVE TypeOK'
  <2>1. StrategyOf[e] \in Strategies /\ amt[e] \in Int
    BY EntriesAssumption
  <2> QED
    BY <1>2, <2>1 DEF Reserve, ReserveFails, Increment, RouteSteps
<1>3. ASSUME NEW e \in Entries, Expire(e) \/ ExpireFails(e) PROVE TypeOK'
  <2>1. StrategyOf[e] \in Strategies /\ TTL \in 1..TTL
    BY EntriesAssumption, ClockAssumption
  <2>2. ttl' \in [Strategies -> {NoKey, NoExpiry} \cup 1..TTL]
    BY <1>3, <2>1 DEF Expire, ExpireFails, SetExpiry
  <2> QED
    BY <1>3, <2>2 DEF Expire, ExpireFails, RouteSteps
<1>4. ASSUME NEW e \in Entries, Accept(e) \/ SkipZeroNotional(e) \/ Reject(e)
      PROVE  TypeOK'
  BY <1>4 DEF Accept, SkipZeroNotional, Reject, Return, RouteSteps
<1>5. ASSUME NEW e \in Entries, Release(e) \/ ReleaseFails(e) PROVE TypeOK'
  <2>1. StrategyOf[e] \in Strategies /\ amt[e] \in Int /\ 0 \in 0..MaxUsd
    BY EntriesAssumption, AmountsAssumption
  <2>2. ttl' \in [Strategies -> {NoKey, NoExpiry} \cup 1..TTL]
    BY <1>5, <2>1 DEF Release, ReleaseFails, Increment
  <2>3. pending' \in [Strategies -> Int]
    BY <1>5, <2>1 DEF Release, ReleaseFails, Increment
  <2>4. amt' \in [Entries -> 0..MaxUsd]
    BY <1>5, <2>1 DEF Release, ReleaseFails
  <2> QED
    BY <1>5, <2>2, <2>3, <2>4 DEF Release, ReleaseFails, RouteSteps
<1>6. ASSUME NEW e \in Entries, InsertQueued(e) \/ InsertRejected(e) \/ Abandon(e)
      PROVE  TypeOK'
  BY <1>6 DEF InsertQueued, InsertRejected, InsertAs, Abandon, Return
<1>7. ASSUME NEW e \in Entries, Settle(e) \/ Refuse(e) \/ Close(e) PROVE TypeOK'
  BY <1>7 DEF Settle, Refuse, Close
<1>8. ASSUME Tick PROVE TypeOK'
  <2>1. age' \in [Entries -> Nat]
    BY <1>8 DEF Tick
  <2>2. pending' \in [Strategies -> Int]
    BY <1>8 DEF Tick
  <2>3. ttl' \in [Strategies -> {NoKey, NoExpiry} \cup 1..TTL]
    <3>1. ASSUME NEW s \in Strategies PROVE ttl'[s] \in {NoKey, NoExpiry} \cup 1..TTL
      <4>1. CASE ttl[s] > 1
        BY <1>8, <4>1, ClockAssumption DEF Tick, NoKey, NoExpiry
      <4>2. CASE ttl[s] = 1
        BY <1>8, <4>2 DEF Tick
      <4>3. CASE ~(ttl[s] > 1) /\ ttl[s] # 1
        BY <1>8, <4>3 DEF Tick
      <4> QED
        BY <4>1, <4>2, <4>3
    <3>2. ttl' = [s \in Strategies |-> ttl'[s]]
      BY <1>8 DEF Tick
    <3> QED
      BY <3>1, <3>2
  <2> QED
    BY <1>8, <2>1, <2>2, <2>3 DEF Tick
<1>9. ASSUME NEW e \in Entries, NextAlpha(e) PROVE TypeOK'
  BY <1>9 DEF NextAlpha
<1>10. CASE UNCHANGED vars
  BY <1>10 DEF vars
<1> QED
  BY <1>1, <1>2, <1>3, <1>4, <1>5, <1>6, <1>7, <1>8, <1>9, <1>10
  DEF Next, RouteStep, AdapterStep

(* Amounts, counters, times to live and row states stay in their domains   *)
(* in every behaviour, with or without failures.                           *)
THEOREM TypeCorrect == Spec => []TypeOK
<1> QED
  BY TypeInit, TypeStep, PTL DEF Spec

-----------------------------------------------------------------------------
(* One row per alpha.                                                      *)

(* A step that writes the row of at most one entry, and a new one only     *)
(* when the alpha has none, keeps alphas to one row each.                  *)
LEMMA OneIntentKept ==
  ASSUME OneIntentPerAlpha, NEW e \in Entries,
         \A f \in Entries : f # e => intent'[f] = intent[f],
         intent'[e] # "none" => intent[e] # "none" \/ ~RowExists(e)
  PROVE  OneIntentPerAlpha'
BY DEF OneIntentPerAlpha, RowExists

LEMMA OneIntentStep == TypeOK /\ OneIntentPerAlpha /\ [Next]_vars => OneIntentPerAlpha'
<1> SUFFICES ASSUME TypeOK, OneIntentPerAlpha, [Next]_vars PROVE OneIntentPerAlpha'
  OBVIOUS
<1>1. ASSUME NEW e \in Entries, InsertQueued(e) \/ InsertRejected(e)
      PROVE  OneIntentPerAlpha'
  BY <1>1, OneIntentKept DEF InsertQueued, InsertRejected, InsertAs, TypeOK
<1>2. ASSUME NEW e \in Entries, Settle(e) \/ Refuse(e) \/ Close(e) \/ NextAlpha(e)
      PROVE  OneIntentPerAlpha'
  BY <1>2, OneIntentKept DEF Settle, Refuse, Close, NextAlpha, TypeOK
<1>3. ASSUME intent' = intent PROVE OneIntentPerAlpha'
  BY <1>3 DEF OneIntentPerAlpha
<1>4. ASSUME NEW e \in Entries,
             RouteStep(e) \/ Abandon(e) \/ AdapterStep(e) \/ Close(e) \/ NextAlpha(e)
      PROVE  OneIntentPerAlpha'
  <2>1. CASE InsertQueued(e) \/ InsertRejected(e)
    BY <1>1, <2>1
  <2>2. CASE AdapterStep(e) \/ Close(e) \/ NextAlpha(e)
    BY <1>2, <2>2 DEF AdapterStep
  <2>3. CASE \/ RouteStep(e) /\ ~(InsertQueued(e) \/ InsertRejected(e))
            \/ Abandon(e)
    BY <1>3, <2>3 DEF RouteStep, Abandon, ReadExposure, Reserve, ReserveFails, Expire,
       ExpireFails, Accept, SkipZeroNotional, Reject, Release, ReleaseFails
  <2> QED
    BY <1>4, <2>1, <2>2, <2>3
<1>5. CASE Tick \/ UNCHANGED vars
  BY <1>3, <1>5 DEF Tick, vars
<1> QED
  BY <1>4, <1>5 DEF Next

(* However many deliveries of one alpha race, fail or die, one of them at  *)
(* most has a row (router.py:317, db.py:175-199).                          *)
THEOREM OneIntent == Spec => []OneIntentPerAlpha
<1>1. Init => OneIntentPerAlpha
  BY DEF Init, OneIntentPerAlpha
<1> QED
  BY <1>1, TypeInit, TypeStep, OneIntentStep, PTL DEF Spec

-----------------------------------------------------------------------------
(* The counter and the orders that asked for a reservation.                *)

Asked(s) == {e \in Of(s) : pc[e] \notin {"new", "reserve"}}

(* A step that leaves the counter alone, or clears it, while no asking     *)
(* order leaves or changes its amount.                                     *)
LEMMA PhantomGrows ==
  ASSUME TypeOK, TypeOK', PhantomBounded,
         \A s \in Strategies : pending'[s] = pending[s] \/ pending'[s] = 0,
         \A e \in Entries : pc[e] \notin {"new", "reserve"} =>
           pc'[e] \notin {"new", "reserve"} /\ amt'[e] = amt[e]
  PROVE  PhantomBounded'
<1> SUFFICES ASSUME NEW s \in Strategies
             PROVE  pending'[s] <= SumFunctionOnSet(amt', Asked(s)')
  BY DEF PhantomBounded, Usd, Asked, Of
<1>1. Asked(s) \subseteq Asked(s)' /\ Asked(s)' \subseteq Entries
  BY DEF Asked, Of
<1>2. pending[s] <= SumFunctionOnSet(amt, Asked(s))
  BY DEF PhantomBounded, Usd, Asked
<1>3. SumFunctionOnSet(amt', Asked(s)) = SumFunctionOnSet(amt, Asked(s))
  <2>1. IsFiniteSet(Asked(s))
    BY <1>1, AmountsNat, SumFacts
  <2>2. \A e \in Asked(s) : amt'[e] = amt[e]
    BY DEF Asked, Of
  <2> QED
    BY <2>1, <2>2, SumAgree
<1>4. /\ SumFunctionOnSet(amt', Asked(s)) <= SumFunctionOnSet(amt', Asked(s)')
      /\ SumFunctionOnSet(amt', Asked(s)') \in Nat /\ SumFunctionOnSet(amt', Asked(s)) \in Nat
  BY <1>1, AmountsNat, SumFacts
<1>5. pending[s] \in Int /\ pending'[s] \in Int
  BY DEF TypeOK
<1> QED
  BY <1>2, <1>3, <1>4, <1>5

(* A reservation: the order joins with what the counter grows by.          *)
LEMMA PhantomReserved ==
  ASSUME TypeOK, TypeOK', PhantomBounded, NEW e \in Entries,
         pc[e] = "reserve", amt' = amt,
         \A f \in Entries : pc'[f] \notin {"new", "reserve"} <=>
           f = e \/ pc[f] \notin {"new", "reserve"},
         \A s \in Strategies : s # StrategyOf[e] => pending'[s] = pending[s],
         pending'[StrategyOf[e]] <= pending[StrategyOf[e]] + amt[e]
  PROVE  PhantomBounded'
<1> SUFFICES ASSUME NEW s \in Strategies
             PROVE  pending'[s] <= SumFunctionOnSet(amt, Asked(s)')
  BY DEF PhantomBounded, Usd, Asked, Of
<1>1. Asked(s) \subseteq Entries /\ e \notin Asked(s)
  BY DEF Asked, Of
<1>2. pending[s] <= SumFunctionOnSet(amt, Asked(s))
  BY DEF PhantomBounded, Usd, Asked
<1>3. CASE s = StrategyOf[e]
  <2>1. Asked(s)' = Asked(s) \cup {e}
    BY <1>3 DEF Asked, Of
  <2>2. SumFunctionOnSet(amt, Asked(s)') = SumFunctionOnSet(amt, Asked(s)) + amt[e]
    BY <1>1, <2>1, SumAdd DEF TypeOK
  <2>3. pending[s] \in Int /\ pending'[s] \in Int /\ amt[e] \in Nat
    BY AmountsAssumption DEF TypeOK
  <2>4. SumFunctionOnSet(amt, Asked(s)) \in Nat
    BY <1>1, AmountsNat, SumFacts
  <2> QED
    BY <1>2, <1>3, <2>2, <2>3, <2>4
<1>4. CASE s # StrategyOf[e]
  <2>1. Asked(s)' = Asked(s)
    BY <1>4 DEF Asked, Of
  <2> QED
    BY <1>2, <1>4, <2>1
<1> QED
  BY <1>3, <1>4

(* A release: the order stays with nothing, and the counter gives back     *)
(* what it had.                                                            *)
LEMMA PhantomReleased ==
  ASSUME TypeOK, TypeOK', PhantomBounded, NEW e \in Entries,
         pc[e] = "release", amt' = [amt EXCEPT ![e] = 0],
         \A f \in Entries : pc'[f] \notin {"new", "reserve"} <=>
           pc[f] \notin {"new", "reserve"},
         \A s \in Strategies : s # StrategyOf[e] => pending'[s] = pending[s],
         pending'[StrategyOf[e]] = pending[StrategyOf[e]] - amt[e]
  PROVE  PhantomBounded'
<1> SUFFICES ASSUME NEW s \in Strategies
             PROVE  pending'[s] <= SumFunctionOnSet(amt', Asked(s))
  BY DEF PhantomBounded, Usd, Asked, Of
<1> DEFINE Rest == Asked(s) \ {e}
<1>1. /\ Asked(s) \subseteq Entries /\ Rest \subseteq Entries /\ e \notin Rest
      /\ Rest \subseteq Asked(s)
      /\ s = StrategyOf[e] => Asked(s) = Rest \cup {e}
      /\ s # StrategyOf[e] => Asked(s) = Rest
  BY DEF Asked, Of
<1> HIDE DEF Rest
<1>2. pending[s] <= SumFunctionOnSet(amt, Asked(s))
  BY DEF PhantomBounded, Usd, Asked
<1>3. SumFunctionOnSet(amt', Rest) = SumFunctionOnSet(amt, Rest)
  <2>1. amt \in [Entries -> 0..MaxUsd]
    BY DEF TypeOK
  <2>2. SumFunctionOnSet([amt EXCEPT ![e] = 0], Rest) = SumFunctionOnSet(amt, Rest)
    BY <1>1, <2>1, SumExcept
  <2> QED
    BY <2>2
<1>4. SumFunctionOnSet(amt', Rest) <= SumFunctionOnSet(amt', Asked(s))
  BY <1>1, AmountsNat, SumFacts
<1>5. /\ pending[s] \in Int /\ pending'[s] \in Int /\ amt[e] \in Nat
      /\ SumFunctionOnSet(amt, Rest) \in Nat /\ SumFunctionOnSet(amt', Asked(s)) \in Nat
      /\ SumFunctionOnSet(amt, Asked(s)) \in Nat
  <2>1. pending[s] \in Int /\ pending'[s] \in Int /\ amt[e] \in Nat
    BY AmountsAssumption DEF TypeOK
  <2>2. /\ SumFunctionOnSet(amt, Rest) \in Nat /\ SumFunctionOnSet(amt', Asked(s)) \in Nat
        /\ SumFunctionOnSet(amt, Asked(s)) \in Nat
    BY <1>1, AmountsNat, SumFacts
  <2> QED
    BY <2>1, <2>2
<1>6. CASE s = StrategyOf[e]
  <2>1. amt \in [Entries -> 0..MaxUsd] /\ Asked(s) = Rest \cup {e}
    BY <1>1, <1>6 DEF TypeOK
  <2>2. SumFunctionOnSet(amt, Rest \cup {e}) = SumFunctionOnSet(amt, Rest) + amt[e]
    BY <1>1, <2>1, SumAdd
  <2> QED
    BY <1>2, <1>3, <1>4, <1>5, <1>6, <2>1, <2>2
<1>7. CASE s # StrategyOf[e]
  <2>1. Asked(s) = Rest
    BY <1>1, <1>7
  <2> QED
    BY <1>2, <1>3, <1>4, <1>7, <2>1
<1> QED
  BY <1>6, <1>7

(* An order that leaves held nothing: the sum is the same without it.      *)
LEMMA PhantomLeft ==
  ASSUME TypeOK, PhantomBounded, NEW e \in Entries,
         pc[e] = "done", amt[e] = 0, pc' = [pc EXCEPT ![e] = "new"],
         amt' = amt, pending' = pending
  PROVE  PhantomBounded'
<1> SUFFICES ASSUME NEW s \in Strategies
             PROVE  pending[s] <= SumFunctionOnSet(amt, Asked(s)')
  BY DEF PhantomBounded, Usd, Asked, Of
<1>1. /\ Asked(s)' \subseteq Entries /\ e \notin Asked(s)'
      /\ Asked(s) = Asked(s)' \/ Asked(s) = Asked(s)' \cup {e}
  BY DEF Asked, Of, TypeOK
<1>2. pending[s] <= SumFunctionOnSet(amt, Asked(s))
  BY DEF PhantomBounded, Usd, Asked
<1>3. SumFunctionOnSet(amt, Asked(s)' \cup {e}) = SumFunctionOnSet(amt, Asked(s)') + amt[e]
  BY <1>1, SumAdd DEF TypeOK
<1>4. SumFunctionOnSet(amt, Asked(s)') \in Nat
  BY <1>1, AmountsNat, SumFacts
<1> QED
  BY <1>1, <1>2, <1>3, <1>4

LEMMA PhantomStep == TypeOK /\ PhantomBounded /\ [Next]_vars => PhantomBounded'
<1> SUFFICES ASSUME TypeOK, PhantomBounded, [Next]_vars PROVE PhantomBounded'
  OBVIOUS
<1>1. TypeOK'
  BY TypeStep
<1>2. ASSUME NEW e \in Entries, Reserve(e) \/ ReserveFails(e) PROVE PhantomBounded'
  <2>1. /\ pc[e] = "reserve" /\ amt' = amt
        /\ \A f \in Entries : pc'[f] \notin {"new", "reserve"} <=>
             f = e \/ pc[f] \notin {"new", "reserve"}
    BY <1>2 DEF Reserve, ReserveFails, TypeOK
  <2>2. /\ \A s \in Strategies : s # StrategyOf[e] => pending'[s] = pending[s]
        /\ pending'[StrategyOf[e]] <= pending[StrategyOf[e]] + amt[e]
    <3>1. StrategyOf[e] \in Strategies /\ amt[e] \in Nat /\ pending[StrategyOf[e]] \in Int
      BY EntriesAssumption, AmountsAssumption DEF TypeOK
    <3> QED
      BY <1>2, <3>1 DEF Reserve, ReserveFails, Increment, TypeOK
  <2> QED
    BY <1>1, <2>1, <2>2, PhantomReserved
<1>3. ASSUME NEW e \in Entries, Release(e) \/ ReleaseFails(e) PROVE PhantomBounded'
  <2>1. /\ pc[e] = "release" /\ pc' = [pc EXCEPT ![e] = "reject"]
        /\ \A f \in Entries : pc'[f] \notin {"new", "reserve"} <=>
             pc[f] \notin {"new", "reserve"}
    BY <1>3 DEF Release, ReleaseFails, TypeOK
  <2>2. StrategyOf[e] \in Strategies /\ amt[e] \in Nat /\ pending[StrategyOf[e]] \in Int
    BY EntriesAssumption, AmountsAssumption DEF TypeOK
  <2>3. CASE Increment(StrategyOf[e], -amt[e]) /\ amt' = [amt EXCEPT ![e] = 0]
    <3>1. /\ \A s \in Strategies : s # StrategyOf[e] => pending'[s] = pending[s]
          /\ pending'[StrategyOf[e]] = pending[StrategyOf[e]] - amt[e]
      BY <2>2, <2>3 DEF Increment, TypeOK
    <3> QED
      BY <1>1, <2>1, <2>3, <3>1, PhantomReleased
  <2>4. CASE UNCHANGED <<pending, amt>>
    BY <1>1, <2>1, <2>4, PhantomGrows
  <2> QED
    BY <1>3, <2>3, <2>4 DEF Release, ReleaseFails
<1>4. ASSUME NEW e \in Entries,
             \/ ReadExposure(e) \/ Expire(e) \/ ExpireFails(e) \/ Accept(e)
             \/ SkipZeroNotional(e) \/ Reject(e) \/ InsertQueued(e) \/ InsertRejected(e)
             \/ Abandon(e) \/ Settle(e) \/ Refuse(e) \/ Close(e)
      PROVE  PhantomBounded'
  <2>1. pending' = pending
    BY <1>4 DEF ReadExposure, Expire, ExpireFails, Accept, SkipZeroNotional, Reject,
       InsertQueued, InsertRejected, InsertAs, Abandon, Settle, Refuse, Close
  <2>2. \A f \in Entries : pc[f] \notin {"new", "reserve"} =>
          pc'[f] \notin {"new", "reserve"} /\ amt'[f] = amt[f]
    BY <1>4 DEF ReadExposure, Expire, ExpireFails, Accept, SkipZeroNotional, Reject,
       InsertQueued, InsertRejected, InsertAs, Abandon, Settle, Refuse, Close, Return, TypeOK
  <2> QED
    BY <1>1, <2>1, <2>2, PhantomGrows
<1>5. ASSUME NEW e \in Entries, NextAlpha(e) PROVE PhantomBounded'
  BY <1>5, PhantomLeft DEF NextAlpha
<1>6. CASE Tick \/ UNCHANGED vars
  BY <1>1, <1>6, PhantomGrows DEF Tick, vars
<1> QED
  BY <1>2, <1>3, <1>4, <1>5, <1>6 DEF Next, RouteStep, AdapterStep

(* Whatever Redis drops and whoever dies, the counter holds no order       *)
(* twice: it is at most the sum of those that asked for a reservation and  *)
(* were not given it back (router.py:284-288).                             *)
THEOREM CounterBounded == Spec => []PhantomBounded
<1>1. Init => PhantomBounded
  <2> SUFFICES ASSUME Init, NEW s \in Strategies
               PROVE  pending[s] <= SumFunctionOnSet(amt, Asked(s))
    BY DEF PhantomBounded, Usd, Asked
  <2>1. Asked(s) \subseteq Entries
    BY DEF Asked, Of
  <2>2. SumFunctionOnSet(amt, Asked(s)) \in Nat /\ pending[s] = 0
    BY <2>1, SumFacts DEF Init
  <2> QED
    BY <2>2
<1> QED
  BY <1>1, TypeInit, TypeStep, PhantomStep, PTL DEF Spec

=============================================================================
