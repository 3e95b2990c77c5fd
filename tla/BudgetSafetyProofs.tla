------------------------- MODULE BudgetSafetyProofs -------------------------
(***************************************************************************)
(* The budget is never exceeded: IndInv (module BudgetInvariant) holds     *)
(* initially and is preserved by every step of a Timely system, which      *)
(* therefore implements the ledger of module BudgetLedger.                 *)
(***************************************************************************)
EXTENDS BudgetReservationProofs

(* Nothing is queued, open or counted when the router starts.              *)
LEMMA IndInvInit == Init => IndInv
<1> SUFFICES ASSUME Init PROVE IndInv
  OBVIOUS
<1>1. TypeOK
  BY TypeInit
<1>2. \A s \in Strategies :
        /\ Held(s) \cup Queued(s) = {}
        /\ Queued(s) \cup Open(s) \cup Passing(s) = {}
  BY DEF Init, Held, Queued, Open, Passing, Of
<1>3. SumFunctionOnSet(amt, {}) = 0
  BY SumEmpty
<1>4. InFlightCovered
  BY <1>2, <1>3 DEF InFlightCovered, Usd, Init
<1>5. PassingFits
  <2> SUFFICES ASSUME NEW s \in Strategies
               PROVE  Usd(Queued(s) \cup Open(s) \cup Passing(s)) <= Cap[s]
    BY DEF PassingFits
  <2>1. Usd(Queued(s) \cup Open(s) \cup Passing(s)) = 0
    BY <1>2, <1>3 DEF Usd
  <2> QED
    BY <2>1, AmountsAssumption
<1>6. Consistent /\ MissedCovered
  BY DEF Init, Consistent, MissedCovered
<1>7. KeysOutlive
  BY DEF Init, KeysOutlive, OnTime, ReservedLives, QueuedLives, MissedLives,
         Routing, RouteSteps
<1> QED
  BY <1>1, <1>4, <1>5, <1>6, <1>7 DEF IndInv

(* A step that changes no amount and no counter keeps the three sums if    *)
(* none of the sets they range over gains an entry.                        *)
LEMMA SumsShrink ==
  ASSUME InFlightCovered, MissedCovered, PassingFits, TypeOK,
         amt' = amt, pending' = pending,
         \A s \in Strategies :
           /\ (Held(s) \cup Queued(s))' \subseteq Held(s) \cup Queued(s)
           /\ (Queued(s) \cup Open(s) \cup Passing(s))'
                \subseteq Queued(s) \cup Open(s) \cup Passing(s),
         \A e \in Entries : pc'[e] = "reserve" =>
           pc[e] = "reserve" /\ Missed(e)' \subseteq Missed(e)
  PROVE  InFlightCovered' /\ MissedCovered' /\ PassingFits'
<1>1. ASSUME NEW S \in SUBSET Entries, NEW T \in SUBSET S, NEW b \in Int, Usd(S) <= b
      PROVE  SumFunctionOnSet(amt', T) <= b
  <2>1. T \in SUBSET Entries
    OBVIOUS
  <2>2. /\ SumFunctionOnSet(amt, T) <= SumFunctionOnSet(amt, S)
        /\ SumFunctionOnSet(amt, T) \in Nat
        /\ SumFunctionOnSet(amt, S) \in Nat
    BY <2>1, AmountsNat, SumFacts
  <2> QED
    BY <1>1, <2>2 DEF Usd
<1>2. InFlightCovered'
  <2> SUFFICES ASSUME NEW s \in Strategies
               PROVE  SumFunctionOnSet(amt', (Held(s) \cup Queued(s))') <= pending'[s]
    BY DEF InFlightCovered, Usd
  <2>1. Held(s) \cup Queued(s) \in SUBSET Entries
    BY SetsOfEntries
  <2>2. Usd(Held(s) \cup Queued(s)) <= pending[s] /\ pending[s] \in Int
    BY DEF InFlightCovered, TypeOK
  <2> QED
    BY <1>1, <2>1, <2>2
<1>3. MissedCovered'
  <2> SUFFICES ASSUME NEW e \in Entries, pc'[e] = "reserve"
               PROVE  SumFunctionOnSet(amt', Missed(e)') <= pending'[StrategyOf[e]]
    BY DEF MissedCovered, Usd
  <2>1. Missed(e) \in SUBSET Entries
    BY SetsOfEntries DEF Missed
  <2>2. Usd(Missed(e)) <= pending[StrategyOf[e]] /\ pending[StrategyOf[e]] \in Int
    BY EntriesAssumption DEF MissedCovered, TypeOK
  <2> QED
    BY <1>1, <2>1, <2>2
<1>4. PassingFits'
  <2> SUFFICES ASSUME NEW s \in Strategies
               PROVE  SumFunctionOnSet(amt', (Queued(s) \cup Open(s) \cup Passing(s))')
                        <= Cap[s]
    BY DEF PassingFits, Usd
  <2>1. Queued(s) \cup Open(s) \cup Passing(s) \in SUBSET Entries
    BY SetsOfEntries
  <2>2. Usd(Queued(s) \cup Open(s) \cup Passing(s)) <= Cap[s] /\ Cap[s] \in Int
    BY AmountsAssumption DEF PassingFits
  <2> QED
    BY <1>1, <2>1, <2>2
<1> QED
  BY <1>2, <1>3, <1>4

(* What keeps the keys' promises to an entry that a step leaves alone: no  *)
(* key's remaining life is cut, and no order the entry missed is new.      *)
KeysNotCut ==
  \A s \in Strategies :
    /\ ttl[s] # NoKey => ttl'[s] # NoKey
    /\ \A n \in Int : n <= TTL /\ Lives(ttl[s], n) => Lives(ttl'[s], n)

(* A step that leaves an entry, its age and what it missed alone, and cuts *)
(* no key short, keeps the keys it relies on.                              *)
LEMMA KeysKept ==
  ASSUME TypeOK, KeysOutlive, KeysNotCut, NEW f \in Entries,
         pc'[f] = pc[f], intent'[f] = intent[f], age'[f] = age[f], amt'[f] = amt[f],
         MissedDecided(f)' \subseteq MissedDecided(f)
  PROVE  OnTime(f)' /\ ReservedLives(f)' /\ QueuedLives(f)' /\ MissedLives(f)'
<1> USE EntriesAssumption, ClockAssumption DEF KeysOutlive
<1>1. age[f] \in Nat /\ StrategyOf[f] \in Strategies
  BY DEF TypeOK
<1>2. OnTime(f)'
  BY DEF OnTime, Routing
<1>3. ReservedLives(f)'
  <2>1. ReservedLives(f)
    OBVIOUS
  <2>2. TTL - age[f] \in Int /\ TTL - age[f] <= TTL
    BY <1>1
  <2>3. Lives(ttl[StrategyOf[f]], TTL - age[f]) => Lives(ttl'[StrategyOf[f]], TTL - age[f])
    BY <1>1, <2>2 DEF KeysNotCut
  <2>4. ttl[StrategyOf[f]] # NoKey => ttl'[StrategyOf[f]] # NoKey
    BY <1>1 DEF KeysNotCut
  <2> QED
    BY <2>1, <2>3, <2>4 DEF ReservedLives
<1>4. QueuedLives(f)'
  <2> DEFINE n == TTL - RouteMax - age[f]
  <2>1. QueuedLives(f)
    OBVIOUS
  <2>2. n \in Int /\ n <= TTL
    BY <1>1
  <2>3. Lives(ttl[StrategyOf[f]], n) => Lives(ttl'[StrategyOf[f]], n)
    BY <1>1, <2>2 DEF KeysNotCut
  <2> QED
    BY <2>1, <2>3 DEF QueuedLives
<1>5. MissedLives(f)'
  <2>1. SUFFICES ASSUME pc[f] = "reserve", MissedDecided(f) # {}
                 PROVE  Lives(ttl'[StrategyOf[f]], TTL - RouteMax - SettleMax - age[f])
    BY DEF MissedLives
  <2>2. Lives(ttl[StrategyOf[f]], TTL - RouteMax - SettleMax - age[f])
    BY <2>1 DEF MissedLives
  <2> QED
    BY <1>1, <2>2 DEF KeysNotCut
<1> QED
  BY <1>2, <1>3, <1>4, <1>5

-----------------------------------------------------------------------------
(* One lemma per step.                                                     *)

(* EXPIRE restarts the time to live of a counter: every order that relies  *)
(* on the key may rely on it as long as before, or longer.                 *)
LEMMA ExpireInv ==
  ASSUME Timely, IndInv, TypeOK', NEW e \in Entries, Expire(e)
  PROVE  IndInv'
<1> USE EntriesAssumption, ClockAssumption DEF IndInv
<1>1. Consistent'
  BY DEF Expire, Consistent, TypeOK, Usd
<1>2. \A f \in Entries : Missed(f)' = Missed(f) /\ MissedDecided(f)' = MissedDecided(f)
  BY DEF Expire, Missed, MissedDecided, Held, Queued, Open, Of, TypeOK
<1>3. KeysNotCut
  BY DEF Expire, KeysNotCut, TypeOK, Lives, SetExpiry, NoKey, NoExpiry
<1>4. KeysOutlive'
  <2>1. ASSUME NEW f \in Entries, f # e
        PROVE  OnTime(f)' /\ ReservedLives(f)' /\ QueuedLives(f)' /\ MissedLives(f)'
    BY <1>2, <1>3, <2>1, KeysKept DEF Expire, TypeOK
  <2>2. ttl'[StrategyOf[e]] = TTL
    BY DEF Expire, KeysOutlive, ReservedLives, SetExpiry, TypeOK
  <2>3. OnTime(e)' /\ ReservedLives(e)' /\ QueuedLives(e)' /\ MissedLives(e)'
    BY <2>2 DEF Expire, KeysOutlive, OnTime, ReservedLives, QueuedLives, MissedLives,
                Consistent, TypeOK, Lives, Routing, RouteSteps
  <2> QED
    BY <2>1, <2>3 DEF KeysOutlive
<1>5. InFlightCovered' /\ MissedCovered' /\ PassingFits'
  <2>1. \A s \in Strategies :
          /\ (Held(s) \cup Queued(s))' \subseteq Held(s) \cup Queued(s)
          /\ (Queued(s) \cup Open(s) \cup Passing(s))'
               \subseteq Queued(s) \cup Open(s) \cup Passing(s)
    BY DEF Expire, Held, Queued, Open, Passing, Of, TypeOK, Usd
  <2>2. \A f \in Entries : pc'[f] = "reserve" =>
          pc[f] = "reserve" /\ Missed(f)' \subseteq Missed(f)
    BY <1>2 DEF Expire, TypeOK
  <2>3. amt' = amt /\ pending' = pending
    BY DEF Expire
  <2> QED
    BY <2>1, <2>2, <2>3, SumsShrink
<1> QED
  BY <1>1, <1>4, <1>5

(* The budget check: what the exposure read missed is in the counter       *)
(* (MissedCovered), so an order that passes fits beside everything queued  *)
(* and open.                                                               *)
LEMMA AcceptInv ==
  ASSUME Timely, IndInv, TypeOK', NEW e \in Entries, Accept(e)
  PROVE  IndInv'
<1> USE EntriesAssumption, ClockAssumption DEF IndInv
<1>1. Consistent'
  <2>1. /\ Usd(seen[e]) \in Nat
        /\ Cap[StrategyOf[e]] \in Nat
        /\ total[e] \in Int
        /\ amt[e] \in Int
    <3>1. seen[e] \in SUBSET Entries
      BY DEF TypeOK
    <3>2. Usd(seen[e]) \in Nat
      BY <3>1, AmountsNat, SumFacts DEF Usd
    <3> QED
      BY <3>2, AmountsAssumption DEF TypeOK
  <2>2. Usd(seen[e]) + total[e] <= Cap[StrategyOf[e]]
    BY <2>1, AmountsAssumption DEF Accept, WithinBudget, NonNeg
  <2> QED
    BY <2>2 DEF Accept, Consistent, TypeOK, Usd
<1>2. \A f \in Entries : f # e =>
        Missed(f)' \subseteq Missed(f) /\ MissedDecided(f)' \subseteq MissedDecided(f)
  BY DEF Accept, Missed, MissedDecided, Held, Queued, Open, Of, TypeOK, Consistent
<1>3. KeysNotCut
  BY DEF Accept, KeysNotCut
<1>4. KeysOutlive'
  <2>1. ASSUME NEW f \in Entries, f # e
        PROVE  OnTime(f)' /\ ReservedLives(f)' /\ QueuedLives(f)' /\ MissedLives(f)'
    BY <1>2, <1>3, <2>1, KeysKept DEF Accept, TypeOK
  <2>2. OnTime(e)' /\ ReservedLives(e)' /\ QueuedLives(e)' /\ MissedLives(e)'
    BY DEF Accept, KeysOutlive, OnTime, ReservedLives, QueuedLives, MissedLives,
           Consistent, TypeOK, Routing, RouteSteps
  <2> QED
    BY <2>1, <2>2 DEF KeysOutlive
<1>5. InFlightCovered' /\ MissedCovered' /\ PassingFits'
  <2>1. \A s \in Strategies :
          /\ (Held(s) \cup Queued(s))' \subseteq Held(s) \cup Queued(s)
          /\ (Queued(s) \cup Open(s) \cup Passing(s))'
               \subseteq Queued(s) \cup Open(s) \cup Passing(s)
    BY DEF Accept, Held, Queued, Open, Passing, Of, TypeOK, Usd, Consistent
  <2>2. \A f \in Entries : pc'[f] = "reserve" =>
          pc[f] = "reserve" /\ Missed(f)' \subseteq Missed(f)
    BY <1>2 DEF Accept, TypeOK, Consistent, Missed, Held, Queued, Open, Of
  <2>3. amt' = amt /\ pending' = pending
    BY DEF Accept
  <2> QED
    BY <2>1, <2>2, <2>3, SumsShrink
<1> QED
  BY <1>1, <1>4, <1>5

(* An order sized to nothing leaves without touching the counter.          *)
LEMMA SkipZeroNotionalInv ==
  ASSUME Timely, IndInv, TypeOK', NEW e \in Entries, SkipZeroNotional(e)
  PROVE  IndInv'
<1> USE EntriesAssumption, ClockAssumption DEF IndInv
<1>1. Consistent'
  BY AmountsAssumption DEF SkipZeroNotional, Return, Consistent, TypeOK, Usd
<1>2. \A f \in Entries : f # e =>
        Missed(f)' \subseteq Missed(f) /\ MissedDecided(f)' \subseteq MissedDecided(f)
  BY DEF SkipZeroNotional, Return, Missed, MissedDecided, Held, Queued, Open, Of, TypeOK, Consistent
<1>3. KeysNotCut
  BY DEF SkipZeroNotional, Return, KeysNotCut
<1>4. KeysOutlive'
  <2>1. ASSUME NEW f \in Entries, f # e
        PROVE  OnTime(f)' /\ ReservedLives(f)' /\ QueuedLives(f)' /\ MissedLives(f)'
    BY <1>2, <1>3, <2>1, KeysKept DEF SkipZeroNotional, Return, TypeOK
  <2>2. OnTime(e)' /\ ReservedLives(e)' /\ QueuedLives(e)' /\ MissedLives(e)'
    BY DEF SkipZeroNotional, Return, KeysOutlive, OnTime, ReservedLives, QueuedLives, MissedLives,
           Consistent, TypeOK, Routing, RouteSteps
  <2> QED
    BY <2>1, <2>2 DEF KeysOutlive
<1>5. InFlightCovered' /\ MissedCovered' /\ PassingFits'
  <2>1. \A s \in Strategies :
          /\ (Held(s) \cup Queued(s))' \subseteq Held(s) \cup Queued(s)
          /\ (Queued(s) \cup Open(s) \cup Passing(s))'
               \subseteq Queued(s) \cup Open(s) \cup Passing(s)
    BY DEF SkipZeroNotional, Return, Held, Queued, Open, Passing, Of, TypeOK, Usd, Consistent
  <2>2. \A f \in Entries : pc'[f] = "reserve" =>
          pc[f] = "reserve" /\ Missed(f)' \subseteq Missed(f)
    BY <1>2 DEF SkipZeroNotional, Return, TypeOK, Consistent, Missed, Held, Queued, Open, Of
  <2>3. amt' = amt /\ pending' = pending
    BY DEF SkipZeroNotional, Return
  <2> QED
    BY <2>1, <2>2, <2>3, SumsShrink
<1> QED
  BY <1>1, <1>4, <1>5

(* A rejected order keeps its reservation until the release.               *)
LEMMA RejectInv ==
  ASSUME Timely, IndInv, TypeOK', NEW e \in Entries, Reject(e)
  PROVE  IndInv'
<1> USE EntriesAssumption, ClockAssumption DEF IndInv
<1>1. Consistent'
  BY AmountsAssumption DEF Reject, Consistent, TypeOK, Usd
<1>2. \A f \in Entries : f # e =>
        Missed(f)' \subseteq Missed(f) /\ MissedDecided(f)' \subseteq MissedDecided(f)
  BY DEF Reject, Missed, MissedDecided, Held, Queued, Open, Of, TypeOK, Consistent
<1>3. KeysNotCut
  BY DEF Reject, KeysNotCut
<1>4. KeysOutlive'
  <2>1. ASSUME NEW f \in Entries, f # e
        PROVE  OnTime(f)' /\ ReservedLives(f)' /\ QueuedLives(f)' /\ MissedLives(f)'
    BY <1>2, <1>3, <2>1, KeysKept DEF Reject, TypeOK
  <2>2. OnTime(e)' /\ ReservedLives(e)' /\ QueuedLives(e)' /\ MissedLives(e)'
    BY DEF Reject, KeysOutlive, OnTime, ReservedLives, QueuedLives, MissedLives,
           Consistent, TypeOK, Routing, RouteSteps
  <2> QED
    BY <2>1, <2>2 DEF KeysOutlive
<1>5. InFlightCovered' /\ MissedCovered' /\ PassingFits'
  <2>1. \A s \in Strategies :
          /\ (Held(s) \cup Queued(s))' \subseteq Held(s) \cup Queued(s)
          /\ (Queued(s) \cup Open(s) \cup Passing(s))'
               \subseteq Queued(s) \cup Open(s) \cup Passing(s)
    BY DEF Reject, Held, Queued, Open, Passing, Of, TypeOK, Usd, Consistent
  <2>2. \A f \in Entries : pc'[f] = "reserve" =>
          pc[f] = "reserve" /\ Missed(f)' \subseteq Missed(f)
    BY <1>2 DEF Reject, TypeOK, Consistent, Missed, Held, Queued, Open, Of
  <2>3. amt' = amt /\ pending' = pending
    BY DEF Reject
  <2> QED
    BY <2>1, <2>2, <2>3, SumsShrink
<1> QED
  BY <1>1, <1>4, <1>5

(* The row of a rejected order carries no amount.                          *)
LEMMA InsertRejectedInv ==
  ASSUME Timely, IndInv, TypeOK', NEW e \in Entries, InsertRejected(e)
  PROVE  IndInv'
<1> USE EntriesAssumption, ClockAssumption DEF IndInv
<1>1. Consistent'
  BY AmountsAssumption DEF InsertRejected, InsertAs, Return, Consistent, TypeOK, Usd
<1>2. \A f \in Entries : f # e =>
        Missed(f)' \subseteq Missed(f) /\ MissedDecided(f)' \subseteq MissedDecided(f)
  BY DEF InsertRejected, InsertAs, Return, Missed, MissedDecided, Held, Queued, Open, Of, TypeOK, Consistent
<1>3. KeysNotCut
  BY DEF InsertRejected, InsertAs, Return, KeysNotCut
<1>4. KeysOutlive'
  <2>1. ASSUME NEW f \in Entries, f # e
        PROVE  OnTime(f)' /\ ReservedLives(f)' /\ QueuedLives(f)' /\ MissedLives(f)'
    BY <1>2, <1>3, <2>1, KeysKept DEF InsertRejected, InsertAs, Return, TypeOK
  <2>2. OnTime(e)' /\ ReservedLives(e)' /\ QueuedLives(e)' /\ MissedLives(e)'
    BY DEF InsertRejected, InsertAs, Return, KeysOutlive, OnTime, ReservedLives, QueuedLives, MissedLives,
           Consistent, TypeOK, Routing, RouteSteps
  <2> QED
    BY <2>1, <2>2 DEF KeysOutlive
<1>5. InFlightCovered' /\ MissedCovered' /\ PassingFits'
  <2>1. \A s \in Strategies :
          /\ (Held(s) \cup Queued(s))' \subseteq Held(s) \cup Queued(s)
          /\ (Queued(s) \cup Open(s) \cup Passing(s))'
               \subseteq Queued(s) \cup Open(s) \cup Passing(s)
    BY DEF InsertRejected, InsertAs, Return, Held, Queued, Open, Passing, Of, TypeOK, Usd, Consistent
  <2>2. \A f \in Entries : pc'[f] = "reserve" =>
          pc[f] = "reserve" /\ Missed(f)' \subseteq Missed(f)
    BY <1>2 DEF InsertRejected, InsertAs, Return, TypeOK, Consistent, Missed, Held, Queued, Open, Of
  <2>3. amt' = amt /\ pending' = pending
    BY DEF InsertRejected, InsertAs, Return
  <2> QED
    BY <2>1, <2>2, <2>3, SumsShrink
<1> QED
  BY <1>1, <1>4, <1>5

(* A handler that dies leaves its reservation behind; the counter only     *)
(* covers more than it must.                                               *)
LEMMA AbandonInv ==
  ASSUME Timely, IndInv, TypeOK', NEW e \in Entries, Abandon(e)
  PROVE  IndInv'
<1> USE EntriesAssumption, ClockAssumption DEF IndInv
<1>1. Consistent'
  BY AmountsAssumption DEF Abandon, Return, Routing, RouteSteps, Consistent, TypeOK, Usd
<1>2. \A f \in Entries : f # e =>
        Missed(f)' \subseteq Missed(f) /\ MissedDecided(f)' \subseteq MissedDecided(f)
  BY DEF Abandon, Return, Routing, RouteSteps, Missed, MissedDecided, Held, Queued, Open, Of, TypeOK, Consistent
<1>3. KeysNotCut
  BY DEF Abandon, Return, Routing, RouteSteps, KeysNotCut
<1>4. KeysOutlive'
  <2>1. ASSUME NEW f \in Entries, f # e
        PROVE  OnTime(f)' /\ ReservedLives(f)' /\ QueuedLives(f)' /\ MissedLives(f)'
    BY <1>2, <1>3, <2>1, KeysKept DEF Abandon, Return, Routing, RouteSteps, TypeOK
  <2>2. OnTime(e)' /\ ReservedLives(e)' /\ QueuedLives(e)' /\ MissedLives(e)'
    BY DEF Abandon, Return, Routing, RouteSteps, KeysOutlive, OnTime, ReservedLives, QueuedLives, MissedLives,
           Consistent, TypeOK, Routing, RouteSteps
  <2> QED
    BY <2>1, <2>2 DEF KeysOutlive
<1>5. InFlightCovered' /\ MissedCovered' /\ PassingFits'
  <2>1. \A s \in Strategies :
          /\ (Held(s) \cup Queued(s))' \subseteq Held(s) \cup Queued(s)
          /\ (Queued(s) \cup Open(s) \cup Passing(s))'
               \subseteq Queued(s) \cup Open(s) \cup Passing(s)
    BY DEF Abandon, Return, Routing, RouteSteps, Held, Queued, Open, Passing, Of, TypeOK, Usd, Consistent
  <2>2. \A f \in Entries : pc'[f] = "reserve" =>
          pc[f] = "reserve" /\ Missed(f)' \subseteq Missed(f)
    BY <1>2 DEF Abandon, Return, Routing, RouteSteps, TypeOK, Consistent, Missed, Held, Queued, Open, Of
  <2>3. amt' = amt /\ pending' = pending
    BY DEF Abandon, Return, Routing, RouteSteps
  <2> QED
    BY <2>1, <2>2, <2>3, SumsShrink
<1> QED
  BY <1>1, <1>4, <1>5

(* The next alpha finds its place empty: the rejected one was in none of   *)
(* the sums, and nobody has read it as a position.                         *)
LEMMA NextAlphaInv ==
  ASSUME Timely, IndInv, TypeOK', NEW e \in Entries, NextAlpha(e)
  PROVE  IndInv'
<1> USE EntriesAssumption, ClockAssumption DEF IndInv
<1>1. Consistent'
  BY AmountsAssumption DEF NextAlpha, Consistent, TypeOK, Usd
<1>2. \A f \in Entries : f # e =>
        Missed(f)' \subseteq Missed(f) /\ MissedDecided(f)' \subseteq MissedDecided(f)
  BY DEF NextAlpha, Missed, MissedDecided, Held, Queued, Open, Of, TypeOK
<1>3. KeysNotCut
  BY DEF NextAlpha, KeysNotCut
<1>4. KeysOutlive'
  <2>1. ASSUME NEW f \in Entries, f # e
        PROVE  OnTime(f)' /\ ReservedLives(f)' /\ QueuedLives(f)' /\ MissedLives(f)'
    BY <1>2, <1>3, <2>1, KeysKept DEF NextAlpha, TypeOK
  <2>2. OnTime(e)' /\ ReservedLives(e)' /\ QueuedLives(e)' /\ MissedLives(e)'
    BY DEF NextAlpha, OnTime, ReservedLives, QueuedLives, MissedLives, TypeOK, Routing,
           RouteSteps
  <2> QED
    BY <2>1, <2>2 DEF KeysOutlive
<1>5. InFlightCovered' /\ MissedCovered' /\ PassingFits'
  <2>1. \A s \in Strategies :
          /\ (Held(s) \cup Queued(s))' \subseteq Held(s) \cup Queued(s)
          /\ (Queued(s) \cup Open(s) \cup Passing(s))'
               \subseteq Queued(s) \cup Open(s) \cup Passing(s)
    BY DEF NextAlpha, Held, Queued, Open, Passing, Of, TypeOK, Usd
  <2>2. \A f \in Entries : pc'[f] = "reserve" =>
          pc[f] = "reserve" /\ Missed(f)' \subseteq Missed(f)
    BY <1>2 DEF NextAlpha, TypeOK
  <2>3. amt' = amt /\ pending' = pending
    BY DEF NextAlpha
  <2> QED
    BY <2>1, <2>2, <2>3, SumsShrink
<1> QED
  BY <1>1, <1>4, <1>5

(* A queued order becomes a position: whoever read the exposure before     *)
(* misses it, and finds it in the counter.                                 *)
LEMMA SettleInv ==
  ASSUME Timely, IndInv, TypeOK', NEW e \in Entries, Settle(e)
  PROVE  IndInv'
<1> USE EntriesAssumption, ClockAssumption DEF IndInv
<1>1. Consistent'
  BY AmountsAssumption DEF Settle, Consistent, TypeOK, Usd
<1>2. \A f \in Entries : f # e =>
        Missed(f)' \subseteq Missed(f) /\ MissedDecided(f)' \subseteq MissedDecided(f)
  BY DEF Settle, Missed, MissedDecided, Held, Queued, Open, Of, TypeOK, Consistent
<1>3. KeysNotCut
  BY DEF Settle, KeysNotCut
<1>4. KeysOutlive'
  <2>1. ASSUME NEW f \in Entries, f # e
        PROVE  OnTime(f)' /\ ReservedLives(f)' /\ QueuedLives(f)' /\ MissedLives(f)'
    BY <1>2, <1>3, <2>1, KeysKept DEF Settle, TypeOK
  <2>2. OnTime(e)' /\ ReservedLives(e)' /\ QueuedLives(e)' /\ MissedLives(e)'
    BY DEF Settle, KeysOutlive, OnTime, ReservedLives, QueuedLives, MissedLives,
           Consistent, TypeOK, Routing, RouteSteps
  <2> QED
    BY <2>1, <2>2 DEF KeysOutlive
<1>5. InFlightCovered' /\ MissedCovered' /\ PassingFits'
  <2>1. \A s \in Strategies :
          /\ (Held(s) \cup Queued(s))' \subseteq Held(s) \cup Queued(s)
          /\ (Queued(s) \cup Open(s) \cup Passing(s))'
               \subseteq Queued(s) \cup Open(s) \cup Passing(s)
    BY DEF Settle, Held, Queued, Open, Passing, Of, TypeOK, Usd, Consistent
  <2>2. \A f \in Entries : pc'[f] = "reserve" =>
          pc[f] = "reserve" /\ Missed(f)' \subseteq Missed(f)
    BY <1>2 DEF Settle, TypeOK, Consistent, Missed, Held, Queued, Open, Of
  <2>3. amt' = amt /\ pending' = pending
    BY DEF Settle
  <2> QED
    BY <2>1, <2>2, <2>3, SumsShrink
<1> QED
  BY <1>1, <1>4, <1>5

(* A queued order that the venue refuses frees what it held.               *)
LEMMA RefuseInv ==
  ASSUME Timely, IndInv, TypeOK', NEW e \in Entries, Refuse(e)
  PROVE  IndInv'
<1> USE EntriesAssumption, ClockAssumption DEF IndInv
<1>1. Consistent'
  BY AmountsAssumption DEF Refuse, Consistent, TypeOK, Usd
<1>2. \A f \in Entries : f # e =>
        Missed(f)' \subseteq Missed(f) /\ MissedDecided(f)' \subseteq MissedDecided(f)
  BY DEF Refuse, Missed, MissedDecided, Held, Queued, Open, Of, TypeOK, Consistent
<1>3. KeysNotCut
  BY DEF Refuse, KeysNotCut
<1>4. KeysOutlive'
  <2>1. ASSUME NEW f \in Entries, f # e
        PROVE  OnTime(f)' /\ ReservedLives(f)' /\ QueuedLives(f)' /\ MissedLives(f)'
    BY <1>2, <1>3, <2>1, KeysKept DEF Refuse, TypeOK
  <2>2. OnTime(e)' /\ ReservedLives(e)' /\ QueuedLives(e)' /\ MissedLives(e)'
    BY DEF Refuse, KeysOutlive, OnTime, ReservedLives, QueuedLives, MissedLives,
           Consistent, TypeOK, Routing, RouteSteps
  <2> QED
    BY <2>1, <2>2 DEF KeysOutlive
<1>5. InFlightCovered' /\ MissedCovered' /\ PassingFits'
  <2>1. \A s \in Strategies :
          /\ (Held(s) \cup Queued(s))' \subseteq Held(s) \cup Queued(s)
          /\ (Queued(s) \cup Open(s) \cup Passing(s))'
               \subseteq Queued(s) \cup Open(s) \cup Passing(s)
    BY DEF Refuse, Held, Queued, Open, Passing, Of, TypeOK, Usd, Consistent
  <2>2. \A f \in Entries : pc'[f] = "reserve" =>
          pc[f] = "reserve" /\ Missed(f)' \subseteq Missed(f)
    BY <1>2 DEF Refuse, TypeOK, Consistent, Missed, Held, Queued, Open, Of
  <2>3. amt' = amt /\ pending' = pending
    BY DEF Refuse
  <2> QED
    BY <2>1, <2>2, <2>3, SumsShrink
<1> QED
  BY <1>1, <1>4, <1>5

(* A position that closes frees what it held.                              *)
LEMMA CloseInv ==
  ASSUME Timely, IndInv, TypeOK', NEW e \in Entries, Close(e)
  PROVE  IndInv'
<1> USE EntriesAssumption, ClockAssumption DEF IndInv
<1>1. Consistent'
  BY AmountsAssumption DEF Close, Consistent, TypeOK, Usd
<1>2. \A f \in Entries : f # e =>
        Missed(f)' \subseteq Missed(f) /\ MissedDecided(f)' \subseteq MissedDecided(f)
  BY DEF Close, Missed, MissedDecided, Held, Queued, Open, Of, TypeOK, Consistent
<1>3. KeysNotCut
  BY DEF Close, KeysNotCut
<1>4. KeysOutlive'
  <2>1. ASSUME NEW f \in Entries, f # e
        PROVE  OnTime(f)' /\ ReservedLives(f)' /\ QueuedLives(f)' /\ MissedLives(f)'
    BY <1>2, <1>3, <2>1, KeysKept DEF Close, TypeOK
  <2>2. OnTime(e)' /\ ReservedLives(e)' /\ QueuedLives(e)' /\ MissedLives(e)'
    BY DEF Close, KeysOutlive, OnTime, ReservedLives, QueuedLives, MissedLives,
           Consistent, TypeOK, Routing, RouteSteps
  <2> QED
    BY <2>1, <2>2 DEF KeysOutlive
<1>5. InFlightCovered' /\ MissedCovered' /\ PassingFits'
  <2>1. \A s \in Strategies :
          /\ (Held(s) \cup Queued(s))' \subseteq Held(s) \cup Queued(s)
          /\ (Queued(s) \cup Open(s) \cup Passing(s))'
               \subseteq Queued(s) \cup Open(s) \cup Passing(s)
    BY DEF Close, Held, Queued, Open, Passing, Of, TypeOK, Usd, Consistent
  <2>2. \A f \in Entries : pc'[f] = "reserve" =>
          pc[f] = "reserve" /\ Missed(f)' \subseteq Missed(f)
    BY <1>2 DEF Close, TypeOK, Consistent, Missed, Held, Queued, Open, Of
  <2>3. amt' = amt /\ pending' = pending
    BY DEF Close
  <2> QED
    BY <2>1, <2>2, <2>3, SumsShrink
<1> QED
  BY <1>1, <1>4, <1>5


(* An accepted order is queued with the amount it was checked for; a       *)
(* second entry of an alpha queues nothing.                                *)
LEMMA InsertQueuedInv ==
  ASSUME Timely, IndInv, TypeOK', NEW e \in Entries, InsertQueued(e)
  PROVE  IndInv'
<1> USE EntriesAssumption, ClockAssumption DEF IndInv
<1>1. Consistent'
  BY DEF InsertQueued, InsertAs, Return, Consistent, TypeOK, Usd
<1>2. \A f \in Entries : f # e =>
        /\ Missed(f)' \subseteq Missed(f)
        /\ MissedDecided(f)' \subseteq MissedDecided(f) \cup {e}
        /\ e \in MissedDecided(f)' => StrategyOf[f] = StrategyOf[e]
  BY DEF InsertQueued, InsertAs, Return, Missed, MissedDecided, Held, Queued, Open,
         Of, TypeOK, Consistent
<1>3. KeysNotCut
  BY DEF InsertQueued, InsertAs, Return, KeysNotCut
<1>4. /\ age[e] \in Nat /\ age[e] <= RouteMax
      /\ Lives(ttl[StrategyOf[e]], TTL - age[e])
  BY DEF InsertQueued, KeysOutlive, OnTime, ReservedLives, Consistent, TypeOK,
         Routing, RouteSteps
<1>5. /\ pc' = [pc EXCEPT ![e] = "done"] /\ age' = [age EXCEPT ![e] = 0]
      /\ ttl' = ttl /\ amt' = amt /\ pending' = pending
  BY DEF InsertQueued, InsertAs, Return
<1>6. ASSUME NEW n \in Int, n <= TTL - RouteMax
      PROVE  Lives(ttl'[StrategyOf[e]], n)
  <2>1. ttl[StrategyOf[e]] \in Int
    BY DEF TypeOK, NoKey, NoExpiry
  <2> QED
    BY <1>4, <1>5, <1>6, <2>1 DEF Lives
<1>7. KeysOutlive'
  <2>1. ASSUME NEW f \in Entries, f # e, MissedDecided(f)' \subseteq MissedDecided(f)
        PROVE  OnTime(f)' /\ ReservedLives(f)' /\ QueuedLives(f)' /\ MissedLives(f)'
    BY <1>3, <2>1, KeysKept DEF InsertQueued, InsertAs, Return, TypeOK
  <2>2. ASSUME NEW f \in Entries, f # e, ~(MissedDecided(f)' \subseteq MissedDecided(f))
        PROVE  OnTime(f)' /\ ReservedLives(f)' /\ QueuedLives(f)' /\ MissedLives(f)'
    <3>1. StrategyOf[f] = StrategyOf[e] /\ age[f] \in Nat
      BY <1>2, <2>2 DEF TypeOK
    <3>2. Lives(ttl'[StrategyOf[f]], TTL - RouteMax - SettleMax - age[f])
      BY <1>6, <3>1
    <3>3. /\ pc'[f] = pc[f] /\ age'[f] = age[f] /\ intent'[f] = intent[f]
      BY <2>2 DEF InsertQueued, InsertAs, Return, TypeOK
    <3>4. MissedLives(f)'
      BY <3>2, <3>3 DEF MissedLives
    <3>5. OnTime(f) /\ ReservedLives(f) /\ QueuedLives(f)
      BY DEF KeysOutlive
    <3>6. OnTime(f)' /\ ReservedLives(f)' /\ QueuedLives(f)'
      BY <1>5, <3>3, <3>5 DEF OnTime, ReservedLives, QueuedLives, Routing
    <3> QED
      BY <3>4, <3>6
  <2>3. OnTime(e)' /\ ReservedLives(e)' /\ MissedLives(e)'
    BY <1>5 DEF OnTime, ReservedLives, MissedLives, TypeOK, Routing, RouteSteps
  <2>4. QueuedLives(e)'
    <3>1. TTL - RouteMax - age'[e] \in Int /\ TTL - RouteMax - age'[e] <= TTL - RouteMax
      BY <1>5 DEF TypeOK
    <3> QED
      BY <1>6, <3>1 DEF QueuedLives
  <2> QED
    BY <2>1, <2>2, <2>3, <2>4 DEF KeysOutlive
<1>8. InFlightCovered' /\ MissedCovered' /\ PassingFits'
  <2>1. \A s \in Strategies :
          /\ (Held(s) \cup Queued(s))' \subseteq Held(s) \cup Queued(s)
          /\ (Queued(s) \cup Open(s) \cup Passing(s))'
               \subseteq Queued(s) \cup Open(s) \cup Passing(s)
    BY DEF InsertQueued, InsertAs, Return, Held, Queued, Open, Passing, Of, TypeOK, Usd,
           Consistent
  <2>2. \A f \in Entries : pc'[f] = "reserve" =>
          pc[f] = "reserve" /\ Missed(f)' \subseteq Missed(f)
    BY <1>2, <1>5 DEF TypeOK
  <2> QED
    BY <1>5, <2>1, <2>2, SumsShrink
<1> QED
  BY <1>1, <1>7, <1>8

(* A new exposure read misses what is decided or being decided at that     *)
(* moment, all of it young enough for its key to outlive the read.         *)
LEMMA ReadExposureInv ==
  ASSUME Timely, IndInv, TypeOK', NEW e \in Entries, ReadExposure(e)
  PROVE  IndInv'
<1> USE EntriesAssumption, ClockAssumption DEF IndInv
<1> DEFINE sg == StrategyOf[e]
<1>1. /\ pc[e] = "new" /\ intent[e] = "none" /\ age[e] = 0 /\ total[e] = 0
      /\ pc' = [pc EXCEPT ![e] = IF amt'[e] > 0 THEN "reserve" ELSE "evaluate"]
      /\ seen' = [seen EXCEPT ![e] = Open(sg)]
      /\ amt' = [amt EXCEPT ![e] = amt'[e]]
      /\ UNCHANGED <<intent, total, age, pending, ttl>>
      /\ amt'[e] \in 0..MaxUsd
  BY DEF ReadExposure, Consistent, TypeOK
<1>2. ASSUME NEW S \in SUBSET Entries, e \notin S
      PROVE  SumFunctionOnSet(amt', S) = SumFunctionOnSet(amt, S)
  <2>1. amt \in [Entries -> 0..MaxUsd]
    BY DEF TypeOK
  <2>2. SumFunctionOnSet([amt EXCEPT ![e] = amt'[e]], S) = SumFunctionOnSet(amt, S)
    BY <1>2, <2>1, SumExcept
  <2> QED
    BY <1>1, <2>2
<1>3. \A f \in Entries : e \notin seen[f]
  BY <1>1 DEF Consistent
<1>4. Consistent'
  <2>1. ASSUME NEW f \in Entries, f # e PROVE SumFunctionOnSet(amt', seen'[f]) = Usd(seen[f])
    BY <1>1, <1>2, <1>3, <2>1 DEF TypeOK, Usd
  <2> QED
    BY <1>1, <2>1, AmountsAssumption DEF Consistent, TypeOK, Usd, Open, Of
<1>5. \A s \in Strategies :
        /\ Held(s)' = Held(s) /\ Queued(s)' = Queued(s) /\ Open(s)' = Open(s)
        /\ e \notin Held(s) /\ e \notin Queued(s) /\ e \notin Open(s)
  BY <1>1 DEF Held, Queued, Open, Of, TypeOK
<1>6. \A f \in Entries : f # e =>
        /\ Missed(f)' = Missed(f) /\ e \notin Missed(f)
        /\ MissedDecided(f)' = MissedDecided(f)
  BY <1>1, <1>5 DEF Missed, MissedDecided, TypeOK
<1>7. Missed(e)' \subseteq Held(sg) \cup Queued(sg) /\ MissedDecided(e)' \subseteq Queued(sg)
  BY <1>1, <1>5 DEF Missed, MissedDecided, TypeOK
<1>8. KeysOutlive'
  <2>1. KeysNotCut
    BY <1>1 DEF KeysNotCut
  <2>2. ASSUME NEW f \in Entries, f # e
        PROVE  OnTime(f)' /\ ReservedLives(f)' /\ QueuedLives(f)' /\ MissedLives(f)'
    BY <1>1, <1>6, <2>1, <2>2, KeysKept DEF TypeOK
  <2>3. OnTime(e)' /\ ReservedLives(e)' /\ QueuedLives(e)'
    BY <1>1 DEF OnTime, ReservedLives, QueuedLives, TypeOK, Routing, RouteSteps
  <2>4. MissedLives(e)'
    <3>1. SUFFICES ASSUME NEW q \in Queued(sg)
                   PROVE  Lives(ttl[sg], TTL - RouteMax - SettleMax - age[e])
      BY <1>1, <1>7 DEF MissedLives
    <3>2. /\ q \in Entries /\ StrategyOf[q] = sg
          /\ age[q] \in Nat /\ age[q] <= SettleMax
          /\ Lives(ttl[sg], TTL - RouteMax - age[q])
      BY DEF Queued, Of, KeysOutlive, OnTime, QueuedLives, TypeOK
    <3>3. ttl[sg] \in Int
      BY DEF TypeOK, NoKey, NoExpiry
    <3> QED
      BY <1>1, <3>2, <3>3 DEF Lives
  <2> QED
    BY <2>2, <2>3, <2>4 DEF KeysOutlive
<1>9. InFlightCovered'
  <2> SUFFICES ASSUME NEW s \in Strategies
               PROVE  SumFunctionOnSet(amt', (Held(s) \cup Queued(s))') <= pending'[s]
    BY DEF InFlightCovered, Usd
  <2>1. SumFunctionOnSet(amt', Held(s) \cup Queued(s)) = Usd(Held(s) \cup Queued(s))
    BY <1>2, <1>5, SetsOfEntries DEF Usd
  <2> QED
    BY <1>1, <1>5, <2>1 DEF InFlightCovered
<1>10. MissedCovered'
  <2> SUFFICES ASSUME NEW f \in Entries, pc'[f] = "reserve"
               PROVE  SumFunctionOnSet(amt', Missed(f)') <= pending[StrategyOf[f]]
    BY <1>1 DEF MissedCovered, Usd
  <2>1. CASE f # e
    <3>1. SumFunctionOnSet(amt', Missed(f)) = Usd(Missed(f))
      BY <1>2, <1>6, <2>1, SetsOfEntries DEF Usd, Missed
    <3> QED
      BY <1>1, <1>6, <2>1, <3>1 DEF MissedCovered, TypeOK
  <2>2. CASE f = e
    <3> DEFINE X == Held(sg) \cup Queued(sg)
               Y == Missed(e)'
    <3>1. X \in SUBSET Entries /\ Y \in SUBSET Entries /\ Y \subseteq X /\ e \notin X
      BY <1>5, <1>7, SetsOfEntries
    <3>2. Usd(X) <= pending[sg] /\ pending[sg] \in Int
      BY DEF InFlightCovered, TypeOK
    <3> HIDE DEF X, Y
    <3>3. /\ SumFunctionOnSet(amt', Y) <= SumFunctionOnSet(amt', X)
          /\ SumFunctionOnSet(amt', Y) \in Nat
          /\ SumFunctionOnSet(amt', X) \in Nat
      BY <3>1, AmountsNat, SumFacts
    <3>4. SumFunctionOnSet(amt', X) = Usd(X)
      BY <1>2, <3>1 DEF Usd
    <3>5. SumFunctionOnSet(amt', Y) <= pending[sg]
      BY <3>2, <3>3, <3>4
    <3> QED
      BY <2>2, <3>5 DEF Y
  <2> QED
    BY <2>1, <2>2
<1>11. PassingFits'
  <2> SUFFICES ASSUME NEW s \in Strategies
               PROVE  SumFunctionOnSet(amt', (Queued(s) \cup Open(s) \cup Passing(s))') <= Cap[s]
    BY DEF PassingFits, Usd
  <2>1. ASSUME NEW f \in Entries, f # e PROVE SumFunctionOnSet(amt', seen'[f]) = Usd(seen[f])
    BY <1>1, <1>2, <1>3, <2>1 DEF TypeOK, Usd
  <2>2. Passing(s)' = Passing(s) /\ e \notin Passing(s)
    BY <1>1, <2>1 DEF Passing, Of, TypeOK, Usd
  <2> DEFINE X == Queued(s) \cup Open(s) \cup Passing(s)
  <2>3. (Queued(s) \cup Open(s) \cup Passing(s))' = X /\ X \in SUBSET Entries /\ e \notin X
    BY <1>5, <2>2, SetsOfEntries
  <2>4. SumFunctionOnSet(amt, X) <= Cap[s]
    BY DEF PassingFits, Usd
  <2> HIDE DEF X
  <2>5. SumFunctionOnSet(amt', X) = SumFunctionOnSet(amt, X)
    BY <1>2, <2>3
  <2> QED
    BY <2>3, <2>4, <2>5
<1> QED
  BY <1>4, <1>8, <1>9, <1>10, <1>11


(* The step the whole control rests on: the total that INCRBYFLOAT returns *)
(* counts every order the exposure read missed, so an order that passes    *)
(* with it fits beside all of them.                                        *)
LEMMA ReserveInv ==
  ASSUME Timely, IndInv, TypeOK', NEW e \in Entries, Reserve(e)
  PROVE  IndInv'
<1> USE EntriesAssumption, ClockAssumption DEF IndInv
<1> DEFINE sg == StrategyOf[e]
<1>1. /\ pc[e] = "reserve" /\ intent[e] = "none" /\ amt[e] > 0 /\ amt[e] \in Nat
      /\ sg \in Strategies
      /\ pc' = [pc EXCEPT ![e] = "expire"]
      /\ pending' = [pending EXCEPT ![sg] = pending[sg] + amt[e]]
      /\ total' = [total EXCEPT ![e] = pending[sg] + amt[e]]
      /\ UNCHANGED <<intent, amt, seen, age>>
  BY AmountsAssumption DEF Reserve, Increment, Consistent, TypeOK
<1>2. /\ KeysNotCut
      /\ ttl'[sg] # NoKey
  BY DEF Reserve, Increment, KeysNotCut, TypeOK, Lives, NoKey, NoExpiry
<1>3. /\ \A s \in Strategies : Usd(Held(s) \cup Queued(s)) \in Nat
      /\ pending[sg] \in Nat
  <2>1. ASSUME NEW s \in Strategies PROVE Usd(Held(s) \cup Queued(s)) \in Nat
    BY AmountsNat, SumFacts, SetsOfEntries DEF Usd
  <2>2. pending[sg] \in Int /\ Usd(Held(sg) \cup Queued(sg)) <= pending[sg]
    BY DEF TypeOK, InFlightCovered
  <2> QED
    BY <2>1, <2>2
<1>4. Consistent'
  BY <1>1, <1>3 DEF Consistent, TypeOK, Usd
<1>5. \A s \in Strategies :
        /\ Held(s)' = IF s = sg THEN Held(s) \cup {e} ELSE Held(s)
        /\ Queued(s)' = Queued(s) /\ Open(s)' = Open(s)
        /\ e \notin Held(s) /\ e \notin Queued(s) /\ e \notin Open(s)
  BY <1>1 DEF Held, Queued, Open, Of, TypeOK
<1>6. \A f \in Entries : f # e =>
        /\ Missed(f)' = IF StrategyOf[f] = sg THEN Missed(f) \cup {e} ELSE Missed(f)
        /\ e \notin Missed(f)
        /\ MissedDecided(f)' = MissedDecided(f)
  BY <1>1, <1>5 DEF Missed, MissedDecided, Consistent
<1>7. KeysOutlive'
  <2>1. ASSUME NEW f \in Entries, f # e
        PROVE  OnTime(f)' /\ ReservedLives(f)' /\ QueuedLives(f)' /\ MissedLives(f)'
    BY <1>1, <1>2, <1>6, <2>1, KeysKept DEF TypeOK
  <2>2. OnTime(e)' /\ ReservedLives(e)' /\ QueuedLives(e)' /\ MissedLives(e)'
    BY <1>1, <1>2 DEF KeysOutlive, OnTime, ReservedLives, QueuedLives, MissedLives,
                      TypeOK, Routing, RouteSteps
  <2> QED
    BY <2>1, <2>2 DEF KeysOutlive
<1>8. ASSUME NEW S \in SUBSET Entries, e \notin S
      PROVE  SumFunctionOnSet(amt, S \cup {e}) = Usd(S) + amt[e] /\ Usd(S) \in Nat
  <2>1. amt \in [Entries -> 0..MaxUsd]
    BY DEF TypeOK
  <2>2. SumFunctionOnSet(amt, S \cup {e}) = SumFunctionOnSet(amt, S) + amt[e]
    BY <1>8, <2>1, SumAdd
  <2>3. SumFunctionOnSet(amt, S) \in Nat
    BY AmountsNat, SumFacts
  <2> QED
    BY <2>2, <2>3 DEF Usd
<1>9. InFlightCovered'
  <2> SUFFICES ASSUME NEW s \in Strategies
               PROVE  SumFunctionOnSet(amt, (Held(s) \cup Queued(s))') <= pending'[s]
    BY <1>1 DEF InFlightCovered, Usd
  <2> DEFINE X == Held(s) \cup Queued(s)
  <2>1. X \in SUBSET Entries /\ e \notin X /\ Usd(X) <= pending[s] /\ pending[s] \in Int
    BY <1>5, SetsOfEntries DEF InFlightCovered, TypeOK
  <2>2. CASE s = sg
    <3>1. (Held(s) \cup Queued(s))' = X \cup {e}
      BY <1>5, <2>2
    <3>2. pending'[s] = pending[s] + amt[e]
      BY <1>1, <2>2 DEF TypeOK
    <3> HIDE DEF X
    <3>3. SumFunctionOnSet(amt, X \cup {e}) = Usd(X) + amt[e] /\ Usd(X) \in Nat
      BY <1>8, <2>1
    <3>4. Usd(X) + amt[e] <= pending[s] + amt[e]
      BY <1>1, <2>1, <3>3
    <3> QED
      BY <3>1, <3>2, <3>3, <3>4
  <2>3. CASE s # sg
    <3>1. (Held(s) \cup Queued(s))' = X
      BY <1>5, <2>3
    <3>2. pending'[s] = pending[s]
      BY <1>1, <2>3 DEF TypeOK
    <3>3. SumFunctionOnSet(amt, X) <= pending[s]
      BY <2>1 DEF Usd
    <3> HIDE DEF X
    <3> QED
      BY <3>1, <3>2, <3>3
  <2> QED
    BY <2>2, <2>3
<1>10. MissedCovered'
  <2> SUFFICES ASSUME NEW f \in Entries, pc'[f] = "reserve"
               PROVE  SumFunctionOnSet(amt, Missed(f)') <= pending'[StrategyOf[f]]
    BY <1>1 DEF MissedCovered, Usd
  <2>1. f # e /\ pc[f] = "reserve"
    BY <1>1 DEF TypeOK
  <2> DEFINE X == Missed(f)
  <2>2. /\ X \in SUBSET Entries /\ e \notin X
        /\ Usd(X) <= pending[StrategyOf[f]] /\ pending[StrategyOf[f]] \in Int
    BY <1>6, <2>1, SetsOfEntries DEF Missed, MissedCovered, TypeOK
  <2>3. CASE StrategyOf[f] = sg
    <3>1. Missed(f)' = X \cup {e} /\ pending'[StrategyOf[f]] = pending[StrategyOf[f]] + amt[e]
      BY <1>1, <1>6, <2>1, <2>3 DEF TypeOK
    <3> HIDE DEF X
    <3>2. SumFunctionOnSet(amt, X \cup {e}) = Usd(X) + amt[e] /\ Usd(X) \in Nat
      BY <1>8, <2>2
    <3> QED
      BY <1>1, <2>2, <3>1, <3>2
  <2>4. CASE StrategyOf[f] # sg
    <3>1. Missed(f)' = X /\ pending'[StrategyOf[f]] = pending[StrategyOf[f]]
      BY <1>1, <1>6, <2>1, <2>4 DEF TypeOK
    <3> QED
      BY <2>2, <3>1 DEF Usd
  <2> QED
    BY <2>3, <2>4
<1>11. PassingFits'
  <2> SUFFICES ASSUME NEW s \in Strategies
               PROVE  SumFunctionOnSet(amt, (Queued(s) \cup Open(s) \cup Passing(s))') <= Cap[s]
    BY <1>1 DEF PassingFits, Usd
  <2>0. Cap[s] \in Nat
    BY AmountsAssumption
  <2>1. Passing(s)' \ {e} = Passing(s)
    BY <1>1 DEF Passing, Of, TypeOK, Usd
  <2> DEFINE X == Queued(s) \cup Open(s) \cup Passing(s)
  <2>2. X \in SUBSET Entries /\ Usd(X) <= Cap[s]
    BY SetsOfEntries DEF PassingFits
  <2>3. CASE e \notin Passing(s)'
    <3>1. (Queued(s) \cup Open(s) \cup Passing(s))' = X
      BY <1>5, <2>1, <2>3
    <3> QED
      BY <2>2, <3>1 DEF Usd
  <2>4. CASE e \in Passing(s)'
    <3>1. s = sg /\ Usd(seen[e]) + pending[sg] + amt[e] <= Cap[s]
      <4>1. s = sg /\ Usd(seen[e])' = Usd(seen[e]) /\ Usd(seen[e]) + total'[e] <= Cap[s]
        BY <1>1, <2>4 DEF Passing, Of, Usd
      <4>2. total'[e] = pending[sg] + amt[e]
        BY <1>1 DEF TypeOK
      <4>3. Usd(seen[e]) \in Nat
        <5>1. seen[e] \in SUBSET Entries
          BY DEF TypeOK
        <5> QED
          BY <5>1, AmountsNat, SumFacts DEF Usd
      <4> QED
        BY <1>1, <1>3, <4>1, <4>2, <4>3
    <3> DEFINE M == Missed(e)
               R == seen[e]
               Y == (Queued(s) \cup Open(s) \cup Passing(s))'
    <3>2. /\ M \in SUBSET Entries /\ R \in SUBSET Entries
          /\ e \notin M /\ e \notin R
          /\ Usd(M) <= pending[sg]
      BY <1>1, <1>5, SetsOfEntries DEF Missed, MissedCovered, TypeOK, Consistent
    <3>3. Passing(s) \subseteq Held(s)
      BY DEF Passing, Held
    <3>4. Y \subseteq (M \cup R) \cup {e} /\ Y \in SUBSET Entries
      <4>1. Y \subseteq Queued(s) \cup Open(s) \cup Held(s) \cup {e}
        BY <1>5, <2>1, <3>3
      <4>2. Queued(s) \cup Open(s) \cup Held(s) \subseteq M \cup R
        BY <3>1 DEF Missed
      <4>3. Queued(s) \cup Open(s) \cup Held(s) \in SUBSET Entries
        BY SetsOfEntries
      <4> QED
        BY <4>1, <4>2, <4>3
    <3> HIDE DEF M, R, Y
    <3>5. Usd(M) \in Nat /\ Usd(R) \in Nat /\ Usd(M \cup R) <= Usd(M) + Usd(R)
      BY <3>2, AmountsNat, SumFacts DEF Usd
    <3>6. /\ M \cup R \in SUBSET Entries /\ e \notin M \cup R
          /\ (M \cup R) \cup {e} \in SUBSET Entries
      BY <3>2
    <3>7. /\ SumFunctionOnSet(amt, (M \cup R) \cup {e}) = Usd(M \cup R) + amt[e]
          /\ Usd(M \cup R) \in Nat
      BY <1>8, <3>6
    <3>8. /\ SumFunctionOnSet(amt, Y) <= SumFunctionOnSet(amt, (M \cup R) \cup {e})
          /\ SumFunctionOnSet(amt, Y) \in Nat
      BY <3>4, <3>6, AmountsNat, SumFacts
    <3>9. Usd(R) + pending[sg] + amt[e] <= Cap[s]
      BY <3>1 DEF R
    <3>10. SumFunctionOnSet(amt, Y) <= Cap[s]
      BY <1>1, <1>3, <2>0, <3>2, <3>5, <3>7, <3>8, <3>9
    <3> QED
      BY <3>10 DEF Y
  <2> QED
    BY <2>3, <2>4
<1> QED
  BY <1>4, <1>7, <1>9, <1>10, <1>11


(* The release takes back what this order reserved and nobody else's.      *)
LEMMA ReleaseInv ==
  ASSUME Timely, IndInv, TypeOK', NEW e \in Entries, Release(e)
  PROVE  IndInv'
<1> USE EntriesAssumption, ClockAssumption DEF IndInv
<1> DEFINE sg == StrategyOf[e]
<1>1. /\ pc[e] = "release" /\ intent[e] = "none" /\ amt[e] > 0 /\ amt[e] \in Nat
      /\ sg \in Strategies
      /\ pc' = [pc EXCEPT ![e] = "reject"]
      /\ amt' = [amt EXCEPT ![e] = 0]
      /\ pending' = [pending EXCEPT ![sg] = pending[sg] - amt[e]]
      /\ UNCHANGED <<intent, total, seen, age>>
  <2>1. sg \in Strategies /\ pending[sg] \in Int /\ amt[e] \in Nat
    BY AmountsAssumption DEF TypeOK
  <2>2. pending[sg] + (-amt[e]) = pending[sg] - amt[e]
    BY <2>1
  <2>3. pending' = [pending EXCEPT ![sg] = pending[sg] + (-amt[e])]
    BY DEF Release, Increment
  <2>4. pending' = [pending EXCEPT ![sg] = pending[sg] - amt[e]]
    BY <2>2, <2>3
  <2> QED
    BY <2>1, <2>4 DEF Release, Consistent
<1>2. KeysNotCut
  BY DEF Release, Increment, KeysNotCut, TypeOK, Lives, NoKey, NoExpiry
<1>3. ASSUME NEW S \in SUBSET Entries, e \notin S
      PROVE  /\ SumFunctionOnSet(amt', S) = Usd(S)
             /\ Usd(S \cup {e}) = Usd(S) + amt[e]
             /\ Usd(S) \in Nat
  <2>1. amt \in [Entries -> 0..MaxUsd]
    BY DEF TypeOK
  <2>2. SumFunctionOnSet([amt EXCEPT ![e] = 0], S) = SumFunctionOnSet(amt, S)
    BY <1>3, <2>1, SumExcept
  <2>3. SumFunctionOnSet(amt, S \cup {e}) = SumFunctionOnSet(amt, S) + amt[e]
    BY <1>3, <2>1, SumAdd
  <2>4. SumFunctionOnSet(amt, S) \in Nat
    BY AmountsNat, SumFacts
  <2> QED
    BY <1>1, <2>2, <2>3, <2>4 DEF Usd
<1>4. \A f \in Entries : e \notin seen[f]
  BY <1>1 DEF Consistent
<1>5. Consistent'
  <2>1. ASSUME NEW f \in Entries PROVE SumFunctionOnSet(amt', seen'[f]) = Usd(seen[f])
    BY <1>1, <1>3, <1>4 DEF TypeOK
  <2>2. \A f \in Entries :
          /\ pc'[f] = IF f = e THEN "reject" ELSE pc[f]
          /\ f # e => amt'[f] = amt[f]
          /\ intent'[f] = intent[f] /\ total'[f] = total[f]
          /\ seen'[f] = seen[f] /\ age'[f] = age[f]
          /\ Usd(seen[f])' = Usd(seen[f])
    BY <1>1, <2>1 DEF TypeOK, Usd
  <2>3. \A f \in Entries : \A g \in seen'[f] :
          StrategyOf[g] = StrategyOf[f] /\ intent'[g] \in {"open", "closed"}
    BY <1>1 DEF Consistent
  <2> QED
    BY <1>1, <2>2, <2>3 DEF Consistent
<1>6. \A s \in Strategies :
        /\ Held(s)' = Held(s) \ {e} /\ (e \in Held(s) <=> s = sg)
        /\ Queued(s)' = Queued(s) /\ Open(s)' = Open(s)
        /\ e \notin Queued(s) /\ e \notin Open(s)
  BY <1>1 DEF Held, Queued, Open, Of, TypeOK
<1>7. \A f \in Entries : f # e =>
        /\ Missed(f)' = Missed(f) \ {e}
        /\ e \in Missed(f) <=> StrategyOf[f] = sg
        /\ MissedDecided(f)' = MissedDecided(f)
  BY <1>1, <1>4, <1>6 DEF Missed, MissedDecided
<1>8. KeysOutlive'
  <2>1. ASSUME NEW f \in Entries, f # e
        PROVE  OnTime(f)' /\ ReservedLives(f)' /\ QueuedLives(f)' /\ MissedLives(f)'
    BY <1>1, <1>2, <1>7, <2>1, KeysKept DEF TypeOK
  <2>2. OnTime(e)' /\ ReservedLives(e)' /\ QueuedLives(e)' /\ MissedLives(e)'
    BY <1>1 DEF KeysOutlive, OnTime, ReservedLives, QueuedLives, MissedLives,
                TypeOK, Routing, RouteSteps
  <2> QED
    BY <2>1, <2>2 DEF KeysOutlive
(* A set that is covered by the counter stays covered when it and the      *)
(* counter both lose the released order.                                   *)
<1>9. ASSUME NEW X \in SUBSET Entries, NEW s \in Strategies,
             e \in X <=> s = sg, Usd(X) <= pending[s]
      PROVE  SumFunctionOnSet(amt', X \ {e}) <= pending'[s]
  <2> DEFINE Y == X \ {e}
  <2>1. Y \in SUBSET Entries /\ e \notin Y /\ pending[s] \in Int
    BY DEF TypeOK
  <2>2. CASE s = sg
    <3>1. X = Y \cup {e} /\ pending'[s] = pending[s] - amt[e]
      BY <1>1, <1>9, <2>2 DEF TypeOK
    <3> HIDE DEF Y
    <3>2. SumFunctionOnSet(amt', Y) = Usd(Y) /\ Usd(X) = Usd(Y) + amt[e] /\ Usd(Y) \in Nat
      BY <1>3, <2>1, <3>1
    <3>3. SumFunctionOnSet(amt', Y) <= pending'[s]
      BY <1>1, <1>9, <2>1, <3>1, <3>2
    <3> QED
      BY <3>3 DEF Y
  <2>3. CASE s # sg
    <3>1. X = Y /\ pending'[s] = pending[s]
      BY <1>1, <1>9, <2>3 DEF TypeOK
    <3> HIDE DEF Y
    <3>2. SumFunctionOnSet(amt', Y) = Usd(Y)
      BY <1>3, <2>1
    <3>3. SumFunctionOnSet(amt', Y) <= pending'[s]
      BY <1>9, <3>1, <3>2
    <3> QED
      BY <3>3 DEF Y
  <2> QED
    BY <2>2, <2>3
<1>10. InFlightCovered'
  <2> SUFFICES ASSUME NEW s \in Strategies
               PROVE  SumFunctionOnSet(amt', (Held(s) \cup Queued(s))') <= pending'[s]
    BY DEF InFlightCovered, Usd
  <2> DEFINE X == Held(s) \cup Queued(s)
  <2>1. (Held(s) \cup Queued(s))' = X \ {e} /\ (e \in X <=> s = sg)
    BY <1>6
  <2>2. X \in SUBSET Entries /\ Usd(X) <= pending[s]
    BY SetsOfEntries DEF InFlightCovered
  <2> HIDE DEF X
  <2> QED
    BY <1>9, <2>1, <2>2
<1>11. MissedCovered'
  <2> SUFFICES ASSUME NEW f \in Entries, pc'[f] = "reserve"
               PROVE  SumFunctionOnSet(amt', Missed(f)') <= pending'[StrategyOf[f]]
    BY DEF MissedCovered, Usd
  <2>1. f # e /\ pc[f] = "reserve"
    BY <1>1 DEF TypeOK
  <2> DEFINE X == Missed(f)
             s == StrategyOf[f]
  <2>2. Missed(f)' = X \ {e} /\ (e \in X <=> s = sg) /\ s \in Strategies
    BY <1>7, <2>1
  <2>3. X \in SUBSET Entries /\ Usd(X) <= pending[s]
    BY <2>1, SetsOfEntries DEF MissedCovered, Missed
  <2> HIDE DEF X, s
  <2>4. SumFunctionOnSet(amt', X \ {e}) <= pending'[s]
    BY <1>9, <2>2, <2>3
  <2> QED
    BY <2>2, <2>4 DEF s
<1>12. PassingFits'
  <2> SUFFICES ASSUME NEW s \in Strategies
               PROVE  SumFunctionOnSet(amt', (Queued(s) \cup Open(s) \cup Passing(s))') <= Cap[s]
    BY DEF PassingFits, Usd
  <2>1. ASSUME NEW f \in Entries PROVE SumFunctionOnSet(amt', seen'[f]) = Usd(seen[f])
    BY <1>1, <1>3, <1>4 DEF TypeOK
  <2>2. Passing(s)' = Passing(s) /\ e \notin Passing(s)
    <3>1. \A f \in Entries :
            /\ pc'[f] = IF f = e THEN "reject" ELSE pc[f]
            /\ f # e => amt'[f] = amt[f]
            /\ Usd(seen[f])' = Usd(seen[f])
            /\ total'[f] = total[f]
      BY <1>1, <2>1 DEF TypeOK, Usd
    <3> QED
      BY <1>1, <3>1 DEF Passing, Of
  <2> DEFINE X == Queued(s) \cup Open(s) \cup Passing(s)
  <2>3. (Queued(s) \cup Open(s) \cup Passing(s))' = X /\ X \in SUBSET Entries /\ e \notin X
    BY <1>6, <2>2, SetsOfEntries
  <2>4. Usd(X) <= Cap[s]
    BY DEF PassingFits
  <2> HIDE DEF X
  <2>5. SumFunctionOnSet(amt', X) = Usd(X)
    BY <1>3, <2>3
  <2> QED
    BY <2>3, <2>4, <2>5
<1> QED
  BY <1>5, <1>8, <1>10, <1>11, <1>12

(* When a key expires, nobody needs it: whoever relies on it would still   *)
(* be within a deadline that holds the clock back.                         *)
LEMMA TickInv ==
  ASSUME Timely, IndInv, TypeOK', Tick
  PROVE  IndInv'
<1> USE EntriesAssumption, ClockAssumption DEF IndInv
<1>1. /\ UNCHANGED <<pc, intent, amt, seen, total>>
      /\ \A f \in Entries :
           /\ age'[f] = IF f \in Routing \/ intent[f] = "queued" THEN age[f] + 1 ELSE age[f]
           /\ f \in Routing => age[f] < RouteMax
           /\ intent[f] = "queued" => age[f] < SettleMax
           /\ pc[f] # "expire"
           /\ age[f] \in Nat
           /\ StrategyOf[f] \in Strategies
  BY DEF Tick, Timely, TypeOK
<1>2. \A s \in Strategies :
        /\ ttl[s] \in Int
        /\ ttl[s] = NoExpiry => ttl'[s] = NoExpiry
        /\ ttl[s] > 1 => ttl'[s] = ttl[s] - 1
        /\ pending'[s] = IF ttl[s] = 1 THEN 0 ELSE pending[s]
  BY DEF Tick, TypeOK, NoKey, NoExpiry
<1>3. \A s \in Strategies, n \in Int :
        n > 1 /\ Lives(ttl[s], n) => ttl[s] # 1 /\ Lives(ttl'[s], n - 1)
  BY <1>2 DEF Lives, NoExpiry
<1>4. /\ RouteMax \in Nat /\ SettleMax \in Nat /\ TTL \in Nat
      /\ TTL > SettleMax + 2 * RouteMax
  BY DEF Timely
<1>5. Consistent'
  <2>1. \A f \in Entries : pc[f] = "new" => age'[f] = age[f]
    BY <1>1 DEF Routing, RouteSteps, Consistent
  <2> QED
    BY <1>1, <2>1 DEF Consistent, Usd
<1>6. ASSUME NEW f \in Entries,
             pc[f] \in {"evaluate", "release", "insert"} /\ amt[f] > 0
      PROVE  /\ ttl[StrategyOf[f]] # 1
             /\ Lives(ttl'[StrategyOf[f]], TTL - age'[f])
  <2> DEFINE n == TTL - age[f]
  <2>1. Lives(ttl[StrategyOf[f]], n)
    BY <1>6 DEF KeysOutlive, ReservedLives
  <2>2. f \in Routing
    BY <1>6 DEF Routing, RouteSteps
  <2>3. n \in Int /\ n > 1 /\ TTL - age'[f] = n - 1
    BY <1>1, <1>4, <2>2
  <2> HIDE DEF n
  <2> QED
    BY <1>1, <1>3, <2>1, <2>3
<1>7. ASSUME NEW f \in Entries, intent[f] = "queued"
      PROVE  /\ ttl[StrategyOf[f]] # 1
             /\ Lives(ttl'[StrategyOf[f]], TTL - RouteMax - age'[f])
  <2> DEFINE n == TTL - RouteMax - age[f]
  <2>1. Lives(ttl[StrategyOf[f]], n)
    BY <1>7 DEF KeysOutlive, QueuedLives
  <2>2. n \in Int /\ n > 1 /\ TTL - RouteMax - age'[f] = n - 1
    BY <1>1, <1>4, <1>7
  <2> HIDE DEF n
  <2> QED
    BY <1>1, <1>3, <2>1, <2>2
<1>8. ASSUME NEW f \in Entries, pc[f] = "reserve", MissedDecided(f) # {}
      PROVE  /\ ttl[StrategyOf[f]] # 1
             /\ Lives(ttl'[StrategyOf[f]], TTL - RouteMax - SettleMax - age'[f])
  <2> DEFINE n == TTL - RouteMax - SettleMax - age[f]
  <2>1. Lives(ttl[StrategyOf[f]], n)
    BY <1>8 DEF KeysOutlive, MissedLives
  <2>2. f \in Routing
    BY <1>8 DEF Routing, RouteSteps
  <2>3. n \in Int /\ n > 1 /\ TTL - RouteMax - SettleMax - age'[f] = n - 1
    BY <1>1, <1>4, <2>2
  <2> HIDE DEF n
  <2> QED
    BY <1>1, <1>3, <2>1, <2>3
<1>9. \A f \in Entries : /\ Missed(f)' = Missed(f) /\ MissedDecided(f)' = MissedDecided(f)
                         /\ f \in Routing' <=> f \in Routing
  BY <1>1 DEF Missed, MissedDecided, Held, Queued, Open, Of, Routing
<1>10. KeysOutlive'
  <2> SUFFICES ASSUME NEW f \in Entries
               PROVE  OnTime(f)' /\ ReservedLives(f)' /\ QueuedLives(f)' /\ MissedLives(f)'
    BY DEF KeysOutlive
  <2>1. OnTime(f)'
    BY <1>1, <1>4, <1>9 DEF OnTime
  <2>2. ReservedLives(f)'
    BY <1>1, <1>6 DEF ReservedLives
  <2>3. QueuedLives(f)'
    BY <1>1, <1>7 DEF QueuedLives
  <2>4. MissedLives(f)'
    BY <1>1, <1>8, <1>9 DEF MissedLives
  <2> QED
    BY <2>1, <2>2, <2>3, <2>4
<1>11. \A s \in Strategies : Held(s)' = Held(s) /\ Queued(s)' = Queued(s) /\ Open(s)' = Open(s)
  BY <1>1 DEF Held, Queued, Open, Of
<1>12. ASSUME NEW s \in Strategies, ttl[s] = 1
       PROVE  Held(s) \cup Queued(s) = {}
  <2>1. \A f \in Held(s) : FALSE
    BY <1>1, <1>6, <1>12 DEF Held, Of
  <2>2. \A f \in Queued(s) : FALSE
    BY <1>7, <1>12 DEF Queued, Of
  <2> QED
    BY <2>1, <2>2
<1>13. SumFunctionOnSet(amt, {}) = 0
  BY SumEmpty
<1>14. InFlightCovered'
  <2> SUFFICES ASSUME NEW s \in Strategies
               PROVE  SumFunctionOnSet(amt, Held(s) \cup Queued(s)) <= pending'[s]
    BY <1>1, <1>11 DEF InFlightCovered, Usd
  <2>1. CASE ttl[s] = 1
    <3>1. Held(s) \cup Queued(s) = {} /\ pending'[s] = 0
      BY <1>2, <1>12, <2>1
    <3> QED
      BY <1>13, <3>1
  <2>2. CASE ttl[s] # 1
    BY <1>2, <2>2 DEF InFlightCovered, Usd
  <2> QED
    BY <2>1, <2>2
<1>15. MissedCovered'
  <2> SUFFICES ASSUME NEW f \in Entries, pc[f] = "reserve"
               PROVE  SumFunctionOnSet(amt, Missed(f)) <= pending'[StrategyOf[f]]
    BY <1>1, <1>9 DEF MissedCovered, Usd
  <2>1. CASE ttl[StrategyOf[f]] = 1
    <3>1. Held(StrategyOf[f]) = {} /\ MissedDecided(f) = {}
      BY <1>8, <1>12, <2>1
    <3>2. Missed(f) = {}
      BY <3>1 DEF Missed, MissedDecided
    <3>3. pending'[StrategyOf[f]] = 0
      BY <1>1, <1>2, <2>1
    <3> QED
      BY <1>13, <3>2, <3>3
  <2>2. CASE ttl[StrategyOf[f]] # 1
    BY <1>1, <1>2, <2>2 DEF MissedCovered, Usd
  <2> QED
    BY <2>1, <2>2
<1>16. PassingFits'
  <2>1. \A s \in Strategies : Passing(s)' = Passing(s)
    BY <1>1 DEF Passing, Of, Usd
  <2> QED
    BY <1>1, <1>11, <2>1 DEF PassingFits, Usd
<1> QED
  BY <1>5, <1>10, <1>14, <1>15, <1>16

-----------------------------------------------------------------------------
(* The invariant is inductive: one case per action.                        *)
LEMMA IndInvStep == Timely /\ IndInv /\ [Next]_vars => IndInv'
<1> SUFFICES ASSUME Timely, IndInv, [Next]_vars PROVE IndInv'
  OBVIOUS
<1>1. TypeOK'
  BY TypeStep DEF IndInv
<1>2. ASSUME NEW e \in Entries, RouteStep(e) PROVE IndInv'
  <2>1. ~ReserveFails(e) /\ ~ExpireFails(e) /\ ~ReleaseFails(e)
    BY DEF Timely, ReserveFails, ExpireFails, ReleaseFails
  <2> QED
    BY <1>1, <1>2, <2>1, ReadExposureInv, ReserveInv, ExpireInv, AcceptInv,
       SkipZeroNotionalInv, RejectInv, ReleaseInv, InsertQueuedInv, InsertRejectedInv
    DEF RouteStep
<1>3. ASSUME NEW e \in Entries, Abandon(e) \/ AdapterStep(e) \/ Close(e) \/ NextAlpha(e)
      PROVE  IndInv'
  BY <1>1, <1>3, AbandonInv, SettleInv, RefuseInv, CloseInv, NextAlphaInv DEF AdapterStep
<1>4. ASSUME Tick PROVE IndInv'
  BY <1>1, <1>4, TickInv
<1>5. CASE UNCHANGED vars
  BY <1>5 DEF vars, IndInv, TypeOK, Consistent, KeysOutlive, OnTime, ReservedLives,
     QueuedLives, MissedLives, InFlightCovered, MissedCovered, PassingFits, Missed,
     MissedDecided, Held, Queued, Open, Passing, Of, Usd, Routing
<1> QED
  BY <1>2, <1>3, <1>4, <1>5 DEF Next

(* The invariant implies the budget.                                       *)
LEMMA IndInvFits == IndInv => BudgetRespected
<1> SUFFICES ASSUME IndInv, NEW s \in Strategies
             PROVE  Usd(Queued(s) \cup Open(s)) <= Cap[s]
  BY DEF BudgetRespected
<1> DEFINE S == Queued(s) \cup Open(s)
           T == Queued(s) \cup Open(s) \cup Passing(s)
<1>1. S \in SUBSET Entries /\ T \in SUBSET Entries /\ S \subseteq T
  BY SetsOfEntries
<1>2. Usd(T) <= Cap[s] /\ Cap[s] \in Nat
  BY AmountsAssumption DEF IndInv, PassingFits
<1> HIDE DEF S, T
<1>3. Usd(S) <= Usd(T) /\ Usd(S) \in Nat /\ Usd(T) \in Nat
  <2>1. TypeOK
    BY DEF IndInv
  <2> QED
    BY <1>1, <2>1, AmountsNat, SumFacts DEF Usd
<1>4. Usd(S) <= Cap[s]
  BY <1>2, <1>3
<1> QED
  BY <1>4 DEF S

(* However many routers interleave, crash or lose a race, the orders of a  *)
(* strategy that are queued or open never exceed its budget together,      *)
(* provided that Redis answers and reservations outlive settlement.        *)
THEOREM BudgetSafe ==
  ASSUME Timely
  PROVE  Spec => []BudgetRespected
<1>1. IndInv /\ [Next]_vars => IndInv'
  BY Timely, IndInvStep
<1> QED
  BY <1>1, IndInvInit, IndInvFits, PTL DEF Spec

(* Under the same provisos the counter covers every order that is decided  *)
(* or being decided and not yet in the positions table.                    *)
THEOREM CounterCovers ==
  ASSUME Timely
  PROVE  Spec => []InFlightCovered
<1>1. IndInv /\ [Next]_vars => IndInv'
  BY Timely, IndInvStep
<1>2. IndInv => InFlightCovered
  BY DEF IndInv
<1> QED
  BY <1>1, <1>2, IndInvInit, PTL DEF Spec

(* The strengthening itself, which the run checks beside them.             *)
THEOREM InductiveInvariant ==
  ASSUME Timely
  PROVE  Spec => []IndInv
<1>1. IndInv /\ [Next]_vars => IndInv'
  BY Timely, IndInvStep
<1> QED
  BY <1>1, IndInvInit, PTL DEF Spec

-----------------------------------------------------------------------------
(* The refinement: the counter, the clock and the interleaved handlers     *)
(* implement the atomic ledger.  Every step admits an order within budget, *)
(* rejects one, moves a row on, or leaves the ledger alone.                *)

(* Nothing is booked at the start.                                         *)
LEMMA LedgerInit == Init => Ledger!Init
BY DEF Init, Ledger!Init, Booked

(* A step that changes no row, and no amount of an entry with a row, is    *)
(* invisible in the ledger.                                                *)
LEMMA Invisible ==
  ASSUME intent' = intent,
         \A e \in Entries : intent[e] # "none" => amt'[e] = amt[e]
  PROVE  UNCHANGED Ledger!vars
BY DEF Ledger!vars, Booked

(* The ledger sums as the router does.                                     *)
LEMMA LedgerSum ==
  ASSUME NEW S, NEW f
  PROVE  Ledger!SumFunctionOnSet(f, S) = SumFunctionOnSet(f, S)
BY DEF SumFunctionOnSet, FoldFunctionOnSet, MapThenFoldSet,
       Ledger!SumFunctionOnSet, Ledger!FoldFunctionOnSet, Ledger!MapThenFoldSet

(* The alphas without a row are the same.                                  *)
LEMMA LedgerNew ==
  ASSUME NEW e \in Entries
  PROVE  Ledger!NewAlpha(e) <=> ~RowExists(e)
BY DEF Ledger!NewAlpha, RowExists

(* A first insert of an accepted order is an admission.                    *)
LEMMA InsertAdmits ==
  ASSUME IndInv, BudgetRespected', NEW e \in Entries, InsertQueued(e), ~RowExists(e)
  PROVE  Ledger!Admit(e)
<1> USE EntriesAssumption
<1> DEFINE sg == StrategyOf[e]
           L == Ledger!Live(sg) \cup {e}
<1>1. /\ intent' = [intent EXCEPT ![e] = "queued"]
      /\ amt' = amt /\ amt[e] > 0 /\ amt[e] \in 0..MaxUsd /\ MaxUsd \in Nat
      /\ sg \in Strategies
  <2>1. amt \in [Entries -> 0..MaxUsd] /\ MaxUsd \in Nat
    BY AmountsAssumption DEF IndInv, TypeOK
  <2>2. amt[e] > 0 /\ amt' = amt
    BY DEF InsertQueued, InsertAs, IndInv, Consistent
  <2>3. intent' = [intent EXCEPT ![e] = "queued"]
    BY DEF InsertQueued, InsertAs
  <2> QED
    BY <2>1, <2>2, <2>3
<1>2. intent \in [Entries -> {"none", "queued", "rejected", "open", "closed"}]
  BY DEF IndInv, TypeOK
<1>3. Booked' = [Booked EXCEPT ![e] = amt[e]]
  BY <1>1, <1>2 DEF Booked
<1>4. L = (Queued(sg) \cup Open(sg))'
  BY <1>1, <1>2 DEF Ledger!Live, Queued, Open, Of
<1>5. \A x \in L : Booked'[x] = amt'[x]
  BY <1>4 DEF Booked, Queued, Open, Of
<1> HIDE DEF L
<1>6. SumFunctionOnSet(Booked', L) = SumFunctionOnSet(amt', L)
  <2>1. IsFiniteSet(L)
    <3>1. L \in SUBSET Entries
      BY DEF L, Ledger!Live
    <3> QED
      BY <3>1, FS_Subset
  <2> QED
    BY <1>5, <2>1, SumAgree
<1>7. SumFunctionOnSet(amt', L) <= Cap[sg]
  <2>1. SumFunctionOnSet(amt', (Queued(sg) \cup Open(sg))') <= Cap[sg]
    BY <1>1 DEF BudgetRespected, Usd
  <2> QED
    BY <1>4, <2>1
<1>8. Ledger!NewAlpha(e)
  BY LedgerNew
<1>9. \E usd \in 1..MaxUsd : Booked' = [Booked EXCEPT ![e] = usd]
  <2>1. amt[e] \in 1..MaxUsd
    BY <1>1
  <2> QED
    BY <1>3, <2>1
<1>10. SumFunctionOnSet(Booked', Ledger!Live(StrategyOf[e]) \cup {e}) <= Cap[StrategyOf[e]]
  BY <1>6, <1>7 DEF L
<1>11. Ledger!SumFunctionOnSet(Booked', Ledger!Live(StrategyOf[e]) \cup {e})
         <= Cap[StrategyOf[e]]
  BY <1>10, LedgerSum
<1> HIDE DEF sg
<1>12. intent' = [intent EXCEPT ![e] = "queued"]
  BY <1>1
<1> QED
  BY <1>8, <1>9, <1>11, <1>12 DEF Ledger!Admit

(* Every step of the router is a step of the ledger or invisible in it.    *)
LEMMA LedgerStep ==
  Timely /\ IndInv /\ BudgetRespected' /\ [Next]_vars => [Ledger!Next]_(Ledger!vars)
<1> SUFFICES ASSUME Timely, IndInv, BudgetRespected', [Next]_vars
             PROVE  [Ledger!Next]_(Ledger!vars)
  OBVIOUS
<1> USE DEF IndInv
<1>1. ASSUME NEW e \in Entries, ReadExposure(e) \/ Release(e)
      PROVE  UNCHANGED Ledger!vars
  <2>1. intent[e] = "none" /\ intent' = intent
    BY <1>1 DEF ReadExposure, Release, Consistent
  <2>2. \A f \in Entries : f # e => amt'[f] = amt[f]
    BY <1>1 DEF ReadExposure, Release, TypeOK
  <2> QED
    BY <2>1, <2>2, Invisible
<1>2. ASSUME NEW e \in Entries,
             \/ Reserve(e) \/ Expire(e) \/ Accept(e) \/ SkipZeroNotional(e)
             \/ Reject(e) \/ Abandon(e)
      PROVE  UNCHANGED Ledger!vars
  BY <1>2, Invisible
  DEF Reserve, Expire, Accept, SkipZeroNotional, Reject, Abandon
<1>3. ASSUME NEW e \in Entries, InsertQueued(e) \/ InsertRejected(e)
      PROVE  [Ledger!Next]_(Ledger!vars)
  <2>1. CASE RowExists(e)
    <3>1. intent' = intent /\ amt' = amt
      BY <1>3, <2>1 DEF InsertQueued, InsertRejected, InsertAs, TypeOK
    <3> QED
      BY <3>1, Invisible
  <2>2. CASE ~RowExists(e) /\ InsertQueued(e)
    <3>1. Ledger!Admit(e)
      BY <2>2, InsertAdmits
    <3> QED
      BY <3>1 DEF Ledger!Next
  <2>3. CASE ~RowExists(e) /\ InsertRejected(e)
    <3>1. intent' = [intent EXCEPT ![e] = "rejected"] /\ amt' = amt /\ intent[e] = "none"
      BY <2>3 DEF InsertRejected, InsertAs, Consistent
    <3>2. Booked' = Booked
      BY <3>1 DEF Booked, TypeOK
    <3>3. Ledger!Reject(e)
      BY <2>3, <3>1, <3>2, LedgerNew DEF Ledger!Reject
    <3> QED
      BY <3>3 DEF Ledger!Next
  <2> QED
    BY <1>3, <2>1, <2>2, <2>3
<1>4. ASSUME NEW e \in Entries, Settle(e) \/ Refuse(e) \/ Close(e)
      PROVE  [Ledger!Next]_(Ledger!vars)
  <2>1. /\ amt' = amt
        /\ \/ intent[e] = "queued" /\ intent' = [intent EXCEPT ![e] = "open"]
           \/ intent[e] \in {"queued", "open"} /\ intent' = [intent EXCEPT ![e] = "closed"]
    BY <1>4 DEF Settle, Refuse, Close
  <2>2. Booked' = Booked
    BY <2>1 DEF Booked, TypeOK
  <2>3. Ledger!Advance(e)
    BY <2>1, <2>2 DEF Ledger!Advance
  <2> QED
    BY <2>3 DEF Ledger!Next
<1>5. ASSUME NEW e \in Entries, NextAlpha(e) PROVE [Ledger!Next]_(Ledger!vars)
  <2>1. /\ amt' = amt /\ intent' = [intent EXCEPT ![e] = "none"]
        /\ intent[e] \in {"none", "rejected"}
    BY <1>5 DEF NextAlpha
  <2>2. Booked' = Booked
    BY <2>1 DEF Booked, TypeOK
  <2>3. CASE intent[e] = "none"
    <3>1. intent' = intent
      BY <2>1, <2>3 DEF TypeOK
    <3> QED
      BY <2>1, <3>1, Invisible
  <2>4. CASE intent[e] = "rejected"
    <3>1. Ledger!NextAlpha(e)
      BY <2>1, <2>2, <2>4 DEF Ledger!NextAlpha
    <3> QED
      BY <3>1 DEF Ledger!Next
  <2> QED
    BY <2>1, <2>3, <2>4
<1>6. ASSUME Tick \/ UNCHANGED vars PROVE UNCHANGED Ledger!vars
  BY <1>6, Invisible DEF Tick, vars
<1>7. ASSUME NEW e \in Entries, RouteStep(e) PROVE [Ledger!Next]_(Ledger!vars)
  <2>1. ~ReserveFails(e) /\ ~ExpireFails(e) /\ ~ReleaseFails(e)
    BY DEF Timely, ReserveFails, ExpireFails, ReleaseFails
  <2> QED
    BY <1>1, <1>2, <1>3, <1>7, <2>1 DEF RouteStep
<1> QED
  BY <1>2, <1>4, <1>5, <1>6, <1>7 DEF Next, AdapterStep

(* The router checks the budget in several awaits against two stores, and  *)
(* still behaves as if each order were checked and admitted in one step    *)
(* against everything queued or open.                                      *)
THEOREM LedgerImplemented ==
  ASSUME Timely
  PROVE  Spec => ImplementsLedger
<1>1. IndInv /\ [Next]_vars => IndInv'
  BY Timely, IndInvStep
<1>2. IndInv /\ BudgetRespected' /\ [Next]_vars => [Ledger!Next]_(Ledger!vars)
  BY Timely, LedgerStep
<1> QED
  BY <1>1, <1>2, IndInvInit, IndInvFits, LedgerInit, PTL DEF Spec, ImplementsLedger, Ledger!Spec

=============================================================================
