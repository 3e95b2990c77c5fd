-------------------------- MODULE BudgetReservation --------------------------
(***************************************************************************)
(* The per-strategy budget of the router: _route_one reads the open        *)
(* exposure from Postgres, sizes the order to the headroom, reserves it in *)
(* a Redis counter (budget_reservation.py), decides, gives back the        *)
(* reservation of a rejected intent and inserts the intent row.  Several   *)
(* router processes may run side by side; between any two awaits of one,   *)
(* the others, the venue adapter and the clock may step.                   *)
(*                                                                         *)
(* An entry is one delivery of an alpha by the stream.  It is routed at    *)
(* most once (the router reads new entries only), but two entries may      *)
(* carry the same alpha.  Where alphas keep coming, one that is over and   *)
(* has left nothing behind makes room for the next.                        *)
(***************************************************************************)
EXTENDS Integers, FiniteSets, Functions

CONSTANTS
  Entries,       \* deliveries of alphas
  AlphaOf,       \* the alpha an entry carries
  Strategies,    \* strategy slugs
  StrategyOf,    \* the strategy of an entry's alpha
  Want,          \* the notional sizing would give with unlimited headroom
  MaxUsd,        \* bound on one order's notional
  Cap,           \* strategy budget of each strategy (0 would disable it)
  TTL,           \* RESERVATION_TTL_SECONDS, in clock ticks
  RouteMax,      \* longest time from the exposure read to the insert
  SettleMax,     \* longest time a queued intent takes to reach positions
  Replicas,      \* router processes
  RedisFaults,   \* may a Redis command fail or lose its reply?
  Crashes,       \* may a router process die, or raise, between two awaits?
  PromptExpire,  \* does EXPIRE follow its INCRBYFLOAT within one tick?
  Steady         \* do alphas keep coming for ever?

ASSUME EntriesAssumption ==
  /\ IsFiniteSet(Entries)
  /\ StrategyOf \in [Entries -> Strategies]
  /\ \A e, f \in Entries : AlphaOf[e] = AlphaOf[f] => StrategyOf[e] = StrategyOf[f]
ASSUME AmountsAssumption ==
  /\ MaxUsd \in Nat
  /\ Want \in [Entries -> 1..MaxUsd]
  /\ Cap \in [Strategies -> Nat \ {0}]
ASSUME ClockAssumption ==
  /\ TTL \in Nat \ {0}
  /\ RouteMax \in Nat
  /\ SettleMax \in Nat
ASSUME EnvironmentAssumption ==
  /\ Replicas \in Nat \ {0}
  /\ RedisFaults \in BOOLEAN
  /\ Crashes \in BOOLEAN
  /\ PromptExpire \in BOOLEAN
  /\ Steady \in BOOLEAN

VARIABLES
  pc,        \* where the handler of an entry stands
  intent,    \* status of the oms_intents row an entry inserted, and of its position
  amt,       \* proposed_notional of an entry
  seen,      \* open positions the exposure read of an entry summed
  total,     \* reservation_total_pending of an entry
  age,       \* ticks since the exposure read, or since the insert when queued
  pending,   \* the Redis counter of a strategy
  ttl        \* its remaining time to live

vars == <<pc, intent, amt, seen, total, age, pending, ttl>>

(* Redis' answers to TTL for a missing key and for one that never expires. *)
NoKey    == -2
NoExpiry == -1

(* A handler is entered at "new" and over at "done"; the other values name *)
(* the next await of an entry being routed.                                *)
RouteSteps == {"reserve", "expire", "evaluate", "release", "reject", "insert"}
Routing    == {e \in Entries : pc[e] \in RouteSteps}

Of(s)     == {e \in Entries : StrategyOf[e] = s}
Queued(s) == {e \in Of(s) : intent[e] = "queued"}
Open(s)   == {e \in Of(s) : intent[e] = "open"}

Usd(S)     == SumFunctionOnSet(amt, S)
NonNeg(x)  == IF x > 0 THEN x ELSE 0
Least(x, y) == IF x < y THEN x ELSE y

TypeOK ==
  /\ pc \in [Entries -> RouteSteps \cup {"new", "done"}]
  /\ intent \in [Entries -> {"none", "queued", "rejected", "open", "closed"}]
  /\ amt \in [Entries -> 0..MaxUsd]
  /\ seen \in [Entries -> SUBSET Entries]
  /\ total \in [Entries -> Int]
  /\ age \in [Entries -> Nat]
  /\ pending \in [Strategies -> Int]
  /\ ttl \in [Strategies -> {NoKey, NoExpiry} \cup 1..TTL]

Init ==
  /\ pc      = [e \in Entries |-> "new"]
  /\ intent  = [e \in Entries |-> "none"]
  /\ amt     = [e \in Entries |-> 0]
  /\ seen    = [e \in Entries |-> {}]
  /\ total   = [e \in Entries |-> 0]
  /\ age     = [e \in Entries |-> 0]
  /\ pending = [s \in Strategies |-> 0]
  /\ ttl     = [s \in Strategies |-> NoKey]

-----------------------------------------------------------------------------
(* Sizing: the order is cut to what the cap leaves beside the positions    *)
(* that were open at the read.                                             *)
Headroom(e, exposure) == NonNeg(Cap[StrategyOf[e]] - exposure)
Sized(e, exposure)    == Least(Want[e], Headroom(e, exposure))

(* strategy_open_exposure_usd, then compute_notional.  A process routes    *)
(* one entry at a time.                                                    *)
ReadExposure(e) ==
  /\ pc[e] = "new"
  /\ Cardinality(Routing) < Replicas
  /\ LET open == Open(StrategyOf[e])
         usd  == Sized(e, Usd(open))
     IN  /\ seen' = [seen EXCEPT ![e] = open]
         /\ amt'  = [amt EXCEPT ![e] = usd]
         /\ pc'   = [pc EXCEPT ![e] = IF usd > 0 THEN "reserve" ELSE "evaluate"]
  /\ UNCHANGED <<intent, total, age, pending, ttl>>

(* INCRBYFLOAT on the counter: creates a missing key with no expiry and    *)
(* leaves the expiry of an existing one alone.                             *)
IncrementDropsExpiry(s, usd) ==
  /\ pending' = [pending EXCEPT ![s] = @ + usd]
  /\ ttl'     = [ttl EXCEPT ![s] = NoExpiry]
Increment(s, usd) ==
  /\ pending' = [pending EXCEPT ![s] = @ + usd]
  /\ ttl'     = [ttl EXCEPT ![s] = IF @ = NoKey THEN NoExpiry ELSE @]

(* EXPIRE: (re)starts the time to live of a key that exists.               *)
ExpireOnlyIfUnset(s) ==
  ttl' = [ttl EXCEPT ![s] = IF @ = NoExpiry THEN TTL ELSE @]
SetExpiry(s) ==
  ttl' = [ttl EXCEPT ![s] = IF @ = NoKey THEN NoKey ELSE TTL]

(* reserve_exposure, first await.                                          *)
ReserveNothing(e) ==
  /\ pc[e] = "reserve"
  /\ total' = [total EXCEPT ![e] = pending[StrategyOf[e]] + amt[e]]
  /\ pc'    = [pc EXCEPT ![e] = "expire"]
  /\ UNCHANGED <<intent, amt, seen, age, pending, ttl>>
Reserve(e) ==
  /\ pc[e] = "reserve"
  /\ Increment(StrategyOf[e], amt[e])
  /\ total' = [total EXCEPT ![e] = pending[StrategyOf[e]] + amt[e]]
  /\ pc'    = [pc EXCEPT ![e] = "expire"]
  /\ UNCHANGED <<intent, amt, seen, age>>

(* The INCRBYFLOAT fails, or succeeds and its reply is lost: the exception *)
(* is swallowed and 0.0 returned.                                          *)
ReserveFails(e) ==
  /\ RedisFaults
  /\ pc[e] = "reserve"
  /\ \/ Increment(StrategyOf[e], amt[e])
     \/ UNCHANGED <<pending, ttl>>
  /\ pc' = [pc EXCEPT ![e] = "evaluate"]
  /\ UNCHANGED <<intent, amt, seen, total, age>>

(* reserve_exposure, second await.                                         *)
Expire(e) ==
  /\ pc[e] = "expire"
  /\ SetExpiry(StrategyOf[e])
  /\ pc' = [pc EXCEPT ![e] = "evaluate"]
  /\ UNCHANGED <<intent, amt, seen, total, age, pending>>

(* The EXPIRE fails or its reply is lost: 0.0 is returned although the     *)
(* increment was made.                                                     *)
ExpireFails(e) ==
  /\ RedisFaults
  /\ pc[e] = "expire"
  /\ \/ SetExpiry(StrategyOf[e])
     \/ UNCHANGED ttl
  /\ total' = [total EXCEPT ![e] = 0]
  /\ pc'    = [pc EXCEPT ![e] = "evaluate"]
  /\ UNCHANGED <<intent, amt, seen, age, pending>>

-----------------------------------------------------------------------------
(* The budget check of preflight: what the positions table held at the     *)
(* read, plus what others have reserved, plus this order.                  *)
WithinBudgetIgnoringReservations(e) == Usd(seen[e]) + amt[e] <= Cap[StrategyOf[e]]
WithinBudget(e) ==
  \/ amt[e] = 0
  \/ Usd(seen[e]) + NonNeg(total[e] - amt[e]) + amt[e] <= Cap[StrategyOf[e]]

(* The handler returns: its local variables are gone.                      *)
Return(e) ==
  /\ pc'    = [pc EXCEPT ![e] = "done"]
  /\ seen'  = [seen EXCEPT ![e] = {}]
  /\ total' = [total EXCEPT ![e] = 0]
  /\ age'   = [age EXCEPT ![e] = 0]

(* preflight.evaluate accepts a sized order.                               *)
Accept(e) ==
  /\ pc[e] = "evaluate"
  /\ amt[e] > 0
  /\ WithinBudget(e)
  /\ pc' = [pc EXCEPT ![e] = "insert"]
  /\ UNCHANGED <<intent, amt, seen, total, age, pending, ttl>>

(* preflight.evaluate accepts an order that sizing cut to nothing: the     *)
(* router returns without a row.                                           *)
SkipZeroNotional(e) ==
  /\ pc[e] = "evaluate"
  /\ amt[e] = 0
  /\ Return(e)
  /\ UNCHANGED <<intent, amt, pending, ttl>>

(* preflight.evaluate rejects.  The budget is its last guard: any order    *)
(* may be rejected for an earlier one.                                     *)
Reject(e) ==
  /\ pc[e] = "evaluate"
  /\ pc' = [pc EXCEPT ![e] = IF amt[e] > 0 THEN "release" ELSE "reject"]
  /\ UNCHANGED <<intent, amt, seen, total, age, pending, ttl>>

(* release_exposure; a rejected row has no notional.                       *)
ReleaseNothing(e) ==
  /\ pc[e] = "release"
  /\ amt' = [amt EXCEPT ![e] = 0]
  /\ pc'  = [pc EXCEPT ![e] = "reject"]
  /\ UNCHANGED <<intent, seen, total, age, pending, ttl>>
Release(e) ==
  /\ pc[e] = "release"
  /\ Increment(StrategyOf[e], -amt[e])
  /\ amt' = [amt EXCEPT ![e] = 0]
  /\ pc'  = [pc EXCEPT ![e] = "reject"]
  /\ UNCHANGED <<intent, seen, total, age>>

(* The decrement fails, or succeeds and its reply is lost; the exception   *)
(* is swallowed.  An order whose reservation stays behind keeps its        *)
(* amount, the amount of the reservation.                                  *)
ReleaseFails(e) ==
  /\ RedisFaults
  /\ pc[e] = "release"
  /\ \/ /\ Increment(StrategyOf[e], -amt[e])
        /\ amt' = [amt EXCEPT ![e] = 0]
     \/ UNCHANGED <<pending, ttl, amt>>
  /\ pc' = [pc EXCEPT ![e] = "reject"]
  /\ UNCHANGED <<intent, seen, total, age>>

(* The unique (strategy_id, idempotency_key) of oms_intents.               *)
RowExists(e) ==
  \E f \in Entries : AlphaOf[f] = AlphaOf[e] /\ intent[f] # "none"

(* insert_intent with the decision's status.  ON CONFLICT DO NOTHING: the  *)
(* second entry of an alpha inserts nothing, and leaves its reservation.   *)
InsertAs(e, status) ==
  /\ intent' = [intent EXCEPT ![e] = IF RowExists(e) THEN @ ELSE status]
  /\ Return(e)
  /\ UNCHANGED <<amt, pending, ttl>>
InsertIgnoringConflict(e) ==
  /\ pc[e] = "insert"
  /\ intent' = [intent EXCEPT ![e] = "queued"]
  /\ Return(e)
  /\ UNCHANGED <<amt, pending, ttl>>
InsertAccepted(e) == pc[e] = "insert" /\ InsertAs(e, "accepted")
InsertQueued(e)   == pc[e] = "insert" /\ InsertAs(e, "queued")
InsertRejected(e) == pc[e] = "reject" /\ InsertAs(e, "rejected")

(* The process dies, or an await outside the guarded Redis calls raises    *)
(* (insert_intent, say): the entry stays un-acked and is never read again. *)
Abandon(e) ==
  /\ Crashes
  /\ e \in Routing
  /\ Return(e)
  /\ UNCHANGED <<intent, amt, pending, ttl>>

-----------------------------------------------------------------------------
(* The venue adapter takes a queued intent to a position or refuses it,    *)
(* and closes positions.                                                   *)
Settle(e) ==
  /\ intent[e] = "queued"
  /\ intent' = [intent EXCEPT ![e] = "open"]
  /\ age'    = [age EXCEPT ![e] = 0]
  /\ UNCHANGED <<pc, amt, seen, total, pending, ttl>>

Refuse(e) ==
  /\ intent[e] = "queued"
  /\ intent' = [intent EXCEPT ![e] = "closed"]
  /\ age'    = [age EXCEPT ![e] = 0]
  /\ UNCHANGED <<pc, amt, seen, total, pending, ttl>>

Close(e) ==
  /\ intent[e] = "open"
  /\ intent' = [intent EXCEPT ![e] = "closed"]
  /\ UNCHANGED <<pc, amt, seen, total, age, pending, ttl>>

(* A tick of the clock: keys count down and the one that reaches zero is   *)
(* gone.  It waits for what takes at most RouteMax and SettleMax ticks.    *)
Tick ==
  /\ \A e \in Routing : age[e] < RouteMax
  /\ \A e \in Entries : intent[e] = "queued" => age[e] < SettleMax
  /\ PromptExpire => \A e \in Entries : pc[e] # "expire"
  /\ age' = [e \in Entries |->
               IF e \in Routing \/ intent[e] = "queued" THEN age[e] + 1 ELSE age[e]]
  /\ pending' = [s \in Strategies |-> IF ttl[s] = 1 THEN 0 ELSE pending[s]]
  /\ ttl' = [s \in Strategies |-> CASE ttl[s] > 1 -> ttl[s] - 1
                                    [] ttl[s] = 1 -> NoKey
                                    [] OTHER      -> ttl[s]]
  /\ UNCHANGED <<pc, intent, amt, seen, total>>

(* The loop takes the next alpha, one of the same strategy and size, in    *)
(* the place of an entry that is over, has no order and holds no part of   *)
(* the counter, and of which no other delivery is about.                   *)
NextAlpha(e) ==
  /\ Steady
  /\ pc[e] = "done" /\ intent[e] \in {"none", "rejected"} /\ amt[e] = 0
  /\ \A f \in Entries \ {e} : AlphaOf[f] = AlphaOf[e] => pc[f] = "new"
  /\ pc'     = [pc EXCEPT ![e] = "new"]
  /\ intent' = [intent EXCEPT ![e] = "none"]
  /\ seen'   = [seen EXCEPT ![e] = {}]
  /\ total'  = [total EXCEPT ![e] = 0]
  /\ age'    = [age EXCEPT ![e] = 0]
  /\ UNCHANGED <<amt, pending, ttl>>

RouteStep(e) ==
  \/ ReadExposure(e)
  \/ Reserve(e)
  \/ ReserveFails(e)
  \/ Expire(e)
  \/ ExpireFails(e)
  \/ Accept(e)
  \/ SkipZeroNotional(e)
  \/ Reject(e)
  \/ Release(e)
  \/ ReleaseFails(e)
  \/ InsertQueued(e)
  \/ InsertRejected(e)

AdapterStep(e) == Settle(e) \/ Refuse(e)

Next ==
  \/ \E e \in Entries :
       RouteStep(e) \/ Abandon(e) \/ AdapterStep(e) \/ Close(e) \/ NextAlpha(e)
  \/ Tick

Spec == Init /\ [][Next]_vars

(* Every await returns, the adapter serves every queued intent, and time   *)
(* passes.  A crash, a close or a further alpha need not happen.           *)
Fairness ==
  /\ \A e \in Entries : WF_vars(RouteStep(e)) /\ WF_vars(AdapterStep(e))
  /\ WF_vars(Tick)

FairSpec == Spec /\ Fairness
-----------------------------------------------------------------------------
(* An entry whose amount is part of the counter: reserved, not given back. *)
Held(s) == {e \in Of(s) : /\ pc[e] \in {"expire", "evaluate", "release", "insert"}
                          /\ amt[e] > 0}

(* The budget is a hard ceiling: the orders a strategy has queued and the  *)
(* positions it has open never exceed its cap together, however many       *)
(* alphas are routed at once (router.py:246-264, preflight.py:421-425).    *)
BudgetRespected ==
  \A s \in Strategies : Usd(Queued(s) \cup Open(s)) <= Cap[s]

(* Every order that is decided or being decided but not yet in the         *)
(* positions table is covered by the counter, so that a budget check can   *)
(* count it; the key never expires under it (budget_reservation.py:11-16). *)
InFlightCovered ==
  \A s \in Strategies : Usd(Held(s) \cup Queued(s)) <= pending[s]

(* The counter never holds more than the orders that asked for a           *)
(* reservation and were not given it back, whatever Redis drops: no order  *)
(* is counted twice (router.py:284-288).                                   *)
PhantomBounded ==
  \A s \in Strategies :
    pending[s] <= Usd({e \in Of(s) : pc[e] \notin {"new", "reserve"}})

(* One alpha inserts one intent, whichever of its entries wins             *)
(* (router.py:317, db.py:175-181).                                         *)
OneIntentPerAlpha ==
  \A e, f \in Entries :
    (AlphaOf[e] = AlphaOf[f] /\ e # f) => intent[e] = "none" \/ intent[f] = "none"

(* A reservation does not outlive its purpose: whatever the counter holds, *)
(* it returns to zero (budget_reservation.py:14-15, 22-23).                *)
ReservationClears ==
  \A s \in Strategies : (pending[s] # 0) ~> (pending[s] = 0)

(* Under alphas without end: an amount in the counter, whoever died or     *)
(* settled, is gone in the end or another reservation of the strategy has  *)
(* been made meanwhile, unless its key had no expiry.  No more is true:    *)
(* each reservation restarts the key's time to live, those of alphas then  *)
(* rejected too, so what a settled order left may block the budget for as  *)
(* long as alphas come oftener than the key expires, and not for 300 s at  *)
(* most (budget_reservation.py:13-16, 22-23, 56-58).                       *)
ClearsUnlessRenewed ==
  \A s \in Strategies :
    (pending[s] # 0 /\ ttl[s] # NoExpiry)
      ~> (pending[s] = 0 \/ \E e \in Of(s) : pc[e] = "expire")

(* The router only ever takes back what it put in: the counter of a        *)
(* strategy is never negative (router.py:284-286, "roll back the           *)
(* reservation we made").                                                  *)
ReservationNonNegative ==
  \A s \in Strategies : pending[s] >= 0

(* The router as the atomic ledger it is meant to be: a row is admitted    *)
(* with its amount in one step, only within budget.                        *)
Booked == [e \in Entries |->
             IF intent[e] \in {"queued", "open", "closed"} THEN amt[e] ELSE 0]

Ledger == INSTANCE BudgetLedger WITH notional <- Booked

ImplementsLedger == Ledger!Spec

=============================================================================
