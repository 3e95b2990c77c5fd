--------------------------- MODULE BudgetInvariant ---------------------------
(***************************************************************************)
(* The inductive invariant behind BudgetRespected, for routers whose Redis *)
(* commands do not fail and whose reservations outlive the longest gap     *)
(* between an exposure read and the visibility of an earlier order.        *)
(***************************************************************************)
EXTENDS BudgetReservation

(* Redis answers, EXPIRE follows INCRBYFLOAT promptly, and the time to     *)
(* live exceeds one settlement and two routings: a reservation may be made *)
(* RouteMax before its insert, which settles within SettleMax, which a     *)
(* second router misses for up to RouteMax after its own read.             *)
Timely ==
  /\ ~RedisFaults
  /\ PromptExpire
  /\ TTL > SettleMax + 2 * RouteMax

(* Orders that passed the budget check, or would pass it now.              *)
Passing(s) ==
  {e \in Of(s) : /\ pc[e] \in {"expire", "evaluate", "insert"}
                 /\ amt[e] > 0
                 /\ Usd(seen[e]) + total[e] <= Cap[s]}

(* The orders that the exposure read of e missed and its reservation must  *)
(* therefore count.                                                        *)
Missed(e) ==
  LET s == StrategyOf[e] IN (Held(s) \cup Queued(s) \cup Open(s)) \ seen[e]

MissedDecided(e) ==
  LET s == StrategyOf[e] IN (Queued(s) \cup Open(s)) \ seen[e]

(* A key with time to live t lives at least n more ticks.                  *)
Lives(t, n) == t = NoExpiry \/ (t >= 1 /\ t >= n)

(* How handler, row and amount go together.                                *)
Consistent ==
  \A e \in Entries :
    /\ pc[e] # "done" => intent[e] = "none"
    /\ pc[e] \in {"reserve", "expire", "release", "insert"} => amt[e] > 0
    /\ pc[e] = "new" => age[e] = 0 /\ total[e] = 0
    /\ \A f \in seen[e] : StrategyOf[f] = StrategyOf[e] /\ intent[f] \in {"open", "closed"}
    /\ pc[e] \in {"expire", "evaluate", "insert"} => total[e] >= amt[e]
    /\ pc[e] = "insert" => Usd(seen[e]) + total[e] <= Cap[StrategyOf[e]]

(* Deadlines are kept.                                                     *)
OnTime(e) ==
  /\ e \in Routing => age[e] <= RouteMax
  /\ intent[e] = "queued" => age[e] <= SettleMax

(* Keys outlive whoever relies on them: the router that reserved, ...      *)
ReservedLives(e) ==
  /\ pc[e] = "expire" => ttl[StrategyOf[e]] # NoKey
  /\ pc[e] \in {"evaluate", "release", "insert"} /\ amt[e] > 0
       => Lives(ttl[StrategyOf[e]], TTL - age[e])

(* ... the order waiting for the adapter, ...                              *)
QueuedLives(e) ==
  intent[e] = "queued" => Lives(ttl[StrategyOf[e]], TTL - RouteMax - age[e])

(* ... and the router that has not seen that order in the positions table. *)
MissedLives(e) ==
  pc[e] = "reserve" /\ MissedDecided(e) # {}
    => Lives(ttl[StrategyOf[e]], TTL - RouteMax - SettleMax - age[e])

KeysOutlive ==
  \A e \in Entries : OnTime(e) /\ ReservedLives(e) /\ QueuedLives(e) /\ MissedLives(e)

(* A router that is about to reserve will count every order it missed.     *)
MissedCovered ==
  \A e \in Entries : pc[e] = "reserve" => Usd(Missed(e)) <= pending[StrategyOf[e]]

(* The orders decided and those bound to be accepted fit together.         *)
PassingFits ==
  \A s \in Strategies : Usd(Queued(s) \cup Open(s) \cup Passing(s)) <= Cap[s]

IndInv ==
  /\ TypeOK
  /\ Consistent
  /\ KeysOutlive
  /\ InFlightCovered
  /\ MissedCovered
  /\ PassingFits

=============================================================================
