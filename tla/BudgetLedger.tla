---------------------------- MODULE BudgetLedger ----------------------------
(***************************************************************************)
(* What the router's budget control promises, with no counter, no clock    *)
(* and no processes: an order is checked against everything that is queued *)
(* or open and admitted in the same step.                                  *)
(***************************************************************************)
EXTENDS Integers, FiniteSets, Functions

CONSTANTS Entries, AlphaOf, Strategies, StrategyOf, MaxUsd, Cap

VARIABLES
  intent,     \* status of the row an entry inserted, and of its position
  notional    \* its notional, 0 when there is none

vars == <<intent, notional>>

Live(s) == {e \in Entries : StrategyOf[e] = s /\ intent[e] \in {"queued", "open"}}

Init ==
  /\ intent   = [e \in Entries |-> "none"]
  /\ notional = [e \in Entries |-> 0]

NewAlpha(e) ==
  \A f \in Entries : AlphaOf[f] = AlphaOf[e] => intent[f] = "none"

Admit(e) ==
  /\ NewAlpha(e)
  /\ intent' = [intent EXCEPT ![e] = "queued"]
  /\ \E usd \in 1..MaxUsd : notional' = [notional EXCEPT ![e] = usd]
  /\ SumFunctionOnSet(notional', Live(StrategyOf[e]) \cup {e}) <= Cap[StrategyOf[e]]

Reject(e) ==
  /\ NewAlpha(e)
  /\ intent' = [intent EXCEPT ![e] = "rejected"]
  /\ UNCHANGED notional

Advance(e) ==
  /\ \/ intent[e] = "queued" /\ intent' = [intent EXCEPT ![e] = "open"]
     \/ intent[e] \in {"queued", "open"} /\ intent' = [intent EXCEPT ![e] = "closed"]
  /\ UNCHANGED notional

(* The next alpha takes the place of a rejected one.                       *)
NextAlpha(e) ==
  /\ intent[e] = "rejected"
  /\ intent' = [intent EXCEPT ![e] = "none"]
  /\ UNCHANGED notional

Next == \E e \in Entries : Admit(e) \/ Reject(e) \/ Advance(e) \/ NextAlpha(e)

Spec == Init /\ [][Next]_vars

=============================================================================
