------------------------------ MODULE Bankroll ------------------------------
(***************************************************************************)
(* bankroll_aware_sizing.py: the ladder of tiers that realized profit      *)
(* climbs, each with a budget per strategy and a notional per order, and   *)
(* the realized profit that counts (bankroll_refresher.py).                *)
(***************************************************************************)
EXTENDS Integers, Sequences, FiniteSetsExt, Functions

CONSTANT Ladder   \* active_ladder(): <<[threshold, budget, notional], ...>>

Tiers == [threshold: Int, budget: Nat \ {0}, notional: Nat \ {0}]

ASSUME LadderAssumption ==
  /\ Len(Ladder) \in Nat \ {0}
  /\ DOMAIN Ladder = 1..Len(Ladder)
  /\ \A k \in DOMAIN Ladder : Ladder[k] \in Tiers
  /\ \A j, k \in DOMAIN Ladder :
       j < k => /\ Ladder[j].threshold < Ladder[k].threshold
                /\ Ladder[j].budget <= Ladder[k].budget

(* The rungs the loop of select_tier passes before it breaks; the first    *)
(* is the tier of a loss, too.                                             *)
Reached(pnl) ==
  {1} \cup {k \in DOMAIN Ladder : \A j \in 1..k : pnl >= Ladder[j].threshold}

SelectTier(pnl) == Ladder[Max(Reached(pnl))]

(* TOTAL_REALIZED_PNL_SQL over the closed trades: those that moved money,  *)
(* which paper trades, other venues and excluded strategies did not.       *)
RealizedPnl(trades) ==
  SumFunctionOnSet([k \in DOMAIN trades |-> trades[k].pnl], {k \in DOMAIN trades : trades[k].live})

=============================================================================
