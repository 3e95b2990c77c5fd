------------------------- MODULE MCBudgetReservation -------------------------
(* Instances of BudgetReservation and of its invariant for TLC. *)
EXTENDS BudgetInvariant

CONSTANTS e1, e2, e3, s1

(* Three deliveries: two of one alpha and one of another, each wanting two *)
(* dollars of a budget of three.                                           *)
MCEntries    == {e1, e2, e3}
MCAlphaOf    == [e \in MCEntries |-> IF e = e3 THEN e1 ELSE e]
MCStrategies == {s1}
MCStrategyOf == [e \in MCEntries |-> s1]
MCWant       == [e \in MCEntries |-> 2]
MCCap        == [s \in MCStrategies |-> 3]

=============================================================================
