------------------------------- MODULE MCBook -------------------------------
(* An instance of Book for TLC: a strategy that wins and loses real money, *)
(* and one whose wins are on paper.                                        *)
EXTENDS BookInvariant

CONSTANTS s1, s2

MCSlugs    == {s1, s2}
MCSlugRank == [s \in MCSlugs |-> IF s = s1 THEN 1 ELSE 2]

MCLadder == <<[threshold |-> 0,  budget |-> 2, notional |-> 1],
              [threshold |-> 10, budget |-> 4, notional |-> 2],
              [threshold |-> 30, budget |-> 6, notional |-> 3]>>

Trade(s, pnl, live) == [slug |-> s, pnl |-> pnl, size |-> 100, live |-> live]
MCTrades == {Trade(s1, 30, TRUE), Trade(s1, -20, TRUE), Trade(s2, 20, FALSE)}
MCHistory == <<Trade(s1, 30, TRUE)>>

=============================================================================
