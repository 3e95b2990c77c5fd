---------------------------- MODULE MCSupervisor ----------------------------
(* An instance of Supervisor for TLC: all four tasks, bankroll-aware       *)
(* sizing being enabled, and up to two health requests at a time.          *)
EXTENDS Supervisor

CONSTANTS q1, q2

MCTasks    == {"router", "health", "metrics", "bankroll"}
MCRequests == {q1, q2}

=============================================================================
