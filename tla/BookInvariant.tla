--------------------------- MODULE BookInvariant ---------------------------
(***************************************************************************)
(* The inductive invariant behind the safety properties of Book: every     *)
(* value under way or in the cache is traced to the book a query saw.      *)
(***************************************************************************)
EXTENDS Book

(* A query gave the value on a book that had all trades closed until n     *)
(* ticks ago; or it failed, and Kelly's value is the empty payload.        *)
Traced(value, n) ==
  \/ \E k \in 0..Len(book) : /\ k = Len(book) \/ since[k + 1] <= n
                             /\ value \in Values(Prefix(k))
  \/ source = "kelly" /\ value = <<>>

(* While the query runs its age is that of the book it sees; the timestamp *)
(* of its answer is younger by the time it took.                           *)
JobTraced ==
  job # Idle => /\ job = [step |-> job.step, age |-> job.age, value |-> job.value]
                /\ Traced(job.value, IF job.step = "query" THEN job.age ELSE job.age + QueryMax)

CellTraced ==
  \A c \in cell : /\ c = [value |-> c.value, age |-> c.age]
                  /\ Traced(c.value, c.age + QueryMax)

OneCell == \A c, d \in cell : c = d

BookInv == BookTypeOK /\ OneCell /\ JobTraced /\ CellTraced

=============================================================================
