----------------------------- MODULE BookProofs -----------------------------
(***************************************************************************)
(* Proofs about Book, for any ladder, trades, ages and limits.             *)
(***************************************************************************)
EXTENDS BookInvariant, SumTheorems, SequenceTheorems

-----------------------------------------------------------------------------
(* The types of the state.                                                 *)

(* Ages grow by at most one.                                               *)
LEMMA OlderFacts ==
  ASSUME NEW n \in 0..AgeCap
  PROVE  AgeCap \in Nat /\ Older(n) \in 0..AgeCap /\ Older(n) <= n + 1
<1>1. AgeCap \in Nat
  BY BookAssumption DEF AgeCap
<1>2. Older(n) = IF n + 1 < AgeCap THEN n + 1 ELSE AgeCap
  <2> HIDE DEF AgeCap
  <2> QED
    BY <1>1 DEF Older, Min
<1> HIDE DEF AgeCap
<1> QED
  BY <1>1, <1>2

(* The trades of a shorter book are its first ones.                        *)
LEMMA BookFacts ==
  ASSUME BookTypeOK
  PROVE  /\ Len(book) \in Nat /\ DOMAIN book = 1..Len(book)
         /\ Prefix(Len(book)) = book
         /\ \A k \in 0..Len(book) : /\ Prefix(k) \in Seq(Trades)
                                    /\ Len(Prefix(k)) = k
                                    /\ \A i \in 1..k : Prefix(k)[i] = book[i]
<1>1. book \in Seq(Trades)
  BY DEF BookTypeOK
<1>2. Len(book) \in Nat /\ DOMAIN book = 1..Len(book)
  BY <1>1, LenProperties
<1>3. Prefix(Len(book)) = book
  BY <1>1, SubSeqFull DEF Prefix
<1>4. ASSUME NEW k \in 0..Len(book)
      PROVE  /\ Prefix(k) \in Seq(Trades)
             /\ Len(Prefix(k)) = k
             /\ \A i \in 1..k : Prefix(k)[i] = book[i]
  <2>1. \A i \in 1..k : book[i] \in Trades
    BY <1>1, <1>2, ElementOfSeq
  <2>2. /\ SubSeq(book, 1, k) \in Seq(Trades)
        /\ Len(SubSeq(book, 1, k)) = IF 1 <= k THEN k - 1 + 1 ELSE 0
        /\ \A i \in 1..k-1+1 : SubSeq(book, 1, k)[i] = book[1+i-1]
    BY <1>2, <2>1, SubSeqProperties
  <2> QED
    BY <1>2, <2>2 DEF Prefix
<1> QED
  BY <1>2, <1>3, <1>4

(* A trade that closes is appended to the book, with an age of nought.     *)
LEMMA CloseEffect ==
  ASSUME BookTypeOK, NEW t \in Trades, CloseTrade(t)
  PROVE  /\ book' \in Seq(Trades) /\ Len(book') = Len(book) + 1 /\ Len(book') <= MaxTrades
         /\ since' \in [DOMAIN book' -> 0..AgeCap]
         /\ \A k \in 1..Len(book) : since'[k] = since[k]
         /\ since'[Len(book) + 1] = 0
         /\ \A k \in 0..Len(book) : Prefix(k)' = Prefix(k)
<1>1. book \in Seq(Trades) /\ Len(book) \in Nat /\ DOMAIN book = 1..Len(book)
  BY BookFacts DEF BookTypeOK
<1>2. /\ book' \in Seq(Trades) /\ Len(book') = Len(book) + 1
      /\ \A k \in 1..Len(book) : book'[k] = book[k]
  BY <1>1 DEF CloseTrade
<1>3. since \in Seq(0..AgeCap) /\ Len(since) = Len(book)
  <2> DEFINE ages == 0..AgeCap
             n    == Len(book)
  <2>1. since \in [1..n -> ages] /\ n \in Nat
    BY <1>1 DEF BookTypeOK
  <2> HIDE DEF ages, n
  <2>2. since \in Seq(ages) /\ Len(since) = n
    BY <2>1
  <2> QED
    BY <2>2 DEF ages, n
<1>4. AgeCap \in Nat
  BY BookAssumption DEF AgeCap
<1>5. /\ since' \in Seq(0..AgeCap) /\ Len(since') = Len(book) + 1
      /\ \A k \in 1..Len(book) : since'[k] = since[k]
      /\ since'[Len(book) + 1] = 0
  <2> HIDE DEF AgeCap
  <2> QED
    BY <1>3, <1>4 DEF CloseTrade
<1>6. since' \in [DOMAIN book' -> 0..AgeCap]
  BY <1>2, <1>5, LenProperties
<1>7. Len(book') <= MaxTrades
  BY <1>1, <1>2, BookAssumption DEF CloseTrade
<1>8. ASSUME NEW k \in 0..Len(book)
      PROVE  Prefix(k)' = Prefix(k)
  <2>1. \A i \in 1..k : book[i] \in Trades /\ book'[i] \in Trades /\ book'[i] = book[i]
    BY <1>1, <1>2, ElementOfSeq
  <2>2. /\ SubSeq(book, 1, k) \in Seq(Trades)
        /\ Len(SubSeq(book, 1, k)) = k
        /\ \A i \in 1..k : SubSeq(book, 1, k)[i] = book[i]
    BY <1>8, BookFacts DEF Prefix
  <2>3. /\ SubSeq(book', 1, k) \in Seq(Trades)
        /\ Len(SubSeq(book', 1, k)) = IF 1 <= k THEN k - 1 + 1 ELSE 0
        /\ \A i \in 1..k-1+1 : SubSeq(book', 1, k)[i] = book'[1+i-1]
    BY <1>1, <2>1, SubSeqProperties
  <2>4. Len(SubSeq(book', 1, k)) = k /\ \A i \in 1..k : SubSeq(book', 1, k)[i] = book[i]
    BY <1>1, <2>1, <2>3
  <2>5. SubSeq(book', 1, k) = SubSeq(book, 1, k)
    BY <2>2, <2>3, <2>4, SeqEqual
  <2> QED
    BY <2>5 DEF Prefix
<1> QED
  BY <1>2, <1>5, <1>6, <1>7, <1>8

(* At most one cached value.                                               *)
LEMMA OneCellSize ==
  ASSUME NEW C, \A c, d \in C : c = d
  PROVE  Cardinality(C) <= 1
<1>1. C = {} \/ \E c : C = {c}
  OBVIOUS
<1> QED
  BY <1>1, FS_EmptySet, FS_Singleton

(* What is left of the cached value when time passes.                      *)
LEMMA TickCell ==
  ASSUME BookInv, Tick, NEW c \in cell'
  PROVE  \E d \in cell : /\ d.age < 2 * MaxAge
                         /\ c = [value |-> d.value, age |-> d.age + 1]
                         /\ c.value = d.value /\ c.age = d.age + 1
<1>1. PICK d \in cell : d.age < 2 * MaxAge /\ c = [d EXCEPT !.age = @ + 1]
  BY DEF Tick
<1>2. d = [value |-> d.value, age |-> d.age]
  BY DEF BookInv, CellTraced
<1>3. c = [value |-> d.value, age |-> d.age + 1]
  BY <1>1, <1>2
<1> QED
  BY <1>1, <1>3

(* The initial state is well typed.                                        *)
LEMMA BookTypeInit == BookInit => BookTypeOK
<1> SUFFICES ASSUME BookInit PROVE BookTypeOK
  OBVIOUS
<1>1. AgeCap \in Nat
  BY BookAssumption DEF AgeCap
<1>2. since \in [DOMAIN book -> 0..AgeCap]
  <2> HIDE DEF AgeCap
  <2> QED
    BY <1>1 DEF BookInit
<1>3. Cardinality(cell) <= 1
  BY OneCellSize DEF BookInit
<1> QED
  BY <1>2, <1>3, BookAssumption DEF BookInit, BookTypeOK

(* Every step keeps one cached value at most.                              *)
LEMMA OneCellStep == BookInv /\ [BookNext]_bookVars => OneCell'
<1> SUFFICES ASSUME BookInv, [BookNext]_bookVars PROVE OneCell'
  OBVIOUS
<1>1. CASE UNCHANGED cell
  BY <1>1 DEF OneCell, BookInv
<1>2. CASE cell' = Cached
  BY <1>2 DEF OneCell, Cached
<1>3. CASE Tick
  <2>1. ASSUME NEW c \in cell', NEW e \in cell' PROVE c = e
    BY <1>3, <2>1, TickCell DEF OneCell, BookInv
  <2> QED
    BY <2>1 DEF OneCell
<1> QED
  BY <1>1, <1>2, <1>3 DEF BookNext, bookVars, Cycle, CloseTrade, Begin, Answer, Write,
     WriteFails, QueryFails, Die, Restart

(* Every step keeps the types.                                             *)
LEMMA BookTypeStep == BookInv /\ [BookNext]_bookVars => BookTypeOK'
<1> SUFFICES ASSUME BookInv, [BookNext]_bookVars PROVE BookTypeOK'
  OBVIOUS
<1> USE DEF BookInv
<1>a. /\ MaxAge \in Nat /\ QueryMax \in Nat /\ Interval \in Nat \ {0} /\ MaxFaults \in Nat
      /\ MaxTrades \in Nat
  BY BookAssumption
<1>b. Cardinality(cell') <= 1
  BY OneCellStep, OneCellSize DEF OneCell
<1>1. ASSUME NEW t \in Trades, CloseTrade(t) PROVE BookTypeOK'
  <2>1. /\ book' \in Seq(Trades) /\ Len(book') <= MaxTrades
        /\ since' \in [DOMAIN book' -> 0..AgeCap]
    BY <1>1, CloseEffect
  <2>2. UNCHANGED <<source, job, timer, cell, alive, faults>>
    BY <1>1 DEF CloseTrade
  <2> QED
    BY <1>b, <2>1, <2>2 DEF BookTypeOK, Idle
<1>2. CASE Begin
  BY <1>a, <1>b, <1>2 DEF Begin, BookTypeOK, Idle
<1>3. CASE Answer
  <2>1. job'.step \in {"query", "set"} /\ job'.age \in 0..QueryMax
    BY <1>a, <1>3 DEF Answer, JobTraced
  <2> QED
    BY <1>b, <1>3, <2>1 DEF Answer, BookTypeOK
<1>4. CASE Write \/ WriteFails
  <2>1. job.age \in 0..QueryMax /\ Cached = {[value |-> job.value, age |-> job.age]}
    BY <1>4 DEF Write, WriteFails, BookTypeOK, Cached
  <2>2. cell' = Cached \/ cell' = cell
    BY <1>4 DEF Write, WriteFails
  <2>3. \A c \in cell' : c.age \in 0..(2 * MaxAge + QueryMax)
    BY <1>a, <2>1, <2>2 DEF BookTypeOK
  <2>4. faults' \in 0..MaxFaults
    BY <1>a, <1>4 DEF Write, WriteFails, Fault, BookTypeOK
  <2>5. job' = Idle /\ timer' \in 0..Interval /\ UNCHANGED <<source, book, since, alive>>
    BY <1>a, <1>4 DEF Write, WriteFails, Sleep
  <2> QED
    BY <1>b, <2>3, <2>4, <2>5 DEF BookTypeOK
<1>5. CASE QueryFails
  <2>1. faults' \in 0..MaxFaults
    BY <1>a, <1>5 DEF QueryFails, Fault, BookTypeOK
  <2>2. /\ job' = Idle \/ (job'.step \in {"query", "set"} /\ job'.age \in 0..QueryMax)
        /\ timer' \in 0..Interval
        /\ UNCHANGED <<source, book, since, cell, alive>>
    BY <1>a, <1>5 DEF QueryFails, Sleep, BookTypeOK
  <2> QED
    BY <1>b, <2>1, <2>2 DEF BookTypeOK
<1>6. CASE Die \/ Restart
  <2>1. faults' \in 0..MaxFaults
    BY <1>a, <1>6 DEF Die, Restart, Fault, BookTypeOK
  <2>2. job' = Idle /\ timer' \in 0..Interval
    BY <1>a, <1>6 DEF Die, Restart, BookTypeOK
  <2>3. alive' \in BOOLEAN
    BY <1>6 DEF Die, Restart
  <2>4. UNCHANGED <<source, book, since, cell>>
    BY <1>6 DEF Die, Restart
  <2> QED
    BY <1>b, <2>1, <2>2, <2>3, <2>4 DEF BookTypeOK
<1>7. CASE Tick
  <2>1. since' \in [DOMAIN book -> 0..AgeCap]
    <3>1. \A k \in DOMAIN book : Older(since[k]) \in 0..AgeCap
      BY OlderFacts DEF BookTypeOK
    <3> QED
      BY <1>7, <3>1 DEF Tick, BookTypeOK
  <2>2. job' = Idle \/ (job'.step \in {"query", "set"} /\ job'.age \in 0..QueryMax)
    BY <1>a, <1>7 DEF Tick, JobTraced, BookTypeOK
  <2>3. \A c \in cell' : c.age \in 0..(2 * MaxAge + QueryMax)
    <3> TAKE c \in cell'
    <3>1. PICK d \in cell : d.age < 2 * MaxAge /\ c.age = d.age + 1
      BY <1>7, TickCell
    <3> QED
      BY <1>a, <3>1 DEF BookTypeOK
  <2>4. timer' \in 0..Interval /\ UNCHANGED <<source, book, alive, faults>>
    BY <1>a, <1>7 DEF Tick, BookTypeOK
  <2> QED
    BY <1>b, <2>1, <2>2, <2>3, <2>4 DEF BookTypeOK
<1>8. CASE UNCHANGED bookVars
  BY <1>8 DEF bookVars, BookTypeOK, Idle
<1> QED
  BY <1>1, <1>2, <1>3, <1>4, <1>5, <1>6, <1>7, <1>8 DEF BookNext, Cycle

-----------------------------------------------------------------------------
(* Every value is traced to the book it was computed on.                   *)

(* The values a query gives depend on its source and on the trades.        *)
LEMMA ValuesKept ==
  ASSUME source' = source, NEW k, Prefix(k)' = Prefix(k)
  PROVE  Values(Prefix(k))' = Values(Prefix(k))
BY DEF Values

(* A trace goes on while the book stands and the ages grow no faster.      *)
LEMMA TracedKept ==
  ASSUME BookTypeOK, source' = source, book' = book, NEW n \in Nat, NEW m \in Nat, n <= m,
         \A k \in 1..Len(book) : since'[k] <= since[k] + (m - n),
         since' \in [DOMAIN book -> 0..AgeCap],
         NEW v, Traced(v, n)
  PROVE  Traced(v, m)'
<1>1. CASE source = "kelly" /\ v = <<>>
  BY <1>1 DEF Traced
<1>2. ASSUME NEW k \in 0..Len(book), k = Len(book) \/ since[k + 1] <= n,
             v \in Values(Prefix(k))
      PROVE  Traced(v, m)'
  <2>1. Prefix(k)' = Prefix(k)
    BY DEF Prefix
  <2>2. v \in Values(Prefix(k))'
    BY <1>2, <2>1, ValuesKept
  <2>3. k = Len(book) \/ since'[k + 1] <= m
    <3>1. CASE k # Len(book)
      <4>1. AgeCap \in Nat
        BY BookAssumption DEF AgeCap
      <4>2. k + 1 \in 1..Len(book) /\ DOMAIN book = 1..Len(book)
        <5> DEFINE len == Len(book)
        <5>1. len \in Nat /\ DOMAIN book = 1..len
          BY BookFacts
        <5>2. k \in 0..len /\ k # len
          BY <1>2, <3>1
        <5> HIDE DEF len
        <5>3. k + 1 \in 1..len
          BY <5>1, <5>2
        <5> QED
          BY <5>1, <5>3 DEF len
      <4>3. since[k + 1] \in Int /\ since'[k + 1] \in Int
        <5> HIDE DEF AgeCap
        <5> QED
          BY <4>1, <4>2 DEF BookTypeOK
      <4>4. since[k + 1] <= n /\ since'[k + 1] <= since[k + 1] + (m - n)
        BY <1>2, <3>1, <4>2
      <4> QED
        BY <4>3, <4>4
    <3> QED
      BY <3>1
  <2> QED
    BY <2>2, <2>3 DEF Traced
<1> QED
  BY <1>1, <1>2 DEF Traced

(* And when a trade closes.                                                *)
LEMMA TracedThroughClose ==
  ASSUME BookTypeOK, NEW t \in Trades, CloseTrade(t), NEW n \in Nat, NEW v, Traced(v, n)
  PROVE  Traced(v, n)'
<1>1. source' = source
  BY DEF CloseTrade
<1>2. CASE source = "kelly" /\ v = <<>>
  BY <1>1, <1>2 DEF Traced
<1>3. ASSUME NEW k \in 0..Len(book), k = Len(book) \/ since[k + 1] <= n,
             v \in Values(Prefix(k))
      PROVE  Traced(v, n)'
  <2>1. /\ Len(book') = Len(book) + 1 /\ Len(book) \in Nat
        /\ \A i \in 1..Len(book) : since'[i] = since[i]
        /\ since'[Len(book) + 1] = 0
        /\ Prefix(k)' = Prefix(k)
    BY CloseEffect, BookFacts
  <2>2. v \in Values(Prefix(k))'
    BY <1>1, <1>3, <2>1, ValuesKept
  <2>3. k \in 0..Len(book') /\ since'[k + 1] <= n
    BY <1>3, <2>1
  <2> QED
    BY <2>2, <2>3 DEF Traced
<1> QED
  BY <1>2, <1>3 DEF Traced

(* A query gives a value of the book as it is.                             *)
LEMMA TracedNow ==
  ASSUME BookTypeOK, NEW n \in Nat, NEW v \in Values(book)
  PROVE  Traced(v, n)
<1>1. Len(book) \in 0..Len(book) /\ Prefix(Len(book)) = book
  BY BookFacts
<1>2. v \in Values(Prefix(Len(book)))
  BY <1>1
<1> QED
  BY <1>1, <1>2 DEF Traced

(* How a step ages what it keeps: by a tick, or not at all.                *)
LEMMA TracedStep ==
  ASSUME BookTypeOK, BookTypeOK', [BookNext]_bookVars, NEW n \in Nat, NEW v, Traced(v, n)
  PROVE  (Tick => Traced(v, n + 1)') /\ (~Tick => Traced(v, n)')
<1>1. ASSUME Tick PROVE Traced(v, n + 1)'
  <2>1. source' = source /\ book' = book
    BY <1>1 DEF Tick
  <2>2. DOMAIN since = 1..Len(book)
    BY BookFacts DEF BookTypeOK
  <2>3. \A k \in 1..Len(book) : since'[k] <= since[k] + ((n + 1) - n)
    <3> TAKE k \in 1..Len(book)
    <3>1. since'[k] = Older(since[k]) /\ since[k] \in 0..AgeCap
      BY <1>1, <2>2 DEF Tick, BookTypeOK
    <3>2. AgeCap \in Nat /\ Older(since[k]) \in 0..AgeCap /\ Older(since[k]) <= since[k] + 1
      BY <3>1, OlderFacts
    <3> HIDE DEF AgeCap
    <3> QED
      BY <3>1, <3>2
  <2>4. since' \in [DOMAIN book -> 0..AgeCap]
    BY <2>1 DEF BookTypeOK
  <2> QED
    BY <2>1, <2>3, <2>4, TracedKept
<1>2. ASSUME UNCHANGED <<source, book, since>> PROVE Traced(v, n)'
  <2>1. DOMAIN since = 1..Len(book) /\ AgeCap \in Nat
    BY BookFacts, BookAssumption DEF BookTypeOK, AgeCap
  <2>2. \A k \in 1..Len(book) : since'[k] <= since[k] + (n - n)
    <3> HIDE DEF AgeCap
    <3> QED
      BY <1>2, <2>1 DEF BookTypeOK
  <2>3. since' \in [DOMAIN book -> 0..AgeCap]
    BY <1>2 DEF BookTypeOK
  <2> QED
    BY <1>2, <2>2, <2>3, TracedKept
<1>3. ASSUME NEW t \in Trades, CloseTrade(t) PROVE Traced(v, n)'
  BY <1>3, TracedThroughClose
<1>4. \/ Tick
      \/ UNCHANGED <<source, book, since>>
      \/ \E t \in Trades : CloseTrade(t)
  BY DEF BookNext, bookVars, Cycle, Begin, Answer, Write, WriteFails, QueryFails, Die, Restart
<1> QED
  BY <1>1, <1>2, <1>3, <1>4

(* Every step keeps the cached value traced.                               *)
LEMMA CellStep == BookInv /\ BookTypeOK' /\ [BookNext]_bookVars => CellTraced'
<1> SUFFICES ASSUME BookInv, BookTypeOK', [BookNext]_bookVars, NEW c \in cell'
             PROVE  /\ c = [value |-> c.value, age |-> c.age]
                    /\ Traced(c.value, c.age + QueryMax)'
  BY DEF CellTraced
<1>a. BookTypeOK /\ QueryMax \in Nat /\ MaxAge \in Nat
  BY BookAssumption DEF BookInv
<1>1. CASE Tick
  <2>1. PICK d \in cell : /\ c = [value |-> d.value, age |-> d.age + 1]
                          /\ c.value = d.value /\ c.age = d.age + 1
    BY <1>1, TickCell
  <2>2. Traced(d.value, d.age + QueryMax) /\ d.age + QueryMax \in Nat
    BY <1>a DEF BookInv, CellTraced, BookTypeOK
  <2>3. Traced(d.value, (d.age + QueryMax) + 1)'
    BY <1>a, <1>1, <2>2, TracedStep
  <2>4. (d.age + QueryMax) + 1 = c.age + QueryMax
    BY <1>a, <2>1, <2>2 DEF BookTypeOK
  <2> QED
    BY <2>1, <2>3, <2>4
<1>2. CASE c \in cell /\ ~Tick
  <2>1. /\ c = [value |-> c.value, age |-> c.age]
        /\ Traced(c.value, c.age + QueryMax) /\ c.age + QueryMax \in Nat
    BY <1>a, <1>2 DEF BookInv, CellTraced, BookTypeOK
  <2> QED
    BY <1>a, <1>2, <2>1, TracedStep
<1>3. CASE c \notin cell /\ ~Tick
  <2>1. Write \/ WriteFails
    BY <1>3 DEF BookNext, bookVars, Cycle, CloseTrade, Begin, Answer, QueryFails, Die, Restart
  <2>2. c = [value |-> job.value, age |-> job.age] /\ job # Idle /\ job.step = "set"
    BY <1>3, <2>1 DEF Write, WriteFails, Cached
  <2>3. Traced(job.value, job.age + QueryMax) /\ job.age + QueryMax \in Nat
    BY <1>a, <2>2 DEF BookInv, JobTraced, BookTypeOK
  <2>4. c.value = job.value /\ c.age = job.age
    BY <2>2
  <2>5. Traced(c.value, c.age + QueryMax) /\ c.age + QueryMax \in Nat
    BY <2>3, <2>4
  <2>6. Traced(c.value, c.age + QueryMax)'
    BY <1>a, <1>3, <2>5, TracedStep
  <2> QED
    BY <2>2, <2>4, <2>6
<1> QED
  BY <1>1, <1>2, <1>3

(* And the value under way.                                                *)
LEMMA JobStep == BookInv /\ BookTypeOK' /\ [BookNext]_bookVars => JobTraced'
<1> SUFFICES ASSUME BookInv, BookTypeOK', [BookNext]_bookVars, job' # Idle,
                    NEW step, step = job'.step, NEW age, age = job'.age,
                    NEW v, v = job'.value
             PROVE  /\ job' = [step |-> step, age |-> age, value |-> v]
                    /\ Traced(v, IF step = "query" THEN age ELSE age + QueryMax)'
  BY DEF JobTraced, Traced, Idle
<1>a. BookTypeOK /\ QueryMax \in Nat /\ MaxAge \in Nat
  BY BookAssumption DEF BookInv
<1>1. CASE Begin
  <2>1. PICK w \in Values(book) : job' = [step |-> "query", age |-> 0, value |-> w]
    BY <1>1 DEF Begin
  <2>2. step = "query" /\ age = 0 /\ v = w
    BY <2>1
  <2>3. Traced(w, 0)
    BY <1>a, <2>1, TracedNow
  <2>4. ~Tick
    BY <1>1, <2>1 DEF Begin, Tick
  <2> QED
    BY <1>a, <2>1, <2>2, <2>3, <2>4, TracedStep
<1>2. CASE job # Idle /\ job' = job /\ ~Tick
  <2>1. /\ job = [step |-> step, age |-> age, value |-> v]
        /\ Traced(v, IF step = "query" THEN age ELSE age + QueryMax)
        /\ age \in Nat
    BY <1>a, <1>2 DEF BookInv, JobTraced, BookTypeOK
  <2> QED
    BY <1>a, <1>2, <2>1, TracedStep
<1>3. CASE Answer
  <2>1. /\ job = [step |-> "query", age |-> job.age, value |-> job.value]
        /\ Traced(job.value, job.age) /\ job.age \in 0..QueryMax
    BY <1>a, <1>3 DEF Answer, BookInv, JobTraced, BookTypeOK
  <2>2. job' = [step |-> "set", age |-> 0, value |-> job.value]
    BY <1>3, <2>1 DEF Answer
  <2>3. step = "set" /\ age = 0 /\ v = job.value
    BY <2>2
  <2>4. UNCHANGED <<source, book, since>>
    BY <1>3 DEF Answer
  <2>5. Traced(v, QueryMax)'
    <3>1. DOMAIN since = 1..Len(book) /\ AgeCap \in Nat
      BY <1>a, BookFacts, BookAssumption DEF BookTypeOK, AgeCap
    <3>2. \A k \in 1..Len(book) : since'[k] <= since[k] + (QueryMax - job.age)
      <4> HIDE DEF AgeCap
      <4> QED
        BY <1>a, <2>1, <2>4, <3>1 DEF BookTypeOK
    <3>3. since' \in [DOMAIN book -> 0..AgeCap]
      BY <1>a, <2>4 DEF BookTypeOK
    <3> QED
      BY <1>a, <2>1, <2>3, <2>4, <3>2, <3>3, TracedKept
  <2> QED
    BY <1>a, <2>2, <2>3, <2>5
<1>4. CASE QueryFails
  <2>1. job' = [step |-> "set", age |-> 0, value |-> <<>>] /\ source' = "kelly"
    <3>1. source # "bankroll"
      BY <1>4 DEF QueryFails, Sleep
    <3> QED
      BY <1>a, <1>4, <3>1 DEF QueryFails, BookTypeOK
  <2>2. step = "set" /\ age = 0 /\ v = <<>>
    BY <2>1
  <2> QED
    BY <2>1, <2>2 DEF Traced
<1>5. CASE Tick
  <2>1. job # Idle /\ job' = [job EXCEPT !.age = @ + 1]
    BY <1>5 DEF Tick
  <2>2. /\ job = [step |-> job.step, age |-> job.age, value |-> job.value]
        /\ job.age \in Nat
        /\ Traced(job.value, IF job.step = "query" THEN job.age ELSE job.age + QueryMax)
    BY <1>a, <2>1 DEF BookInv, JobTraced, BookTypeOK
  <2>3. job' = [step |-> job.step, age |-> job.age + 1, value |-> job.value]
    BY <2>1, <2>2
  <2>4. step = job.step /\ age = job.age + 1 /\ v = job.value
    BY <2>3
  <2>5. CASE step = "query"
    <3>1. Traced(v, age - 1) /\ age - 1 \in Nat /\ (age - 1) + 1 = age
      BY <2>2, <2>4, <2>5
    <3>2. Traced(v, (age - 1) + 1)'
      BY <1>a, <1>5, <3>1, TracedStep
    <3> QED
      BY <2>3, <2>4, <2>5, <3>1, <3>2
  <2>6. CASE step # "query"
    <3>1. /\ (age - 1) + QueryMax \in Nat
          /\ ((age - 1) + QueryMax) + 1 = age + QueryMax
          /\ job.age + QueryMax = (age - 1) + QueryMax
      BY <1>a, <2>2, <2>4
    <3>2. Traced(v, (age - 1) + QueryMax)
      BY <2>2, <2>4, <2>6, <3>1
    <3>3. Traced(v, ((age - 1) + QueryMax) + 1)'
      BY <1>a, <1>5, <3>1, <3>2, TracedStep
    <3> QED
      BY <2>3, <2>4, <2>6, <3>1, <3>3
  <2> QED
    BY <2>5, <2>6
<1>6. \/ Begin \/ Answer \/ QueryFails \/ Tick
      \/ job # Idle /\ job' = job /\ ~Tick
  BY DEF BookNext, bookVars, Cycle, CloseTrade, Write, WriteFails, Sleep, Die, Restart
<1> QED
  BY <1>1, <1>2, <1>3, <1>4, <1>5, <1>6

(* Every step preserves the invariant.                                     *)
LEMMA BookInvStep == BookInv /\ [BookNext]_bookVars => BookInv'
BY BookTypeStep, OneCellStep, JobStep, CellStep DEF BookInv

(* It holds initially.                                                     *)
LEMMA BookInvInit == BookInit => BookInv
BY BookTypeInit DEF BookInit, BookInv, OneCell, JobTraced, CellTraced

(* Every value under way or in the cache comes from the book a query saw   *)
(* no longer ago than its timestamp and the query say.                     *)
THEOREM BookTraced == BookSpec => []BookInv
BY BookInvInit, BookInvStep, PTL DEF BookSpec

(* Every reachable state is well typed, with at most one cached value.     *)
THEOREM BookTyped == BookSpec => []BookTypeOK
<1>1. BookInv => BookTypeOK
  BY DEF BookInv
<1> QED
  BY BookTraced, <1>1, PTL

-----------------------------------------------------------------------------
(* What is trusted comes from a recent book.                               *)

(* A trusted value that no failed query gave is one of a book that had all *)
(* the trades but those of the last MaxAge + QueryMax ticks.               *)
LEMMA FreshIsRecent ==
  ASSUME BookInv, NEW c \in cell, Fresh(c), source # "kelly" \/ c.value # <<>>
  PROVE  \E k \in 0..Len(book) : RecentPrefix(k) /\ c.value \in Values(Prefix(k))
<1>1. PICK k \in 0..Len(book) : /\ k = Len(book) \/ since[k + 1] <= c.age + QueryMax
                                /\ c.value \in Values(Prefix(k))
  BY DEF BookInv, CellTraced, Traced
<1>2. /\ c.age \in Int /\ c.age <= MaxAge /\ MaxAge \in Nat /\ QueryMax \in Nat
      /\ AgeCap \in Nat
  BY BookAssumption DEF BookInv, BookTypeOK, Fresh, AgeCap
<1>3. RecentPrefix(k)
  <2>1. CASE k # Len(book)
    <3> DEFINE len == Len(book)
    <3>1. len \in Nat /\ DOMAIN book = 1..len
      BY BookFacts DEF BookInv
    <3>2. k \in 0..len /\ k # len
      BY <1>1, <2>1
    <3> HIDE DEF len
    <3>3. k + 1 \in DOMAIN book
      BY <3>1, <3>2
    <3>4. since[k + 1] \in Int
      <4> HIDE DEF AgeCap
      <4> QED
        BY <1>2, <3>3 DEF BookInv, BookTypeOK
    <3>5. since[k + 1] <= c.age + QueryMax
      BY <1>1, <2>1
    <3>6. since[k + 1] <= MaxAge + QueryMax
      BY <1>2, <3>4, <3>5
    <3> QED
      BY <3>6 DEF RecentPrefix
  <2> QED
    BY <2>1 DEF RecentPrefix
<1> QED
  BY <1>1, <1>3

(* The tier in effect is that of a recent book.                            *)
LEMMA TierTraced == BookInv => TierIsRecent
<1> SUFFICES ASSUME BookInv, NEW c \in cell, source = "bankroll", Fresh(c)
             PROVE  \E n \in 0..Len(book) :
                      RecentPrefix(n) /\ c.value = SelectTier(RealizedPnl(Prefix(n)))
  BY DEF TierIsRecent, EffectiveTiers
<1>1. PICK k \in 0..Len(book) : RecentPrefix(k) /\ c.value \in Values(Prefix(k))
  BY FreshIsRecent
<1>2. c.value = SelectTier(RealizedPnl(Prefix(k)))
  BY <1>1 DEF Values
<1> QED
  BY <1>1, <1>2

(* The highest rung reached is the last whose threshold the profit meets.  *)
LEMMA ReachedMax ==
  ASSUME NEW pnl \in Int
  PROVE  /\ Max(Reached(pnl)) \in Reached(pnl)
         /\ \A k \in Reached(pnl) : k <= Max(Reached(pnl))
<1>1. Reached(pnl) \subseteq 1..Len(Ladder) /\ Len(Ladder) \in Nat
  BY LadderAssumption DEF Reached
<1>2. 1 \in Reached(pnl)
  BY DEF Reached
<1> DEFINE room == {Len(Ladder) - k : k \in Reached(pnl)}
           top  == Len(Ladder) - Min(room)
<1>3. room \in SUBSET Nat /\ room # {}
  BY <1>1, <1>2
<1>4. Min(room) \in room /\ \A m \in room : Min(room) <= m
  <2> HIDE DEF room
  <2> QED
    BY <1>3, MinNat
<1>5. top \in Reached(pnl) /\ \A k \in Reached(pnl) : k <= top
  <2>1. PICK n \in Reached(pnl) : Min(room) = Len(Ladder) - n
    BY <1>4
  <2>2. top = n
    BY <1>1, <2>1
  <2>3. ASSUME NEW k \in Reached(pnl) PROVE k <= n
    <3>1. Len(Ladder) - k \in room
      OBVIOUS
    <3>2. Len(Ladder) - n <= Len(Ladder) - k
      <4> HIDE DEF room
      <4> QED
        BY <1>4, <2>1, <3>1
    <3> QED
      BY <1>1, <3>2
  <2> QED
    BY <2>2, <2>3
<1> HIDE DEF top
<1>6. Reached(pnl) \subseteq Int
  BY <1>1
<1>7. \E k \in Reached(pnl) : \A j \in Reached(pnl) : k >= j
  BY <1>5, <1>6
<1>8. /\ Max(Reached(pnl)) \in Reached(pnl)
      /\ \A j \in Reached(pnl) : Max(Reached(pnl)) >= j
  BY <1>7 DEF Max
<1> QED
  BY <1>6, <1>8

(* A larger profit never lowers the budget, and a profit below a threshold *)
(* never selects its tier: select_tier climbs the ladder rung by rung.     *)
THEOREM LadderClimbed ==
  ASSUME NEW p \in Int, NEW q \in Int, p <= q
  PROVE  /\ SelectTier(p) \in Tiers
         /\ SelectTier(p).budget <= SelectTier(q).budget
         /\ SelectTier(p) = Ladder[1] \/ SelectTier(p).threshold <= p
<1> DEFINE a == Max(Reached(p))
           b == Max(Reached(q))
<1>1. a \in Reached(p) /\ b \in Reached(q) /\ \A k \in Reached(q) : k <= b
  BY ReachedMax
<1>2. /\ DOMAIN Ladder = 1..Len(Ladder) /\ Len(Ladder) \in Nat \ {0}
      /\ \A k \in DOMAIN Ladder : Ladder[k].threshold \in Int /\ Ladder[k].budget \in Int
      /\ \A j, k \in DOMAIN Ladder : j < k => Ladder[j].budget <= Ladder[k].budget
      /\ \A k \in DOMAIN Ladder : Ladder[k] \in Tiers
  BY LadderAssumption DEF Tiers
<1> HIDE DEF a, b
<1>3. a \in DOMAIN Ladder /\ b \in DOMAIN Ladder
  BY <1>1, <1>2 DEF Reached
<1>4. a \in Reached(q)
  <2>1. CASE a = 1
    BY <2>1 DEF Reached
  <2>2. CASE a # 1
    <3>1. \A j \in 1..a : p >= Ladder[j].threshold /\ Ladder[j].threshold \in Int
      BY <1>1, <1>2, <1>3, <2>2 DEF Reached
    <3>2. \A j \in 1..a : q >= Ladder[j].threshold
      BY <3>1
    <3> QED
      BY <1>3, <3>2 DEF Reached
  <2> QED
    BY <2>1, <2>2
<1>5. a <= b
  BY <1>1, <1>4
<1>6. Ladder[a].budget <= Ladder[b].budget
  BY <1>2, <1>3, <1>5
<1>7. a = 1 \/ Ladder[a].threshold <= p
  <2> SUFFICES ASSUME a # 1 PROVE Ladder[a].threshold <= p
    OBVIOUS
  <2>1. \A j \in 1..a : p >= Ladder[j].threshold
    BY <1>1 DEF Reached
  <2>2. a \in 1..a /\ Ladder[a].threshold \in Int
    BY <1>2, <1>3
  <2> QED
    BY <2>1, <2>2
<1>8. SelectTier(p) = Ladder[a] /\ SelectTier(q) = Ladder[b]
  BY DEF SelectTier, a, b
<1> QED
  BY <1>2, <1>3, <1>6, <1>7, <1>8

(* A drawdown takes the caps back in bounded time, whatever fails.         *)
THEOREM TierRecent == BookSpec => []TierIsRecent
BY BookTraced, TierTraced, PTL

-----------------------------------------------------------------------------
(* The Kelly multiplier.                                                   *)

(* The trades of a book, as far as the multipliers read them.              *)
LEMMA RowFacts ==
  ASSUME NEW trades \in Seq(Trades), NEW s
  PROVE  /\ RowsOf(trades, s) \in SUBSET Nat /\ IsFiniteSet(DOMAIN trades)
         /\ RowsOf(trades, s) \subseteq DOMAIN trades
         /\ IsFiniteSet(RowsOf(trades, s))
         /\ \A k \in RowsOf(trades, s) :
              /\ Returns(trades)[k] \in Int
              /\ Squares(trades)[k] = Returns(trades)[k] * Returns(trades)[k]
<1>1. Len(trades) \in Nat /\ DOMAIN trades = 1..Len(trades)
  BY LenProperties
<1>2. IsFiniteSet(DOMAIN trades)
  BY <1>1, FS_Interval
<1>3. RowsOf(trades, s) \subseteq DOMAIN trades
  BY DEF RowsOf, Sized
<1>4. IsFiniteSet(RowsOf(trades, s))
  BY <1>2, <1>3, FS_Subset
<1>5. ASSUME NEW k \in RowsOf(trades, s)
      PROVE  Return(trades[k]) \in Int
  <2>1. trades[k] \in Trades /\ trades[k].size > 0
    BY <1>1, ElementOfSeq DEF RowsOf, Sized
  <2>2. trades[k].pnl \in Int /\ trades[k].size \in Nat /\ Unit \in Nat
    BY <2>1, BookAssumption, KellyAssumption
  <2>3. \A x, d \in Int : d > 0 => x \div d \in Int
    OBVIOUS
  <2>4. trades[k].pnl * Unit \in Int
    BY <2>2
  <2> QED
    BY <2>1, <2>2, <2>3, <2>4 DEF Return
<1> QED
  BY <1>1, <1>2, <1>3, <1>4, <1>5 DEF Returns, Squares, RowsOf

(* What is fetched of a strategy is its latest trades: LIMIT cuts old ones. *)
LEMMA FetchedIsRecent ==
  ASSUME NEW trades \in Seq(Trades), NEW s, Fetched(trades, s) # {}
  PROVE  \E k \in RowsOf(trades, s) :
           Fetched(trades, s) = {j \in RowsOf(trades, s) : j >= k}
<1> DEFINE rows    == RowsOf(trades, s)
           earlier == UNION {RowsOf(trades, t) : t \in {u \in Slugs : SlugRank[u] < SlugRank[s]}}
           Latest(k) == {j \in rows : j >= k}
<1>1. rows \in SUBSET Nat /\ IsFiniteSet(rows)
  BY RowFacts
<1>2. Cardinality(earlier) \in Nat
  <2>1. earlier \in SUBSET DOMAIN trades /\ IsFiniteSet(DOMAIN trades)
    BY RowFacts
  <2> QED
    BY <2>1, FS_Subset, FS_CardinalityType
<1>3. RowLimit \in Nat
  BY KellyAssumption
<1>4. Fetched(trades, s) =
        {k \in rows : Cardinality(earlier) + Cardinality(Latest(k)) <= RowLimit}
  BY DEF Fetched
<1> HIDE DEF rows, earlier
<1>5. ASSUME NEW j \in rows, NEW k \in Fetched(trades, s), j >= k
      PROVE  j \in Fetched(trades, s)
  <2>1. k \in rows /\ Cardinality(earlier) + Cardinality(Latest(k)) <= RowLimit
    BY <1>4
  <2>2. Latest(j) \in SUBSET Latest(k) /\ Latest(k) \in SUBSET rows
    <3>1. j \in Int /\ k \in Int /\ \A i \in rows : i \in Int
      BY <1>1, <1>5, <2>1
    <3>2. \A i \in rows : i >= j => i >= k
      BY <1>5, <3>1
    <3> QED
      BY <3>2
  <2>3. /\ IsFiniteSet(Latest(k)) /\ IsFiniteSet(Latest(j))
        /\ Cardinality(Latest(j)) <= Cardinality(Latest(k))
    <3> HIDE DEF Latest
    <3> QED
      BY <1>1, <2>2, FS_Subset
  <2>4. Cardinality(Latest(k)) \in Nat /\ Cardinality(Latest(j)) \in Nat
    BY <2>3, FS_CardinalityType
  <2>5. Cardinality(earlier) + Cardinality(Latest(j)) <= RowLimit
    <3> HIDE DEF Latest
    <3> QED
      BY <1>2, <1>3, <2>1, <2>3, <2>4
  <2> QED
    BY <1>4, <2>5
<1>6. PICK k \in Fetched(trades, s) : \A j \in Fetched(trades, s) : k <= j
  <2>1. Fetched(trades, s) \in SUBSET Nat
    BY <1>1, <1>4
  <2> QED
    BY <2>1, MinNat
<1>7. k \in rows
  BY <1>4, <1>6
<1>8. Fetched(trades, s) = {j \in rows : j >= k}
  <2>1. ASSUME NEW j \in Fetched(trades, s) PROVE j \in rows /\ j >= k
    BY <1>1, <1>4, <1>6, <1>7
  <2> QED
    BY <1>5, <1>7, <2>1
<1> QED
  BY <1>7, <1>8 DEF rows

(* A clamp, written out.                                                   *)
LEMMA ClampForm ==
  ASSUME NEW lo \in Int, NEW hi \in Int, NEW x \in Int
  PROVE  Max({lo, Min({hi, x})}) =
           IF lo >= (IF hi <= x THEN hi ELSE x) THEN lo ELSE (IF hi <= x THEN hi ELSE x)
<1> DEFINE z == Min({hi, x})
<1>1. z = IF hi <= x THEN hi ELSE x
  BY DEF Min
<1>2. z \in Int
  BY <1>1
<1>3. Max({lo, z}) = IF lo >= z THEN lo ELSE z
  <2> HIDE DEF z
  <2> QED
    BY <1>2 DEF Max
<1> QED
  BY <1>1, <1>3

(* What a clamp leaves above a number that is no less than its lower bound *)
(* was above that number.                                                  *)
LEMMA Clamped ==
  ASSUME NEW lo \in Int, NEW hi \in Int, NEW x \in Int,
         NEW y \in Int, y >= lo, Max({lo, Min({hi, x})}) > y
  PROVE  x > y
BY ClampForm

(* A clamp keeps its bounds.                                               *)
LEMMA ClampBounds ==
  ASSUME NEW lo \in Int, NEW hi \in Int, NEW x \in Int, lo <= hi
  PROVE  Max({lo, Min({hi, x})}) \in lo..hi
<1> DEFINE z == IF hi <= x THEN hi ELSE x
<1>1. z \in Int /\ z <= hi
  OBVIOUS
<1>2. Max({lo, Min({hi, x})}) = IF lo >= z THEN lo ELSE z
  BY ClampForm
<1> HIDE DEF z
<1>3. (IF lo >= z THEN lo ELSE z) \in lo..hi
  BY <1>1
<1> QED
  BY <1>2, <1>3

(* What compute_allocation makes of the trades that are fetched.           *)
FetchedSum(trades, s) == SumFunctionOnSet(Returns(trades), Fetched(trades, s))
FetchedSpread(trades, s) ==
  Cardinality(Fetched(trades, s)) * SumFunctionOnSet(Squares(trades), Fetched(trades, s))
    - FetchedSum(trades, s) * FetchedSum(trades, s)
FetchedQuotient(trades, s) ==
  (Discount * Unit * FetchedSum(trades, s) * (Cardinality(Fetched(trades, s)) - 1))
    \div FetchedSpread(trades, s)

(* The variance is never negative, so that the quotient is of the sign of  *)
(* the mean.                                                               *)
LEMMA SpreadFacts ==
  ASSUME NEW trades \in Seq(Trades), NEW s
  PROVE  /\ Cardinality(Fetched(trades, s)) \in Nat
         /\ FetchedSum(trades, s) \in Int
         /\ FetchedSpread(trades, s) \in Nat
<1> DEFINE fetched == Fetched(trades, s)
           n       == Cardinality(fetched)
           sum     == SumFunctionOnSet(Returns(trades), fetched)
           squares == SumFunctionOnSet(Squares(trades), fetched)
<1>1. /\ IsFiniteSet(fetched)
      /\ \A k \in fetched :
           /\ Returns(trades)[k] \in Int
           /\ Squares(trades)[k] = Returns(trades)[k] * Returns(trades)[k]
  <2>1. fetched \in SUBSET RowsOf(trades, s)
    BY DEF Fetched
  <2> HIDE DEF fetched
  <2> QED
    BY <2>1, RowFacts, FS_Subset
<1>2. n \in Nat /\ sum \in Int /\ squares \in Int
  <2>1. \A k \in fetched : Squares(trades)[k] \in Int
    BY <1>1
  <2> HIDE DEF fetched
  <2> QED
    BY <1>1, <2>1, FS_CardinalityType, SumInt
<1>3. sum * sum <= n * squares
  <2> HIDE DEF fetched
  <2> QED
    BY <1>1, SpreadNotNegative
<1>4. FetchedSum(trades, s) = sum /\ FetchedSpread(trades, s) = n * squares - sum * sum
  BY DEF FetchedSum, FetchedSpread
<1>5. n \in Nat /\ sum \in Int /\ n * squares - sum * sum \in Nat
  <2> HIDE DEF n, sum, squares
  <2>1. sum * sum \in Int /\ n * squares \in Int
    BY <1>2
  <2> QED
    BY <1>2, <1>3, <2>1
<1> QED
  BY <1>4, <1>5

(* The quotient, where it is taken, has the sign of the sum.               *)
LEMMA QuotientFacts ==
  ASSUME NEW trades \in Seq(Trades), NEW s,
         Cardinality(Fetched(trades, s)) >= MinTrades, FetchedSpread(trades, s) # 0
  PROVE  /\ FetchedQuotient(trades, s) \in Int
         /\ FetchedSum(trades, s) <= 0 => FetchedQuotient(trades, s) <= 0
<1> DEFINE n      == Cardinality(Fetched(trades, s))
           sum    == FetchedSum(trades, s)
           spread == FetchedSpread(trades, s)
           top    == Discount * Unit * sum * (n - 1)
<1>1. n \in Nat /\ n >= MinTrades /\ sum \in Int /\ spread \in Nat /\ spread # 0
  BY SpreadFacts
<1>2. Discount \in Nat /\ Unit \in Nat /\ MinTrades \in Nat \ {0, 1}
  BY KellyAssumption
<1>3. FetchedQuotient(trades, s) = top \div spread
  BY DEF FetchedQuotient
<1> HIDE DEF n, sum, spread
<1>4. spread > 0 /\ n - 1 \in Nat /\ Discount * Unit \in Nat
  BY <1>1, <1>2
<1>5. top \in Int /\ (sum <= 0 => top <= 0)
  <2>1. \A a \in Nat, b \in Int : a * b \in Int /\ (b <= 0 => a * b <= 0)
    OBVIOUS
  <2>2. Discount * Unit * sum \in Int /\ (sum <= 0 => Discount * Unit * sum <= 0)
    BY <1>1, <1>4, <2>1
  <2>3. \A a \in Int, b \in Nat : a * b \in Int /\ (a <= 0 => a * b <= 0)
    OBVIOUS
  <2> QED
    BY <1>4, <2>2, <2>3
<1> HIDE DEF top
<1>6. top \div spread \in Int /\ (top <= 0 => top \div spread <= 0)
  <2>1. \A y, d \in Int : d > 0 => y \div d \in Int /\ (y <= 0 => y \div d <= 0)
    OBVIOUS
  <2> QED
    BY <1>1, <1>4, <1>5, <2>1
<1> QED
  BY <1>3, <1>5, <1>6 DEF sum

(* A multiplier is neutral, a bound on the side of the sum, or the clamped *)
(* quotient.                                                               *)
LEMMA AllocationForm ==
  ASSUME NEW trades \in Seq(Trades), NEW s, NEW m \in ComputeAllocation(trades, s)
  PROVE  \/ m = NeutralKelly
         \/ m = IF FetchedSum(trades, s) > 0 THEN Ceiling ELSE Floor
         \/ /\ Cardinality(Fetched(trades, s)) >= MinTrades
            /\ FetchedSpread(trades, s) # 0
            /\ m = Max({Floor, Min({Ceiling, FetchedQuotient(trades, s)})})
<1> DEFINE n      == Cardinality(Fetched(trades, s))
           sum    == FetchedSum(trades, s)
           spread == FetchedSpread(trades, s)
           x      == FetchedQuotient(trades, s)
<1>1. n \in Nat /\ MinTrades \in Nat
  BY SpreadFacts, KellyAssumption
<1>2. m \in IF n < MinTrades \/ (spread = 0 /\ sum = 0) THEN {NeutralKelly}
            ELSE IF spread = 0 THEN {NeutralKelly, IF sum > 0 THEN Ceiling ELSE Floor}
            ELSE {Max({Floor, Min({Ceiling, x})})}
  BY DEF ComputeAllocation, FetchedSum, FetchedSpread, FetchedQuotient
<1> HIDE DEF n, sum, spread, x
<1>3. \/ m = NeutralKelly
      \/ m = IF sum > 0 THEN Ceiling ELSE Floor
      \/ n >= MinTrades /\ spread # 0 /\ m = Max({Floor, Min({Ceiling, x})})
  BY <1>1, <1>2
<1> QED
  BY <1>3 DEF n, sum, spread, x

(* Amplification wants a profit.                                           *)
LEMMA AmplifiedMeansProfit ==
  ASSUME NEW trades \in Seq(Trades), NEW s,
         NEW m \in ComputeAllocation(trades, s), m > NeutralKelly
  PROVE  FetchedSum(trades, s) > 0
<1>1. Floor \in Int /\ Ceiling \in Int /\ 100 \in Int /\ 100 >= Floor
  BY KellyAssumption
<1>2. FetchedSum(trades, s) \in Int
  BY SpreadFacts
<1>3. CASE m = IF FetchedSum(trades, s) > 0 THEN Ceiling ELSE Floor
  BY <1>1, <1>3 DEF NeutralKelly
<1>4. CASE /\ Cardinality(Fetched(trades, s)) >= MinTrades
           /\ FetchedSpread(trades, s) # 0
           /\ m = Max({Floor, Min({Ceiling, FetchedQuotient(trades, s)})})
  <2>1. /\ FetchedQuotient(trades, s) \in Int
        /\ FetchedSum(trades, s) <= 0 => FetchedQuotient(trades, s) <= 0
    BY <1>4, QuotientFacts
  <2>2. Max({Floor, Min({Ceiling, FetchedQuotient(trades, s)})}) > 100
    BY <1>4 DEF NeutralKelly
  <2>3. FetchedQuotient(trades, s) > 100
    BY <1>1, <2>1, <2>2, Clamped
  <2> QED
    BY <1>2, <2>1, <2>3
<1> QED
  BY <1>3, <1>4, AllocationForm DEF NeutralKelly

(* Whatever the trades, a multiplier stays within its bounds.              *)
LEMMA AllocationBounded ==
  ASSUME NEW trades \in Seq(Trades), NEW s, NEW m \in ComputeAllocation(trades, s)
  PROVE  m \in Floor..Ceiling
<1>1. Floor \in 0..100 /\ Ceiling \in Nat /\ Ceiling >= 100
  BY KellyAssumption
<1>2. CASE /\ Cardinality(Fetched(trades, s)) >= MinTrades
           /\ FetchedSpread(trades, s) # 0
           /\ m = Max({Floor, Min({Ceiling, FetchedQuotient(trades, s)})})
  <2>1. FetchedQuotient(trades, s) \in Int
    BY <1>2, QuotientFacts
  <2>2. Floor \in Int /\ Ceiling \in Int /\ Floor <= Ceiling
    BY <1>1
  <2> QED
    BY <1>2, <2>1, <2>2, ClampBounds
<1>3. NeutralKelly \in Floor..Ceiling /\ Ceiling \in Floor..Ceiling /\ Floor \in Floor..Ceiling
  BY <1>1 DEF NeutralKelly
<1>4. CASE m = IF FetchedSum(trades, s) > 0 THEN Ceiling ELSE Floor
  BY <1>3, <1>4
<1> QED
  BY <1>2, <1>3, <1>4, AllocationForm

(* A strategy amplified on some trades made a profit on the latest of them. *)
LEMMA AmplifiedProfited ==
  ASSUME NEW trades \in Seq(Trades), NEW s,
         NEW m \in ComputeAllocation(trades, s), m > NeutralKelly
  PROVE  Profited(trades, s)
<1>1. SumFunctionOnSet(Returns(trades), Fetched(trades, s)) > 0
  BY AmplifiedMeansProfit DEF FetchedSum
<1>2. Fetched(trades, s) # {}
  BY <1>1, SumEmpty
<1>3. PICK k \in RowsOf(trades, s) :
        Fetched(trades, s) = {j \in RowsOf(trades, s) : j >= k}
  BY <1>2, FetchedIsRecent
<1> QED
  BY <1>1, <1>3, Zenon DEF Profited

(* Hence for the multiplier a reader trusts.                               *)
LEMMA AmplifiedTraced == BookInv => AmplifiedOnlyWinners
<1> SUFFICES ASSUME BookInv, NEW s \in Slugs, ReadMultiplier(s) > NeutralKelly
             PROVE  \E n \in 0..Len(book) : RecentPrefix(n) /\ Profited(Prefix(n), s)
  BY DEF AmplifiedOnlyWinners
<1> DEFINE found == {c \in cell : source = "kelly" /\ Fresh(c) /\ s \in DOMAIN c.value}
<1>1. found # {}
  BY DEF ReadMultiplier, NeutralKelly
<1>2. PICK c \in found : ReadMultiplier(s) = c.value[s]
  BY <1>1 DEF ReadMultiplier
<1>3. c.value # <<>>
  BY <1>2
<1>4. PICK k \in 0..Len(book) : RecentPrefix(k) /\ c.value \in Values(Prefix(k))
  BY <1>2, <1>3, FreshIsRecent
<1>5. c.value \in Allocations(Prefix(k)) /\ s \in DOMAIN c.value
  BY <1>2, <1>4 DEF Values
<1>6. c.value[s] \in ComputeAllocation(Prefix(k), s)
  BY <1>5 DEF Allocations
<1>7. Prefix(k) \in Seq(Trades)
  BY BookFacts DEF BookInv
<1>8. Profited(Prefix(k), s)
  <2> HIDE DEF found
  <2> QED
    BY <1>2, <1>6, <1>7, AmplifiedProfited
<1> QED
  BY <1>4, <1>8

(* The multiplier a reader gets is within its bounds, cached or not.       *)
LEMMA ReadBounded ==
  ASSUME BookInv, NEW s \in Slugs
  PROVE  ReadMultiplier(s) \in Floor..Ceiling
<1> DEFINE found == {c \in cell : source = "kelly" /\ Fresh(c) /\ s \in DOMAIN c.value}
<1>1. CASE found = {}
  <2>1. ReadMultiplier(s) = NeutralKelly
    BY <1>1 DEF ReadMultiplier
  <2> QED
    BY <2>1, KellyAssumption DEF NeutralKelly
<1>2. CASE found # {}
  <2>1. PICK c \in found : ReadMultiplier(s) = c.value[s]
    BY <1>2 DEF ReadMultiplier
  <2>2. PICK k \in 0..Len(book) : c.value \in Values(Prefix(k))
    BY <2>1, FreshIsRecent
  <2>3. c.value[s] \in ComputeAllocation(Prefix(k), s)
    BY <2>1, <2>2 DEF Values, Allocations
  <2>4. Prefix(k) \in Seq(Trades)
    BY BookFacts DEF BookInv
  <2> HIDE DEF found
  <2> QED
    BY <2>1, <2>3, <2>4, AllocationBounded
<1> QED
  BY <1>1, <1>2

(* Whatever the cache holds, a Kelly multiplier never leaves the bounds of *)
(* kelly_floor_multiplier and kelly_ceiling_multiplier.                    *)
THEOREM MultiplierBounded == BookSpec => [](\A s \in Slugs : ReadMultiplier(s) \in Floor..Ceiling)
<1>1. BookInv => \A s \in Slugs : ReadMultiplier(s) \in Floor..Ceiling
  BY ReadBounded
<1> QED
  BY BookTraced, <1>1, PTL

(* A strategy's capital is raised only on a recent profit of its own.      *)
THEOREM WinnersAmplified == BookSpec => []AmplifiedOnlyWinners
BY BookTraced, AmplifiedTraced, PTL

=============================================================================
