-------------------------------- MODULE Book --------------------------------
(***************************************************************************)
(* Two values derived from the closed trades and cached in Redis with a    *)
(* timestamp: the bankroll tier, refreshed by a loop of the gateway        *)
(* (bankroll_refresher.py), and the Kelly multipliers, refreshed by a call *)
(* that nothing schedules (kelly_allocator.py).  Both are computed from a  *)
(* query, stamped when its answer is there, and written; readers trust     *)
(* them for MaxAge.  The two share nothing but the trades, so a behaviour  *)
(* follows one of them, its source.                                        *)
(***************************************************************************)
EXTENDS Bankroll, Kelly

CONSTANTS
  Trades,      \* trades that may close: [slug, pnl, size, live]
  History,     \* those that closed long ago, the latest last
  MaxTrades,   \* bound on the number of all
  MaxAge,      \* BANKROLL_STATE_TTL_SEC, ALLOCATIONS_STATE_TTL_SEC, in ticks
  Interval,    \* bankroll_refresh_interval_sec
  QueryMax,    \* longest time a query or a SET takes
  MaxFaults    \* bound on failures of Redis or Postgres and process deaths

ASSUME BookAssumption ==
  /\ \A t \in Trades : t.slug \in Slugs /\ t.pnl \in Int /\ t.size \in Nat /\ t.live \in BOOLEAN
  /\ {MaxTrades, MaxAge, QueryMax, MaxFaults} \subseteq Nat
  /\ Interval \in Nat \ {0}
  /\ History \in Seq(Trades) /\ Len(History) <= MaxTrades

VARIABLES
  source,   \* "bankroll" or "kelly"
  book,     \* closed trades, the latest last
  since,    \* ticks since each was closed
  job,      \* the refresh under way: its step, its age, its value
  timer,    \* ticks the loop still sleeps
  cell,     \* the cached values: at most one, with the age of its timestamp
  alive,    \* is the refreshing process up?
  faults

bookVars == <<source, book, since, job, timer, cell, alive, faults>>

(* Ages beyond every limit are not told apart.                             *)
AgeCap    == MaxAge + QueryMax + 1
Older(n)  == Min({n + 1, AgeCap})

Idle      == [step |-> "idle"]
Prefix(n) == SubSeq(book, 1, n)

Values(trades) ==
  IF source = "bankroll" THEN {SelectTier(RealizedPnl(trades))} ELSE Allocations(trades)

BookTypeOK ==
  /\ source \in {"bankroll", "kelly"}
  /\ book \in Seq(Trades) /\ Len(book) <= MaxTrades
  /\ since \in [DOMAIN book -> 0..AgeCap]
  /\ job = Idle \/ /\ job.step \in {"query", "set"}
                   /\ job.age \in 0..QueryMax
  /\ timer \in 0..Interval
  /\ Cardinality(cell) <= 1
  /\ \A c \in cell : c.age \in 0..(2 * MaxAge + QueryMax)
  /\ alive \in BOOLEAN /\ faults \in 0..MaxFaults

BookInit ==
  /\ source \in {"bankroll", "kelly"}
  /\ book = History /\ since = [k \in DOMAIN History |-> AgeCap]
  /\ cell = {}
  /\ job = Idle /\ timer = 0 /\ alive = TRUE /\ faults = 0

CloseTrade(t) ==
  /\ Len(book) < MaxTrades
  /\ book'  = Append(book, t)
  /\ since' = Append(since, 0)
  /\ UNCHANGED <<source, job, timer, cell, alive, faults>>

-----------------------------------------------------------------------------
(* A cycle begins: the loop's sleep is over, or someone calls Kelly's      *)
(* run_once.  The query sees what is closed by now, and decides the value. *)
Begin ==
  /\ alive /\ job = Idle /\ timer = 0
  /\ \E v \in Values(book) : job' = [step |-> "query", age |-> 0, value |-> v]
  /\ UNCHANGED <<source, book, since, timer, cell, alive, faults>>

(* The answer is there: the value is stamped with the time of now.         *)
Answer ==
  /\ job # Idle /\ job.step = "query"
  /\ job' = [job EXCEPT !.step = "set", !.age = 0]
  /\ UNCHANGED <<source, book, since, timer, cell, alive, faults>>

Sleep ==
  /\ job'   = Idle
  /\ timer' = IF source = "bankroll" THEN Interval ELSE 0

(* SET with an expiry of twice the time it is trusted.                     *)
CachedBeside   == cell \cup {[value |-> job.value, age |-> job.age]}
CachedOnChange == IF \E c \in cell : c.value = job.value THEN cell
                  ELSE {[value |-> job.value, age |-> job.age]}
CachedLate     == {[value |-> job.value, age |-> 0]}
Cached         == {[value |-> job.value, age |-> job.age]}
Write ==
  /\ job # Idle /\ job.step = "set"
  /\ cell' = Cached
  /\ Sleep
  /\ UNCHANGED <<source, book, since, alive, faults>>

Fault == faults < MaxFaults /\ faults' = faults + 1

(* A failed SET is logged; it may have been executed.                      *)
WriteFails ==
  /\ Fault
  /\ job # Idle /\ job.step = "set"
  /\ cell' = Cached \/ UNCHANGED cell
  /\ Sleep
  /\ UNCHANGED <<source, book, since, alive>>

(* A failed query: the loop gives up the cycle, Kelly writes a payload of  *)
(* no strategies, with a timestamp of now.                                 *)
QueryFails ==
  /\ Fault
  /\ job # Idle /\ job.step = "query"
  /\ IF source = "bankroll"
       THEN Sleep
       ELSE /\ job' = [step |-> "set", age |-> 0, value |-> <<>>]
            /\ UNCHANGED timer
  /\ UNCHANGED <<source, book, since, cell, alive>>

(* The process dies, and is restarted with no refresh under way.           *)
Die ==
  /\ Fault
  /\ alive
  /\ alive' = FALSE /\ job' = Idle /\ timer' = 0
  /\ UNCHANGED <<source, book, since, cell>>
Restart ==
  /\ ~alive /\ job = Idle
  /\ alive' = TRUE
  /\ UNCHANGED <<source, book, since, job, timer, cell, faults>>

(* Time passes, but not while a step that is due has not been taken; the   *)
(* key goes when its expiry is over.                                       *)
Tick ==
  /\ job # Idle => job.age < QueryMax
  /\ source = "bankroll" /\ alive /\ job = Idle => timer > 0
  /\ since' = [k \in DOMAIN since |-> Older(since[k])]
  /\ job'   = IF job = Idle THEN Idle ELSE [job EXCEPT !.age = @ + 1]
  /\ timer' = IF timer > 0 THEN timer - 1 ELSE 0
  /\ cell'  = {[c EXCEPT !.age = @ + 1] : c \in {d \in cell : d.age < 2 * MaxAge}}
  /\ UNCHANGED <<source, book, alive, faults>>

Cycle == Begin \/ Answer \/ Write

BookNext ==
  \/ \E t \in Trades : CloseTrade(t)
  \/ Cycle \/ WriteFails \/ QueryFails \/ Die \/ Restart
  \/ Tick

(* The process steps and is restarted, and time passes.  That Kelly's      *)
(* run_once is called is not claimed: CapsFollowBook is about the loop.    *)
BookSpec ==
  /\ BookInit /\ [][BookNext]_bookVars
  /\ WF_bookVars(Cycle) /\ WF_bookVars(Restart) /\ WF_bookVars(Tick)

-----------------------------------------------------------------------------
(* is_state_fresh, and the same test in read_allocation_multiplier.        *)
FreshWhileCached(c) == c.age <= 2 * MaxAge
Fresh(c)            == c.age <= MaxAge

(* effective_strategy_budget and effective_order_notional: the tier whose  *)
(* fields they return, if any.                                             *)
EffectiveTiers == {c.value : c \in {d \in cell : source = "bankroll" /\ Fresh(d)}}

(* read_allocation_multiplier: a slug without an entry is neutral.         *)
ReadMultiplier(s) ==
  LET found == {c \in cell : source = "kelly" /\ Fresh(c) /\ s \in DOMAIN c.value}
  IN  IF found = {} THEN NeutralKelly ELSE (CHOOSE c \in found : TRUE).value[s]

(* The first n trades were all the closed ones within the last MaxAge +    *)
(* QueryMax ticks.                                                         *)
RecentPrefix(n) == n = Len(book) \/ since[n + 1] <= MaxAge + QueryMax

(* A drawdown takes the caps back in bounded time, whatever fails: the     *)
(* tier in effect is that of a book no older than a trusted timestamp plus *)
(* the query it follows (bankroll_aware_sizing.py:3-5, 107-110).           *)
TierIsRecent ==
  \A tier \in EffectiveTiers :
    \E n \in 0..Len(book) : RecentPrefix(n) /\ tier = SelectTier(RealizedPnl(Prefix(n)))

(* The latest trades of the slug made a profit.                            *)
Profited(trades, s) ==
  \E k \in RowsOf(trades, s) :
    SumFunctionOnSet(Returns(trades), {j \in RowsOf(trades, s) : j >= k}) > 0

(* A strategy's capital is raised only on a profit of its own among trades *)
(* as recent as that (kelly_allocator.py:20-22, 82, 207-208).              *)
AmplifiedOnlyWinners ==
  \A s \in Slugs : ReadMultiplier(s) > NeutralKelly =>
    \E n \in 0..Len(book) : RecentPrefix(n) /\ Profited(Prefix(n), s)

(* When trades, failures and deaths are over, the tier in effect becomes   *)
(* and stays that of the book: refreshes come faster than the timestamp    *)
(* ages, and no failure ends the loop (bankroll_refresher.py:10-12).       *)
CapsFollowBook ==
  source = "bankroll" => <>[](EffectiveTiers = {SelectTier(RealizedPnl(book))})

=============================================================================
