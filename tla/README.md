# A TLA+ verification of oms-gateway

oms-gateway consumes trading alphas from a Redis stream, decides on each (halts,
drawdowns, caps, budget), and inserts an `oms_intents` row that a venue adapter later
turns into a position. This directory models that decision path, the values it caches, the
backfill script and the life of the process: TLA+ modules, TLC configurations and
machine-checked proofs. File references are relative to
`src/src/oms_gateway/` unless they start with `src/`.

## 1. Inventory

| component | state | operations | what makes it correct |
|---|---|---|---|
| **Stream loop** `router.py` `loop`, `ensure_consumer_group` | the group's last-delivered id and pending list in Redis; a local batch and `ack_ids` | XREADGROUP `>`, route each entry, XACK the batch; sleep on a failed read; log and go on when a handler raises | nothing acknowledged that was not decided; no entry routed twice; one bad entry does not hold up the rest; every alpha is decided in the end |
| **Routing** `router.py` `_route_one` | its local variables between some ten awaits | halts, snapshots, exposure and sizing, position, bucket and cluster exposure, reservation, preflight, release, insert, TCA row | what was read before the awaits may still be relied on when it is used after them |
| **Budget reservation** `budget_reservation.py` | one Redis float per strategy slug with a time to live | INCRBYFLOAT + EXPIRE; a decrement on rejection; errors swallowed | the counter covers every order the database does not show; never counts one twice; an amount does not stay for ever |
| **Sizing** `sizing.py` | none | `compute_notional`: bucket size or override, hint, confidence, multiplier, headroom, per-order cap, rounding | an order fits the headroom it was cut to |
| **Preflight** `preflight.py` | none | ten checks in a fixed order, first failure wins; `cluster_for`, `cluster_sql_filter` | each check bounds what it is about, over any sequence of orders |
| **Database** `db.py` | `positions`, `oms_intents`, `fills_tca`, `risk_ledger` | aggregates; two inserts, the first `ON CONFLICT DO NOTHING` | one intent per alpha; at most one TCA row per intent |
| **Bankroll tiers** `bankroll_aware_sizing.py`, `bankroll_refresher.py` | a JSON value in Redis with a timestamp and an expiry | query the realized profit every minute, pick the rung, stamp, SET; readers fall back to the static cap when it is stale | the tier in effect follows the book, downwards too, whatever fails |
| **Kelly allocator** `kelly_allocator.py` | the same, one multiplier per strategy | query of the closed trades (ordered, limited), allocation, SET, read | a strategy is raised on its own recent profit only |
| **Liquidity Pulse** `lp_multiplier.py` | none (reads Redis) | fetch, parse, clamp | never amplifies on missing or stale data |
| **Fills backfill** `src/scripts/backfill_fills_tca.py` | a transaction over `public.fills` | count, insert rows for filled intents that have none, commit | no second row beside the router's, or its own |
| **Supervisor** `main.py`, `db.connect`, `db.close` | asyncio tasks, stop event, connection pool | connect, start, wait for the first to end, cancel the rest, close | the process ends, and restarts, as a whole; nothing is closed while in use |
| **Metrics, health** `metrics.py`, `health.py` | an in-memory snapshot; a listening socket | refresh, render; answer | they survive failures, and give their connection back |
| **Max-loss, settings, Redis handle** | configuration | a comparison without a caller; parsing; a lazy client | - |

How they interact: producers XADD to `alphas:active`; one loop per process routes one
alpha at a time, so concurrency comes from several processes, the venue adapter, the
risk watcher, the operator's halt keys and the clock, all of which move between any two
awaits of a handler. Routers share the positions table and the Redis counter. A queued
intent is in neither `positions` nor any exposure sum until the adapter has filled it,
so between those two moments only the counter knows of it. The supervisor runs router,
health server and two refresh loops in one process, on one pool; what they cache goes
through Redis, where any process reads it.

Hard behaviours: exposure read long before it is decided on; a counter that expires as
a whole; two Redis commands that are one in intention; replies lost after the command
took effect; a handler raising after its insert committed; a process dying before XACK;
the same alpha published twice; checks that see filled orders only; sizes that are
scaled after they are capped; cached values trusted for ten minutes; a one-shot script
beside running routers; a shutdown in the middle of queries.

## 2. Modules

| module | models | role |
|---|---|---|
| `BudgetReservation` | `budget_reservation.py`, its use in `router.py`, `db.insert_intent` | the reservation protocol with expiry, failures, crashes, any number of routers |
| `BudgetLedger` | abstract | what the budget promises: check and admission in one step |
| `BudgetInvariant` | - | the assumption `Timely` and the inductive invariant `IndInv` |
| `AlphaStream` | `router.py` `loop`, `main.py`, both inserts of `db.py` | delivery, acknowledgement, crash, restart |
| `FillsTca` | `backfill_fills_tca.py` | the script beside the routers; extends `AlphaStream` |
| `Sizing` | `sizing.py` | `ComputeNotional`, as the set of results rounding allows |
| `Preflight` | `preflight.py` | `Evaluate`, the ten checks in order; extends `Sizing` |
| `Cluster` | `preflight.py` `cluster_for`, `cluster_sql_filter`; `sizing.py` `derive_venue` | which cluster an asset is in, and which assets its filter selects |
| `LpMultiplier` | `lp_multiplier.py` | parsing, freshness and clamp of a payload |
| `Router` | `router.py` `_route_one`, reads of `db.py` | one action per await; extends `Cluster` (hence `Preflight`) and `LpMultiplier` |
| `RouterInvariant` | - | the inductive invariants behind the properties of `Router`, and the environments some of them need |
| `Bankroll` | `bankroll_aware_sizing.py` `select_tier`, the query of `bankroll_refresher.py` | the ladder and the profit that climbs it |
| `Kelly` | `kelly_allocator.py` | the query and the allocation, as a set where floats decide |
| `Book` | both refreshers and their cached values | query, stamp, write, age, read, with failures; extends `Bankroll` and `Kelly` |
| `BookInvariant` | - | the inductive invariant behind the properties of `Book` |
| `Supervisor` | `main.py`, starts of its tasks, the pool of `db.py` | the life of the process |
| `MCBudgetReservation`, `MCAlphaStream`, `MCRouter`, `MCBook`, `MCSupervisor` | - | instances for TLC |
| `SumTheorems` | - | what `SumFunctionOnSet` of the community modules does when members and values change |
| `BudgetReservationProofs`, `BudgetSafetyProofs`, `RouterProofs`, `RouterSerialProofs`, `BookProofs`, `StreamProofs`, `SupervisorProofs` | - | theorems and proofs |

### BudgetReservation

An *entry* is a delivery of an alpha; several entries may carry one alpha. `pc[e]` names
the next await of its handler, `amt[e]` is `proposed_notional`, `seen[e]` the open
positions its exposure read summed, `total[e]` `reservation_total_pending`; `intent[e]`
is the row it inserted, together with the position the row became; `pending[s]` and
`ttl[s]` are the Redis key of a slug and its time to live, with Redis' own -2 (no key)
and -1 (no expiry). `Reserve` is INCRBYFLOAT and `Expire` the EXPIRE behind it, two
actions because they are two awaits; `ReserveFails`, `ExpireFails` and `ReleaseFails`
are the swallowed exceptions, each with and without the command having taken effect.
`Reject` leaves open which check rejected; only the budget check, the last one, is
spelled out (`WithinBudget`). `Abandon` is a process death, and equally an exception out
of an unguarded await: either way the handler's entry is not read again. `Tick` lets
time pass; it waits for what must be over within `RouteMax` (from the exposure read to
the insert) and `SettleMax` (from insert to position). `NextAlpha`, where `Steady`, lets the
loop go on for ever with the finitely many entries of an instance: one that is over, has no
order and holds no part of the counter becomes the next alpha. Amounts are whole dollars and
marks stand still: neither matters to the protocol. `AmountsAssumption` requires a
positive cap, since the code takes 0 for "no budget".

### AlphaStream and FillsTca

`lastId` and `pel` are the consumer group's; `batch`, `ackIds` and `loop` the worker's.
Routing is reduced to what survives it: `rows` (the intent of an alpha) and `fills` (its
TCA rows). `RouteRaises` is an exception before or at the insert, which may have
committed; the entry is then left out of `ack_ids` and the batch goes on. `Crash` drops
what a worker held, `Restart` finds the group as it was. All workers read with the same
group, as the fixed `consumer_name` in `settings.py` has it: the pending list is not kept
per consumer. `outcome` is the log line an entry ended with; `Lose` marks what a crash or
a lost reply cut off, which is how `EverythingAccountedFor` tells such an entry from one
dropped in silence.

`FillsTca` adds the script: `Report` (the count; a dry run ends there), `SelectCandidates`
(the INSERT ... SELECT, which sees what is committed when it starts), `Commit`,
`RollBack`. The router's two inserts are two statements on one pool, so an intent may be
filled and selected between them; `recording` remembers those.

### Sizing, Preflight, Cluster, LpMultiplier, Router

Amounts are naturals on a grid of `Cent` units to the cent; percentages of equity appear
as the amounts they come to, and each dict or CSV of the settings as the function or set
it parses to. `ComputeNotional` returns a set because the tie of a rounding is decided
by the float. In `Cluster` an asset is its class and the sequence of its words; a cluster is
its kind and the words of its head, so that the LIKE pattern of the filter is "starts with
this word and has another". In `LpMultiplier` a payload is what the parser tells apart:
missing, malformed, an object or other JSON; a finite number, NaN or none; fresh, stale or
without a usable stamp. The assets whose name starts with a tracked alias are the domain
of `LpPayloads`. `RaiseOnPayload` is the `.get` on a payload that is no object.

`Router` reads step by step into `reads[e]`, sizes into `order[e]`, and
`Decide` evaluates `Request(e)`, what was read, not what is. The slug comes from the
metadata and the strategy id from the row, so an alpha may have one without the other
(`NoSlug`): the budget, the strategy halt and the reservation then do not apply. The
counter is the atomic, never failing one here; `Forget` lets it go only when nobody
relies on it, which is what `KeysOutlive` of `BudgetInvariant` proves of the detailed
protocol. Venue adapter, risk watcher, operator and mark-to-market job are external
(`Settle`, `Refuse`, `Exit`, `Snapshot`, `SwitchHalt`, `Mark`): that the adapter nets an
order into the position of its strategy and asset is an assumption read off the queries
of `db.py`.

### Bankroll, Kelly, Book

The two refreshers have one shape: a query over closed trades, a value computed from the
answer, a stamp, a SET with an expiry of twice the trusted age, readers that compare the
stamp with the clock. `Book` models the shape once and lets `source` choose the value, so a
behaviour follows one of the two. `book` is the sequence of closed trades with `since`,
their ages; `job` the refresh under way (`Begin` takes the query's view of the trades,
`Answer` stamps, `Write` sets); `cell` the cached value, if any. `QueryFails` differs: the
bankroll loop gives up the cycle, Kelly writes a payload of no strategies with a stamp of
now. The loop sleeps `Interval` after a cycle, failed or not; Kelly's `run_once`, which
nothing schedules, may be called at any time. `EffectiveTiers` and `ReadMultiplier` are
what a reader gets. `ComputeAllocation` is a set because a variance that is zero in exact
arithmetic may be positive in floats (section 5).

### Supervisor

`phase` is where `_run` is; `task[t]` whether a task is starting, idle, using a connection
(`querying`), being unwound after its cancellation, or over. `CancelAll` ends idle tasks at
once; one inside a query needs `Unwind` to give its connection back, and `gather` waits for
it. Health requests are not tasks of `_run`: they go on during the shutdown until their
connection is returned, for which `EndClose`, asyncpg's `Pool.close`, waits. `up` says which
stores answer; the actions that need one fail while it is down: `ConnectFails` and a failing
`StartRouter` end the process, a failing cycle does not.

## 3. Runs

| run | shows | instance |
|---|---|---|
| `budget_safe` | `BudgetRespected`, `InFlightCovered`, `IndInv`, `ClearsUnlessRenewed`, and that the atomic ledger is implemented | 3 entries, two of one alpha, 3 routers, crashes, rejected alphas followed by others without end (`Steady`), TTL 4 > 1 + 2*1, fairness |
| `budget_faults` | `PhantomBounded` (no order counted twice), `OneIntentPerAlpha` | any Redis command may fail or lose its reply, crashes, EXPIRE arbitrarily late |
| `stream_safe` | `AckedOnlyWhenDecided`, `OneFillPerIntent`, `CountedOnce`, `RoutedOnce`, `EverythingAccountedFor` | 2 workers, 3 entries, batches of 2, one crash, every await may fail, the script run any number of times |
| `router_serial` | `PositionCapped`, `BucketCapped`, `ClusterCapped`, `SizedWithinHeadroom`, `NoScaleIn`, and `CapInv` | 5 alphas of 2 strategies on 2 assets in any order; each order settles before the next alpha; one budget is not whole cents, so that rounding exceeds its headroom |
| `router_races` | `BudgetCapped`, `StopsHonoured`, `AmplifiedOnlyOnData`, and `BudgetInv`, `StopsSeen` | 2 handlers interleaved at every await, a close without a slug, late settlement, 2 switches of halts or drawdowns, one move of a mark, stale and broken multiplier payloads |
| `book` | `TierIsRecent`, `AmplifiedOnlyWinners`, `CapsFollowBook`, and `BookInv` | 3 trades of 2 strategies, one of them long closed; ladder of 3; trusted for 4 ticks, refreshed each tick, queries of a tick; one fault |
| `supervisor` | `PoolOutlivesTasks`, `FailsTogether`, `Recovers` | 4 tasks, 2 requests, 4 faults (outage, lost reply, taken port, signal, kill) |
| `budget_negative` | violation: the counter goes below zero | one failing command |
| `budget_stuck` | violation: a reservation that never clears | one crash |
| `stream_lost` | violation: an alpha that is never decided | one crash, no other failure |
| `router_scale_in` | violation: two openings of one position | 2 alphas, late settlement |
| `router_cluster` | violation: a cluster over its cap | 2 alphas on 2 markets of one underlying, settled in turn |

The first seven pass; each also checks the type invariant of its module. `ReservationClears`,
the code's own promise, is violated by a crash alone, and by an endless row of alphas alone:
each reservation restarts the expiry of its strategy's key, also that of an alpha which is
then rejected, so that a settled order may block the budget for as long as alphas keep coming.
`budget_stuck` shows the first, with `Steady` off. What is left of the promise is
`ClearsUnlessRenewed`, which `budget_safe` checks with `Steady` on: an amount whose key has an
expiry goes unless another reservation of the strategy is made meanwhile. `EverythingDecided`, violated by a crash, has its passing
counterpart in `EverythingAccountedFor`.

**Bounds.** Two entries race, and a third is needed for a router that reads after one
order settled and before another reserves; each wants 2 of a budget of 3, so two orders
never fit and one may be cut. TTL 4 is the least value above
SettleMax + 2 * RouteMax for one tick each; with TTL 3 the same run is violated, so the
bound is tight and the case reached. In the stream three entries in batches of two give
a full and a short batch, a duplicate and a bad payload. In `router_serial` each cap is
small enough to be hit by two or three orders and no two caps hide one another (order 8,
budget 14, for one strategy 11, position 12, cluster 15, bucket 20). A cent is 2 units there,
so a budget of 11 leaves a headroom of an odd number of units, which rounds to half a cent more. The two assets of `router_serial` are a
pair and a market that starts with its underlying, for which the filter of the cluster is
right; `router_cluster` has the question-shaped market for which it is not. In `book` a
row limit of 2 under 3 trades makes the limit cut, one win is past every age so that
`TierIsRecent` can be violated by trusting it, and the paper wins of the second strategy
count for Kelly but not for the bankroll. `CapsFollowBook` needs
`MaxAge >= Interval + 3 * QueryMax`: a value may age by a query and a SET of the next cycle
besides the interval before it is replaced. The code has 600 s against 60 s. Four faults in
`supervisor` allow, for instance, an outage during the start, one during work, a lost reply
and a signal in one behaviour. `MaxEntries`, `MaxCrashes`, `MaxMoves`, `MaxChanges`,
`MaxTrades` and the two `MaxFaults` are the only counters bounded. `Steady` is off in the three
other budget runs: with it `budget_faults`, where
failures leave amounts in the counter, has too many states, and `budget_stuck` and
`budget_negative` show one cause each. Deadlock is not checked in
the stream and router runs, where all published work may be done and nothing is left to do;
elsewhere the clock ticks or something is due. The last two of the five alphas of
`router_serial` are alike, and TLC takes them for one another (`SYMMETRY`): no property of
that run is a liveness property.

**Fairness.** Weak fairness of each handler (`RouteStep`, `LoopStep`): asyncio resumes an
await that returned, and every await returns or raises. Of the adapter: it serves
everything queued. Of `Tick`. Of `Restart`: `restart: unless-stopped` in
`src/docker-compose.yml:5`. In `Book`, of `Cycle`, `Restart` and `Tick`: a query or a SET
returns or raises; failures are separate actions without fairness, finitely many. In
`Supervisor`, of each task and of `_run` by the same argument, of `Restart`, and of `ComeUp`:
an outage ends; without it the gateway restarts for ever, which is what it should do.
Nothing is assumed of producers, further alphas (`NextAlpha`), crashes, signals, closes or the backfill script.

**Preconditions.** `router_serial` is `Serial`: one process, alphas taken up when no order
is queued (`SettledFirst`), marks that stand still. The code does not guarantee it; `router_scale_in` shows what happens to
`NoScaleIn` without it, and the bucket, cluster and position caps are open to the same
race, since none of those exposures has a reservation. `BudgetCapped`, which has one,
needs no such assumption, but holds only until a mark moves: a rising price takes an
exposure over its budget whatever the router does. `CountedOnce` excepts the intents in
`recording`: between a router's two inserts nothing keeps the script from its own. It also
takes one run of the script at a time. `TierIsRecent` and `AmplifiedOnlyWinners` speak of a
book no older than the trusted age and the query before the stamp: the stamp says when the
answer came, not when the rows were read.

## 4. What is proved

For every value of the constants within the named ASSUMEs:

- `TypeCorrect`, `OneIntent`, `CounterBounded`: `Spec => []TypeOK`, `[]OneIntentPerAlpha`
  and `[]PhantomBounded` of `BudgetReservation`, with all failures and any timing.
- `BudgetSafe`: `Timely => (Spec => []BudgetRespected)`. Queued orders and open positions
  of a strategy never exceed its cap, for any number of routers, entries and crashes.
- `CounterCovers`, `InductiveInvariant`: under `Timely` the counter always covers the
  orders that are reserved or queued, and `IndInv` always holds.
- `LedgerImplemented`: under `Timely` the protocol implements `BudgetLedger`; the notional
  of a ledger row is the entry's amount once it has a row that was not rejected.
- `AckedAreDecided`, `FilledOnce`, `HandledOnce`: the safety and action properties of `AlphaStream`,
  for any workers, batch size, stream and crashes.
- `RouterProofs`: `[]TypeOK`, `[]SizedWithinHeadroom`, `[]AmplifiedOnlyOnData`, `[]StopsSeen`
  and `[]StopsHonoured` of `Router`, for any alphas, settings, payloads and number of
  processes interleaved; `BudgetBridged`, `BudgetKept`: `[]BudgetInv` and `[]BudgetCapped`
  when `Slugged`.
- `RouterSerialProofs`: when `Serial`, `BucketKept` and `NoneScaledIn`, `[]BucketCapped` and
  the action property `NoScaleIn`; with `FilterComplete` also `ClusterKept`,
  `[]ClusterCapped`, or with `WellNamed` in its place (`FilterExact`, `ClusterKeptByName`);
  with `FullOrderFits` also `CapsKept` and `PositionKept`, `[]CapInv` and `[]PositionCapped`.
- `BookTraced`, `BookTyped`, `TierRecent`, `WinnersAmplified`: `BookSpec => []BookInv`,
  `[]BookTypeOK`, `[]TierIsRecent` and `[]AmplifiedOnlyWinners`, for any ladder, trades,
  history, limits, ages and failures; `MultiplierBounded`, that a multiplier read is between
  the floor and the ceiling; `LadderClimbed`, that `select_tier` is monotone in the profit.
- `TcaTyped`, `IntentCountedOnce`: `TcaSpec => []TcaTypeOK` and `[]CountedOnce`, the
  routers and the script together.
- `SupervisorTyped`, `PoolOutlives`: the safety properties of `Supervisor`, for any tasks, requests
  and faults.

`Timely` says that Redis does not fail, that EXPIRE follows INCRBYFLOAT within a tick, and
that `TTL > SettleMax + 2 * RouteMax`: a reservation may be made `RouteMax` before its
insert, which settles within `SettleMax`, which a second router misses for `RouteMax` more.
With the code's 300 seconds this is a condition on the deployment, not a fact about the
code: the adapter must fill or refuse an order in under 300 s less two routings.

**Budget.** `BudgetRespected` is not inductive. `IndInv` adds: `Consistent`, how handler,
row and amount go together; `KeysOutlive`, three lower bounds on a key's remaining life, for
the handler that reserved, for the queued order, and for the handler that has not seen an
order settle; `InFlightCovered` and `MissedCovered`, the counter covers what is in flight
and, for a handler about to reserve, everything its read missed; `PassingFits`, decided
orders and those bound to be accepted fit under the cap together. The budget check of the
last one to reserve then counts all others, in `seen` or in `total`, which is the argument
for `ReserveInv`; the expiry of a key is harmless by `KeysOutlive` (`TickInv`). There is a
lemma per action, and `IndInvStep` combines them. `SumsShrink` and `KeysKept` serve the
actions that neither grow a sum nor touch a key. The refinement needs one invisible step
per action, and `InsertAdmits`, which takes `BudgetRespected'` for the ledger's check.
`PhantomBounded` needs no more than types, since it bounds the counter from above: a lemma
each for a step that leaves the counter, a reservation (`PhantomReserved`) and a release
(`PhantomReleased`).

**Router.** Each hypothesis is one the property needs. `Slugged` says that an alpha that may
open a position carries its strategy's slug: the router takes strategy id and slug from
different places (`router.py:53-71`), and without a slug neither reserves nor checks the
budget (`router.py:247-249`), while the position it opens still counts. `Serial` is the
environment `router_scale_in` shows `NoScaleIn` to fail without. `FilterComplete` says that
the filter of a cluster selects every market of the cluster, which `router_cluster` shows
not to be so for every name. `WellNamed` is a condition on the names alone: slugs in lower
case, none of several words starting with a prefix word, tickers in upper case. Under it the
filter selects exactly what `cluster_for` maps to the cluster (`FilterExact`), which the
names of `router_serial` satisfy and those of `router_cluster` do not. `FullOrderFits` says that one order at the largest multiplier
fits the position cap: an opposing order is let through whatever its size, and may reverse
the position; with the settings' default, a cap of five times the bucket's size
(`settings.py:46`), it is true unless an override gives a symbol more than two and a half times
that size. The instances of `router_races` and `router_serial` satisfy the hypotheses of the
theorems whose properties they check.

`CoreInv`, which holds in every environment, says of each handler what its steps leave for
its later ones: the size is one `ComputeNotional` gives for the exposure and payload it
holds (`SizeKnown`), the verdict is preflight's on what it holds and is final
(`VerdictKnown`); and of each counter that it covers the orders between their reservation
and their fill (`ReservationsCovered`). `SizedWithinHeadroom` and `AmplifiedOnlyOnData` follow
from `SizeKnown` and arithmetic: the lemmas on `RoundToCent` (`RoundFacts`, `RoundMonotone`),
on the factors of a size (`ScaledFacts`) and on its limits (`SizeFacts`). `StopsSeen` adds that a
stop which stands since before the first read is in what was read, once the read is past;
`EvaluateFacts` then has preflight reject it.

`BudgetInv` adds two facts. `ExposureCovered`: the exposure a handler has read, with the
counter, bounds what is open or in flight by now, since a fill only moves an order from the
one to the other and whatever else was queued meanwhile went through the counter.
`PassingFits`: what is open, queued, accepted, or waiting for a decision it will pass, fits the
budget together. The reservation that makes an order pass sees all others in its
`pendingTotal`, which gives the second from the first. `Forget`, the expiry, is harmless
because it happens only under orders that are settled and seen.

`SerialInv` says that there is one handler or one queued order at a time (`Alone`), so that
what a handler has read of positions is never less than what is open (`ReadsBound`), and what
it queues adds to a position only where that is allowed (`QueuedAdds`). Each shared cap is then
inductive beside it; `SharedCapStep` is the argument for bucket and cluster, over any set of
positions and the orders that go to them. `CapInv` adds what a queued order that does not add
may do (`QueuedWithinCap`): it shrinks the position or, having reversed it, leaves no more than
itself, which is `TradeFacts`.

**Book.** `BookInv` says where every value under way or in the cache comes from (`Traced`): a
query gave it on a prefix of the book that misses only trades closed within so many ticks, or
it is the empty payload of a failed Kelly query. The ticks are those of the query while it
runs (`JobTraced`), and those of the stamp and `QueryMax` from the answer on (`CellTraced`), so
that a value whose stamp is trusted is at most `MaxAge + QueryMax` behind (`FreshIsRecent`).
A step keeps a trace since the book only grows at its end (`TracedThroughClose`) and the ages
grow no faster than the stamp's (`TracedStep`). `TierIsRecent` follows at once. For
`AmplifiedOnlyWinners` two facts about the algorithm are needed: the variance is not negative,
`SpreadNotNegative` in `SumTheorems`, proved from `DeviationNotNegative`, so that the
multiplier exceeds one only if the sum of the returns is positive (`AmplifiedMeansProfit`);
and what the query's limit leaves of a strategy is its latest trades (`FetchedIsRecent`).

**Sums.** The exposures are `SumFunctionOnSet` of the community modules, a recursive function
over sets. `SumTheorems` proves what one needs of it (a member taken off, two functions that
agree or differ in one place, subsets, disjoint unions, the square of a sum) without the induction schemata of the
library, whose operator parameter no installed prover can instantiate: `SubsetInduction`
takes the set of subsets for which the claim holds in place of the predicate, and rests on a
least set that fails it. `PartialSumsAgree` and `PartialSumsExist` show that the recursive
function exists and is one.

**Stream.** `StreamInv` says that batches hold delivered entries without an outcome
(`BatchesUnrouted`), each once and with one worker (`BatchesDisjoint`), and nothing
undelivered has an outcome; that what is about to be acknowledged is decided
(`AcksDecided`); and what a worker between two awaits relies on (`HandlersConsistent`),
with one worker at most between the two inserts of an intent (`OneRecorder`). Without
`BatchesDisjoint` two workers could finish one entry, and without `OneRecorder` an intent
could get two TCA rows. `TcaInv` adds that an intent the script has selected or given its row,
unless it is in `recording`, is touched by no router any more (`Untouched`), so that the
script is alone with it.

**Supervisor.** `PhaseConsistent` ties the pool and the tasks to the phase; in particular
no task is left in a query when the phase is past `gather`.

Only model-checked: the liveness properties `ClearsUnlessRenewed`, `EverythingAccountedFor`,
`CapsFollowBook`, `FailsTogether` and `Recovers`, since TLAPS does neither liveness under
fairness nor ENABLED. All invariants and action properties of the
passing runs are proved, those of `Router` under the hypotheses named above.

## 5. Findings

- **`stream_lost`.** The loop reads `>` only (`router.py:429`) and never claims pending
  entries, so an entry un-acked by a crash or an exception is not delivered again;
  `router.py:3-5` and `:464` and `src/README.md:60-62` say it is.
- **`budget_stuck`.** A process that dies between INCRBYFLOAT and EXPIRE leaves a key
  without expiry, until another order of the strategy renews it; `budget_reservation.py:22-23`
  says the TTL clears it.
- **`budget_negative`.** `release_exposure` runs for each rejected order with a notional,
  also when its reservation failed, and takes back another order's.
- **`router_scale_in`.** The duplicate check reads positions, and a queued order is not yet
  one; the comment at `preflight.py:204-205` wants one position per trade.
- **`router_cluster`.** A market called `will-bitcoin-...` belongs to `poly:bitcoin`, whose
  filter is `LIKE 'bitcoin-%'` (`preflight.py:106`): the exposure of all such markets is
  missed by the cluster cap. The prefix words were added to `cluster_for` only.

The code has further edges that the runs stay clear of, or show no property of:

- A settled order stays in the counter until the key expires, and is counted twice meanwhile.
  `PhantomBounded` bounds the amount, nothing bounds the time: every reservation restarts the
  expiry of the whole key (`budget_reservation.py:56-58`), also one that is then given back. A
  strategy whose alphas come less than five minutes apart may so find its budget taken by
  orders long filled or closed, for as long as its alphas come. The comment at
  `budget_reservation.py:13-16` has the expiry come before the position settles, and `:22-23`
  puts the worst case at five minutes. `ClearsUnlessRenewed` says no more than is true. The key may expire between INCRBYFLOAT and EXPIRE, which is
  why `Timely` asks for `PromptExpire`.
- The budget check adds the notional of any direction (`preflight.py:463`), although
  `preflight.py:425-426` says that opposite trades pass.
- Rounding may exceed a headroom that is not whole cents, by half a cent at most, and preflight
  then rejects the order sizing has proposed. The multiplier, up to 2.0, is applied after the minimum with the bucket's
  allowance. A halt moved from the strategy's key to the system's between the two reads stops
  nothing, which is why `StopsHonoured` speaks of a stop that stands.
- A multiplier payload of NaN gives 2.0, the largest one (`lp_multiplier.py:114`); one that is
  JSON but no object raises out of the handler (`:100`), while `:122-124` promises a float on
  any failure; one whose timestamp is missing or no number passes for fresh (`:105-112`),
  which is why `AmplifiedOnlyOnData` says "not known to be stale". Any asset whose name
  starts with an alias is tracked, also a market or a stock.
- Nothing keeps the backfill from a filled intent whose router has not yet written its row,
  nor two runs of the script from each other: `public.fills` is given no unique key here.
- Six equal returns of 0.1 have a float variance of about 1e-34, not zero, so the allocation
  is 3.0 (0.25 for -0.1) where `kelly_allocator.py:82` says neutral. The decay of 0.95 a week
  (`:28`) is not implemented, and nothing calls `run_once` or `read_allocation_multiplier`.
- The router passes no bankroll state to preflight, so the tiers that are refreshed have no
  effect yet, while `bankroll_aware_sizing.py:11-13` and `:32-34` say they override the
  static caps.

## 6. Not modelled, and the plan

Built so far, in this order: the budget protocol with its ledger, the stream, sizing and
preflight, the router that composes them, the proofs about the budget; then the clusters and
the multiplier inside the router, the backfill beside the stream, the cached book, the
supervisor, and the proofs about stream, backfill and supervisor; then, with sums over sets,
those about the router and the cached book.

Next, proving: an abstract specification of the caps preflight guards, with check and
admission in one step, and that a router which is `Serial` implements it, as the reservation
protocol does `BudgetLedger`.

Next, extending: the pool's limit of four connections, shared by router, refresh loops and
health; Redis losing its data, after which the group is gone, every read fails and is retried
for ever (`router.py:433-436`) while `/health` says ok, until a restart; two runs of the
backfill at once.

Left out for good: `max_loss.py`, a comparison that nothing calls; the text of the metrics
and of the health answer; logging, notifications and the metadata of an intent, which change
no state a property is about; parsing of settings; `derive_side`, a renaming; float
arithmetic beyond the rounding to cents and the sign of a variance.
