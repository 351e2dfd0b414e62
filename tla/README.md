# flux-router: a TLA+ verification project

flux-router is a cost-aware router for LLM requests. A request names what it needs; the routing engine
chooses a model and a chain of fallbacks, the dispatch loop calls providers until one answers, and a
set of shared trackers keeps callers within limits: a circuit breaker per provider, a budget per agent
run, a spend budget per user, a daily cap per customer. Around it an HTTP server streams answers,
limits rates and reports on usage; behind it the router learns the quality of its models. None of the
algorithms is long. What is hard is that the trackers and stores are shared by all concurrent requests
(and, on Redis, by all processes), that each request touches several of them in one pass with `await`s
between, that each touch has to be undone on every way out, and that what is remembered - a
conversation, a warm prompt, a learned quality, a counter - expires, is evicted, or is lost with the
process while it is still relied on.

The project: the inventory (1), the plan (2), the modules and how they correspond to the code (3), the
runs (4), the proofs (5), what the models show about the code (6), and what is not modelled (7).

Commands, in this directory:

    tlc -workers 2 -config CircuitBreaker.cfg CircuitBreaker    # one run; see the table in section 4
    tlapm TrackerProofs.tla                                     # one proof module

## 1. Inventory

Paths are relative to `src/router/`. "Hard" names what a unit test hardly reaches; "correct" names
what makes the component correct.

### Trackers and limits

**Circuit breaker** (`circuit_breaker.py`). State: per provider, `closed` / `open` / `half-open`, a
failure count, the time it opened, whether a probe is out; one lock. Operations: `is_available` (which
also *spends* a due probe), `record_success`, `record_failure`, `get_state`, `reset`. Used by the routing
engine (step 4, for each candidate) and by the dispatch loop and the stream (reports). Hard: reports of
calls admitted before a trip arrive after it; a question that is asked and not followed by a call;
calls that end without a report. Correct: a circuit trips exactly on a full streak, admits one probe per
recovery cycle, spaces probes by the timeout, and always leaves the half-open state.

**Run budget** (`run_budget.py`, `RunBudget` over `InMemoryRunStore`). State: a bounded LRU map of runs,
each with limits and running totals of cost, steps, tokens, time and *slots checked out*; a call counter
that triggers housekeeping. Operations: `start`, `finish`, `check_before_dispatch` (reserves a slot),
`record_step` and `release_reservation` (give it back), `sweep_expired`. Hard: N requests pass the gate
before any completes; the run is evicted, swept, finished or restarted under its own steps; LRU order
at the limit; limits of zero. Correct: completed plus in-flight steps stay within the limit; a cost
overshoot is bounded; no slot is held by nobody; a run that is polled does not expire.

**Redis run store** (`run_budget.py`, `RedisRunStore`). The same operations as optimistic
WATCH/MULTI/EXEC transactions on a store shared by processes, with key expiry. Hard: retries run the
update function again; two processes; expiry or eviction between check and record; a process that stops
between two commands. Correct: the step limit holds across the fleet.

**Plan budget** (`budget_tracker.py`, `BudgetTracker`). State: per user a bounded ledger of
(amount, day) records, an LRU order of users, the plan last seen, and reservations (user, amount, plan,
time). Operations: `record_spend`, `reserve_spend`, `reconcile_spend`, `release_reservation`, the spend
getters and `would_exceed_budget`, the age sweep, evictions of users and records. Hard: concurrent
reservations, the backward scan at midnight and at the turn of a month, two clocks, the bounds that
forget spend, a slow call whose reservation is swept. Correct: a grant fits the plan beside what was
spent and is in flight; the ledger sums are what calls cost; nothing is held for a call that ended.

**Redis plan budget** (`RedisBudgetTracker`). The same over one key per user updated by transaction,
plus an index key from reservation to user. Hard: a crash between the two keys. Correct: together the
processes implement one atomic spend gate, and no reservation of a living process is out of its reach.

**Daily budget** (`DailyBudgetTracker`). State: per customer a bounded ledger with LRU eviction.
Operations: `record_spend`, `get_daily_spend`, `is_cap_exceeded`. Hard: midnight; eviction at the cap.

**Rate limiter** (`rate_limit.py`). State: token buckets in a bounded LRU map. Operation: `check`. Hard:
an evicted bucket comes back full; refill rounding. Correct: over any interval a tracked key gets at most
burst + rate x time; the wait it reports is enough.

**Model registry** (`model_registry.py`). State: the catalogue, a sliding window of calls per model and a
cached load count. Operations: `update_load`, `is_near_rate_limit`, `register_model`, `refresh`. Hard:
the cached count is only refreshed by a routing decision *for that model*, so a model filtered out for
its load may have no way back. Correct: load seen = calls within the last minute.

### Request path

**Dispatch and cascade** (`flux.py`). State: the locals of a request (queue of models, models seen,
attempt count, plan reservation, typed chains) and the shared trackers. Operations: `complete`,
`_dispatch_with_fallback(_inner)`, `_complete_cascade(_inner)`, `_call_model`. Hard: a list that grows
while iterated, overlapping chains, a reservation per attempt or per ladder, and cancellation,
rejected keys, unsupported requests and the caller's own verifier as further exits. Correct: every exit
gives back what the request holds, once; no model is tried twice; failure means exhaustion; the breaker
hears of each call once; requests end.

**Routing engine** (`routing_engine.py`). `route` (the run gate), the steps of `_route_core` (filters,
floors, tier walk-down, scoring), `_proxy_execute`. State: the conversation store, the prompt cache's
registry and per-user windows of free-tier calls. Hard: relaxed filters that bypass the breaker; a
cancellation in proxy mode; two modes of dispatch that both settle a step. Correct: the chosen model passes
the hard constraints, or the relaxed ones and no model passes the hard ones; a degraded run never gets a
dearer priority; what it says of budget, cache and conversation is true.

**Fallback chains** (`fallback_chain.py`). Pure: `build_fallback_chain`, `build_typed_fallback_chains`;
and `FallbackExecutor`, a loop with delays. Correct: a chain has no duplicates, never the chosen model,
diverse providers first.

**Streaming proxy** (`server.py`, `_stream_completion`). A generator that reserves, streams, counts, and
settles on its exits. Hard: it may never be started, may be closed half-way, may outlast its
reservation; a usage chunk may never come.

**HTTP server** (`server.py`). Authentication, tenant binding, tenant daily caps, request parsing, usage
and stats endpoints. State: the tenant's daily ledger. Hard: cap checked before, charged after; three
identities of one request (the tenant of the cap, the tenant of the run, the user of the plan), each
derived by itself from the token and from names the caller chooses. Correct: the ledgers of a bound
tenant agree whatever names are sent; a bound caller reads of nobody else.

**Provider caller** (`provider_caller.py`). Wire formats, timeouts, typed errors, the usage a provider
reports. No shared state. Hard: a history of tool calls by several providers, translated for each.
Correct: calls and results stay paired in the form each provider accepts.

**Cascade verifiers** (`cascade.py`). Pure predicates on text, and a caller-supplied hook.

### Learning, caches, records

**Adaptive weights** (`adaptive_weights.py`). State: moving averages per (model, task), per customer,
signal statistics, snapshots, a dirty count, a file. Operations: `record`, `get_adjusted_score`, `flush`,
`set_decay_factor`, load with migration. Hard: the snapshot is taken under the lock and written outside
it; rollback; eviction. Correct: the file never goes back to an older state than one already written,
and a rollback restores a baseline it compares with from then on.

**Response cache** (`cache.py`), **prompt cache** (`prompt_cache.py`), **conversation store**
(`routing_engine.py`). Bounded LRU maps with expiry. Correct: bounded; a hit is neither expired nor of
another prefix; what is evicted is the least recently used; a conversation is shared by the users of its
tenant, or is a lone user's, and is nobody else's.

**Attribution** (`attribution.py`). A bounded queue to a writer thread and SQLite, counters with a bounded
number of labels, and reports. Hard: a full queue drops records; an exception in the writer ends the thread,
after which nothing drains, and leaves its transaction open; the bound on labels. Correct: every record is
stored once, or counted as dropped; a reader sees what it waited for; every report adds up to the headline.

**Analytics** (`analytics.py`). A bounded log, an index by correlation id, and an append-only file that is
partly reloaded. Correct: the index leads to the newest entry of an id.

**Classifier, quality scorer** (`classifier.py`, `quality_scorer.py`). Text heuristics, no shared state.

**Context compressor** (`context_compressor.py`). Pure: trims old messages in three passes.
Correct: recent messages survive; the result fits if any drop of old messages can make it fit.

**Benchmark, evals, demo, CLI, dashboard.** Offline tools and presentation.

### How they interact

A request to `complete()` calls `route()`, which takes a slot from the run budget and asks the circuit
breaker about every candidate's provider; back in the dispatch loop it reserves its estimate in the plan
budget, calls the provider (the only long `await`), and then reconciles or releases the reservation,
reports to the breaker, charges the daily ledger, and records or releases the run's step. A cascade does
the same with one reservation for a ladder of models. The server's streamed path does it inside a
generator, the engine's proxy mode inside `route()`. The trackers never call each other: all coupling is
through what one request does to several of them, which is what `Dispatch`, `Serving` and `RedisStores`
compose. What a decision rests on (load, conversations, warm prompts, learned qualities) is written by
earlier decisions and their outcomes: `Routing` composes these. The records of a request go to the
decision log, the usage queue and the counters, one after the other: `UsageRecords`.

## 2. Plan

Modules in the order they were planned, by what a mistake would cost. All are built.

| # | Module | What it composes or implements |
|---|--------|-------------------------------|
| 1 | `CircuitBreaker` (+ `TrackerProofs`) | alone, with callers that ask and report in any order |
| 2 | `RunBudget` (+ `TrackerProofs`) | alone, with its store |
| 3 | `BudgetTracker` (+ `SpendProofs`) | alone, two clocks |
| 4 | `StepSlots` | abstract: what the run's gate promises |
| 5 | `Dispatch` (+ `Proofs`) | requests over the trackers; implements `StepSlots` |
| 6 | `SpendGate`, `RedisStores` (+ `Proofs`) | processes, transactions, crashes; implements the abstract `SpendGate` |
| 7 | `Serving` (+ `Proofs`) | the HTTP endpoint, the streaming generator and the proxy mode over run, plan, daily ledger and breaker |
| 8 | `Classifier`, `Selection`, `Routing` (+ `RoutingProofs`) | the decision: signals, filters, floors, scores, chains, and what the engine remembers between decisions |
| 9 | `AdaptiveWeights` (+ `Proofs`) | learning, rollback, writes outside the lock, restart |
| 10 | `Reports`, `UsageRecords` (+ `SpendProofs`) | decision log, queue, writer thread, counters; the answers over what is committed |
| 11 | `RateLimiter`, `Messages`, `FrontDoor` (+ `TrackerProofs`) | rate limiter; translation and compression of the conversations it admits |
| 12 | `Lists`, `DataLemmas` | what the others share: lists without some elements; laws of sums and lists for the proofs |

`StepSlots` and `SpendGate` are the abstract specifications; `Messages`, `Classifier`, `Selection` and
`Reports` hold pure operators that the modules of the table build their steps from. `MC*` modules only
give values to constants. The proof modules reach no RECURSIVE operator; recursion is in folds and
recursive functions.

What is left worth doing: `FallbackExecutor`, should the program come to use it.

## 3. The modules

A step of a module is a stretch of code nothing can interleave with: a method that holds its lock
throughout (the trackers, which threads may share), the code between two `await`s or yields (the
dispatch loop, the server, the engine, on one event loop), or one round trip to Redis. Variables named
*history* are read by no action; they only let a property speak of the past. A definition named for a
slip (`AfterSuccessKeepsCount`, `HasRoomForgetsSlots`, ...) is its neighbour with a plausible bug in it;
the mutant runs put it in its neighbour's place and expect the property to fail.

### `CircuitBreaker`

| Module | Code |
|---|---|
| `entry[p]` | `_providers[p]`: `state`, `failures`, `opened_at` as an age, `probe_in_flight` |
| `calling[c]` | the provider a request is calling between the routing question and its report |
| `AfterQuery`, `IsAvailable` | `is_available()`: one operator for its answer, one for its effect |
| `AfterSuccess`, `AfterFailure` | `record_success()`, `record_failure()` |
| `Route` | step 4 of `_route_core`: asks for every candidate's provider, then one is called |
| `Bypass` | `_relaxed_filter` and the fallback chains, which do not ask |
| `Abandon` | a call that is cancelled, unsupported, or skipped for budget: no report |
| `prober[p]` (history) | the request whose call is to decide a half-open circuit; nobody if it went to another provider |
| `BreakerTick`, `Reset` | time; `reset()` |

A provider without a record behaves as one with `ClosedCircuit`. Age and failure counts are cut off at the
only values they are compared with, so the model is finite without a bound on behaviours.

### `RunBudget`

| Module | Code |
|---|---|
| `runs[r]`, `order` | the `OrderedDict` of `InMemoryRunStore`, as a map and its recency order |
| `calls` | `_call_count`, modulo the housekeeping interval |
| `holding[c]` | the slot a request was granted; `stale` once that incarnation of the run is gone (history) |
| `Put`, `Get`, `Sweep`, `Drop` | `update`, `get`, `sweep_expired`, `delete` |
| `Reserve`, `Record`, `Release` | the update functions of the three public methods |
| `Exceeded` | `_worst_fraction() >= 1` over cost, steps + pending, tokens, duration |

The `degraded` and `warning` levels choose a routing priority and change no state here; they are
`pressed` in `Routing`.

### `BudgetTracker`

| Module | Code |
|---|---|
| `ledger`, `order`, `plans` | the per-user deques in LRU order, and the plan cache |
| `reservations[c]` | `_reservations`, under the request that holds the id |
| `today`, `age` | the calendar date, and the monotonic age of a reservation |
| `MonthTail`, `DailySpend`, `MonthlySpend` | `_sum_while` and the getters: a backward scan that stops at the first record outside |
| `Fits`, `ReserveSpend` | `reserve_spend()`, with the sweep it starts with |
| `Victims`, `Trimmed`, `AddSpend` | `_ledger_for_write` and the append to a deque with `maxlen` |
| `ReconcileUnknown` | `reconcile_spend()` of a swept reservation: KeyError, nothing recorded |

The history `spent` follows what a user's calls really cost, `intact` says whether the tracker still knows
all of it: a record of the month dropped by a cap, a user evicted or a charge lost makes it false until
the next month. The properties about sums are stated for intact users.

### `StepSlots` and `Dispatch`

`StepSlots` is the gate's promise in ten lines: a request takes a slot only if steps completed and slots
held leave room, and uses or gives back its own, once.

| Module | Code |
|---|---|
| `req[r]` | the locals of one pass through `_dispatch_with_fallback_inner` or `_complete_cascade_inner` |
| `outcomes`, `reports`, `aborted` (history) | how each call ended, and what the breaker was told of which model |
| `queue`, `seen`, `attempts` | what is left of `models_to_try`, `seen_ids`, `attempts` |
| `reserved`, `due`, `got` | the live plan reservation; what a cascade's tiers cost so far, and `got_any_response` |
| `pending`, `steps`, `spent`, `daily` | the run, the user's plan ledger and daily ledger, as a request sees them |
| `held` (history) | the requests that took a slot and have not given it back |
| `Refuse`, `Route` | `route()` with its run gate; in a cascade inside the handler that releases |
| `RouteRaises` | `route()` raising behind the gate: its validators come after it |
| `Skip`, `Call`, `GiveUp` | the head of the loop: budget refusal or daily cap, provider call, exhaustion |
| `Succeed`, `Fail`, `RejectKey`, `Abort` | the answer and the exception handlers of the loop |
| `StartCascade`, `NoLadder`, `TierAnswers`, `TierFails`, `VerifierRaises` | the cascade |

One run and one user, never evicted, and one daily ledger: eviction is `RunBudget`'s and
`BudgetTracker`'s subject. A call costs at most its estimate (`Charges`): the code charges whatever usage
the provider reports, and `PlanLimitKept` is claimed only under this premise. The decision of `route()`
is one of a set: with overlapping generic and typed chains, and one that found no model. `Spec` has every
mode; `ChainSpec` has no cascades (the default mode and the HTTP endpoint).

### `SpendGate` and `RedisStores`

`SpendGate` is what a plan budget promises however many processes enforce it: a call is granted its
estimate only beside what is spent and held; what is held is charged or given back once, or lapses with
age.

| Module | Code |
|---|---|
| `runs`, `lru` | the state keys and the sorted set of `RedisRunStore` |
| `user`, `index` | the state key of a user and the keys from a reservation to its user |
| `req[r]` | where the request's process is: the command it is at, the value it read, whether a watched key was written since |
| `ReadRun`, `WriteRun` | GET under WATCH, and MULTI/EXEC, which starts again if `touched` |
| `Housekeep`, `SweepExpired`, `Unlist`, `PopOldest`, `DeleteRun` | the sweep and the eviction, one command each |
| `ReadUser`, `WriteUser`, `IndexReservation` | `reserve_spend`, `reconcile_spend`, `release_reservation` |
| `Crash`, `Tick` | a process stops for good between any two commands; time, with the expiry of keys |

A request goes through both stores as the dispatch does: slot, reservation, call, charge or give back,
report. One spend period stands for day and month, whose arithmetic is `BudgetTracker`'s subject. No tick
comes between the read of a transaction and its write, which are milliseconds apart where a tick is as long
as an entry lives; a process that is suspended for that long in between is not modelled.

### `Serving`

| Module | Code |
|---|---|
| `caller[r]` | what a request presents: the tenant its token is bound to, the tenant, user and run it names |
| `BoundTenant`, `TenantOf`, `RunOf`, `UserOf` | `_bound_tenant` and the resolution of tenant, scoped run id and budget user |
| `Misnamed`, `TurnedAway`, `Invalid`, `Refused`, `Routed` | `chat_completions` up to its dispatch, with the run's gate |
| `RoutingRaises` | the library's callers: an exploration rate that is none is found out behind the gate |
| `NeverStarts`, `Start`, `Opened`, `Captures`, `StreamEnds`, `StreamFails`, `Leaves` | the life of the generator of `_stream_completion` |
| `RecordUsage` | `_record_usage` there: plan, run, tenant, each of which may raise |
| `ProxyCalls`, `ProxyAnswers`, `ProxyFails`, `ProxyCancelled`, `ProxyBreaks`, `ProxyGivesUp` | `_proxy_execute` |
| `Trusted`, `Reported`, `Bill` | `provider_caller`'s usage and the fallback to the estimate |
| `Used`, `Rounded`, `ActualCost` | `compute_actual_cost`, with its rounding to six decimals |
| `trifles` (history), `Negligible` | bills whose reported usage comes to half the smallest amount or less |
| `Dispatched`, `NotDispatched` | `_dispatch_with_fallback` as one step (its steps are `Dispatch`'s subject), and the tenant charged after |
| `daily`, `ReadsDaily`, `AddsDaily`, `Victim` | `DailyBudgetTracker` with its eviction |
| `Lapses` | a reservation swept by another request's `reserve_spend` while its call is out |

### `Classifier`, `Selection`, `Routing`

| Module | Code |
|---|---|
| `Classifier` | `classifier.py`: the task and step rules in their order, output estimates, complexity, sensitivity |
| `Selection!Qualified`, `PassesHardConstraints`, `ComposedMinTier`, `QualityFloor` | the filters and floors |
| `Selection!Score`, `Weights`, `Normalized`, `ContextPenalty` | the weighted score |
| `Selection!TierWalkdown`, `AlwaysPremium`, `CascadeInitial`, `QualityMax` | the budget's walk and the routing modes |
| `Selection!BuildFallbackChain`, `BuildTypedFallbackChains` | `fallback_chain.py` |
| `Routing!Way` | the early returns of `_route_core`, the first that applies |
| `Routing!Scored` | the scored way: abuse guard, learned penalties, stickiness, cache pin, exploration, walk-down |
| `Routing!PostRoute` | what a decision leaves: load, free use, conversation, housekeeping |
| `Routing!ScopedKey` | `_scoped_state_key`: the tenant of a request or, if it names none, its user, with the raw name |
| `Routing!RecordPromptCacheSuccess` | the report of a call that made a prompt warm |
| `served`, `load`, `talks`, `warm`, `freeUse`, `count` | `ModelRegistry`'s windows, `ConversationStore`, `PromptCacheRegistry`, `_user_free_rpm`, `_route_count` |

Of a prompt only its *facts* are kept: which patterns it matches, which counts pass a threshold. What
other components say at the time of a decision (broken providers, doubted models, room in the plan, the
daily cap, a run under pressure) is the parameter `around`. Money is in integer units, scores in
hundredths; complexity is kept before the sigmoid, which is increasing, against the bounds' preimages.

### `AdaptiveWeights`

| Module | Code |
|---|---|
| `mem` | the fields of the object: averages, signal statistics, per-customer averages, logs, rates, recency, overrides, dirty count, newest snapshot |
| `pending[t]` | the image a thread took under the lock and has still to write |
| `file` | the JSON file, with the format version |
| `Record` (`RateLimited`, `Ignored`, `Accepted`) | `record()` and its guards, with the flush, the snapshot and the rollback it ends with |
| `RecordRoutingEvent`, `SetDecayFactor`, `Flush` | the methods of those names |
| `WriteToDisk`, `WriteFails`, `Restart` | the rename after the lock, an `OSError`, the end of the process and a new one |
| `AdjustedScore`, `RoutingProfile` | what is read of it |

Qualities are integers; whether a signal is an outlier is open once there are enough of them.

### `Reports` and `UsageRecords`

| Module | Code |
|---|---|
| `Reports!ReadTenantScope`, `UsageScope`, `Since` | whom a token may read of, and the window |
| `Reports!Selected`, `Page`, `Count`, `Summary`, `ByModel`, `ByTaskType`, `ByTenant`, `Timeseries`, `Percentile` | the queries of `SqliteUsageStore` |
| `LogDecision`, `WriteLine` | `log_decision()`: memory, then file; `log_cache_hit()` alike |
| `Enqueue`, `Gather`, `Commit` | the bounded queue and the writer thread |
| `table`, `committed` | what the one connection of writer and readers sees, and how much of it is committed |
| `InsertFails` | an exception of insert or commit: what was inserted stays in the open transaction, and the thread ends |
| `AskRows`, `ReadRows`, `ReadTotal` | a reader: flush, page, flush, count |
| `Tally`, `TallyRefused`, `Label`, `Exposed` | the counters with bounded labels, and `/metrics` |
| `Unindex`, `IndexOf` | the index without an evicted entry, and that of a log read from the file |
| `Restart` | the process ends; the file and the committed part of the table stay |

### `RateLimiter`, `Messages` and `FrontDoor`

| Module | Code |
|---|---|
| `RateLimiter!buckets` | the `OrderedDict` of buckets, the key used last at the end |
| `RateLimiter!Refilled`, `Others`, `Check` | `RateLimiter.check`: refill, eviction, answer, in one step under its lock |
| `passed`, `promise` (history) | what one key, the agent's, was admitted, and when it was told to come back |
| `Messages!Parse` | the proxy's reading of a client's list of messages |
| `Messages!Turns` (`OpenAiTurns`, `AnthropicTurns`, `GoogleTurns`) | what `call_provider()` sends in each wire format |
| `Messages!Compress` | `ContextCompressor.compress`: three passes and the note |
| `FrontDoor!Post`, `Reply`, `Fails` | a post admitted and sent on, and the provider's answer |
| `Instruct`, `Speak`, `Observe` | the agent, which resends the whole conversation (external) |

`LimiterSpec` is the limiter alone, whoever knocks; `FrontDoor` has it at the door of a conversation, and
each of its steps is one of the limiter's or leaves the limiter alone.

### `Lists` and `DataLemmas`

`Lists!Without` is a list without some of its elements, the loop by which the code takes out duplicates,
evicted users and superseded ids; it spells out the recursion that `SelectSeq` hides from the prover, as
`Messages!AnthropicTurns` does that of the loop over a conversation. `DataLemmas` has the laws the proofs
rest on (section 5).

## 4. The runs

Eleven runs pass; one is expected to find a violation (section 6).

| Run | Question | Instance |
|---|---|---|
| `breaker` | does the breaker keep its state, its streak and its probes straight in every interleaving, and come back? | 2 providers, 3 callers, threshold 2, timeout 2 |
| `run_budget` | are limits kept through evictions, sweeps and restarts, and the store in order? | 3 runs, room for 2, 2 callers, sweep every 2nd call |
| `budget` | does a grant fit the plan, and the ledger agree with what was spent? | 2 users, room for 1, ledgers of 2, 2 callers, 2 plans, 3 days in months of 2 |
| `dispatch` | what do requests leave behind, and do they end? | 2 requests, 3 models, overlapping chains, run limit 1, plan limit 4, 2 retries, 1 escalation |
| `dispatch_slots` | do the chains implement the gate's promise? | 3 requests for 2 steps |
| `dispatch_theft` | ... and cascades? (violated) | 3 requests, run limit 1 |
| `redis` | do limits hold across processes that retry and crash? | 3 requests of 2 runs, room for 1 run, 1 step, reservations that last 1 tick, 1 crash, 2 ticks |
| `routing` | does a decision respect its floors and tell the truth? | 6 models of 3 providers, 11 kinds of request, 7 surroundings, 3 decisions, 2 ticks |
| `adaptive` | do averages, customers and the file stay in step? | 2 threads, 2 customers with room for 1, 3 signals, any restarts, files of older formats |
| `usage` | does every record arrive once, and does every answer add up? | 3 requests of 2 tenants, a queue of 1, batches of 2, 1 label, 192 questions |
| `front` | are the rate, the translation and the compression right? | 3 keys with room for 2, 3 providers, 4 messages, 4 ticks |
| `serving` | does every call settle once, with the right run, plan and tenant? | 4 requests of 2 tenants, bound tokens or none, ledger room for 1, 2 steps, 1 lapse at a time |

**What the passing runs show.** `breaker`: `TrippedIffStreak` - reports of calls admitted before a trip,
after it, or by callers that never asked, cannot make state and streak disagree; `OneProbePerCycle` and
`ProbesAreSpaced` - in the presence of late reports that close and re-trip a circuit; `TrippedIsRetried` -
an open circuit lets a question through again, and a half-open one is closed or opened by its probe, unless
the question was spent by a request that called another provider (`Stranded`). `run_budget`:
`StepLimitRespected` - a run exceeds its step limit only by reports it took from slots of an earlier
incarnation, counted in `foreign`, and never counts a slot nobody holds; `OvershootBounded` bounds the cost
a run can reach beyond its limit; `StoreBounded`; `PolledRunKeepsSpend` - a run that keeps being asked
about, even one every check refuses, does not expire and restart at zero. `budget`: `GrantsFitThePlan` - the
plan's hard cap over real spend, not over what the ledger says of it, with `LedgerExact` as the bridge.
`dispatch`: `NothingLeftBehind` for all exits but two that it names (`route()` raising outside a cascade, a
verifier that raises), `PlanLimitKept` across chains and cascades, `TriesBounded`, `BreakerHearsEveryCall` -
call by call, with its model and its outcome -, `FailedMeansExhausted`, and `EveryRequestEnds`.
`dispatch_slots`: refinement of `StepSlots`.

`redis`: `StepLimitAcrossFleet` - the optimistic transaction lets no two processes take the last step,
whichever of sweep, eviction, expiry and crash comes between; `ImplementsSpendGate` - refinement of the
atomic gate; `ReservationsReachable` - only a crash leaves a reservation that nobody can give back.
`routing`: `FloorsHold` - over relaxed filters, walk-downs, exploration and every chain; `BudgetTruth` -
"exhausted" is said of the cheapest only and every other decision fits; `CacheStatusHonest` - "warm" is said
only of the provider that has this prompt warm; `ConversationKept` and `AbuseSeen` - memory that expires and
is evicted still serves its owner, a tenant or a lone user, and only its owner. `adaptive`:
`CustomersInSync`, `DriftContained`, and `CleanIsSaved`, whose premises name the ways a clean memory may
differ from the file. `usage`: `IndexIsNewest` through duplicates and reloads, `ReadersSeeAll` - including
that every question over every table a reader sees has an answer in scope that adds up and pages that cover
it, and that rows are uncommitted only after a failure -, `SeriesAreWhole` - the cap is one on tenants, and
a tenant with a label has all of its requests under it -, `ReadersReturn`. `front`: `BurstBounded` and
`PromiseKept` (the bucket never gives too much, nor later than promised), `ToolTurnsPaired` over histories
of mixed providers, `CompressedFits`. `serving`: `SlotsReturned` on all but five named ways out,
`StepsBounded` per run, `LedgersAgree` - the daily ledger the cap is checked against is the plan's, whatever
tenant and user names callers send - and `BilledOnce` - one bill for an answer or for a client that left,
none otherwise, and none of them for $0 but where the reported usage itself rounds to nothing.

**Bounds, and why they are enough.** Two providers are needed for a question about one to spend the probe of
another; three callers for a success and a failure of old calls to race a probe; threshold and timeout 2
separate "one less" from "reached". Two places and three runs make both eviction and recency matter in the
run store, and a sweep every second check makes it race both. Ledgers of two records and one place for two
users reach both caps, three days in months of two cross both boundaries, reservations that age by one reach
the sweep while their call is out. Three models with overlapping chains give duplicates within and between
chains; two retries are one fewer than the models that can be queued; a plan limit that fits a ladder but
not a ladder and a call makes concurrent reservations refuse each other. On Redis two requests race for the
one step of a run and for a plan that fits one of them, while a third, of another run, evicts theirs; the
first tick expires the runs, the second the reservations, and one crash may come at every command. The
catalogue of `routing` has every tier, a provider with two tiers and models that miss each capability; its
requests take every way through the engine and three decisions are what it takes to use, overwrite and use
again what is remembered; two users of a tenant share a conversation, and one of them uses its name outside
the tenant too. In `adaptive` one key and one place for two customers make every other customer an eviction;
three signals with a write every two leave one image to be overtaken. In `usage` a queue of one fills while
a batch of two is gathered; the rows differ in every field a report groups by. In `front` two places for
three keys evict, and a burst of one with a refill of two ticks has waits of one and two; a text that is cut
grows by the marker, as 301 words become 303. In `serving` three requests share a tenant, of whose requests
two are alike, and another tenant names itself the first one; providers report tokens, zero tokens, or no
usage at all; one token comes to half the smallest amount, which is rounded to nothing, or to all of it.
Symmetry is used where no liveness is checked. `CHECK_DEADLOCK FALSE` is given where all requests may have
ended (`dispatch*`, `redis`, `serving`) or the bounds on time and talk are reached (`routing`, `front`).

**Fairness.** The breaker: time passes (`WF(BreakerTick)`); a provider call ends, because the caller gives the
socket `PROVIDER_CALL_TIMEOUT_SECONDS` (30 s, `config.py:347`), so each call is reported or abandoned
(`WF`); requests go on for which a provider is a candidate, whichever others are asked with it and whichever
is then called (`SF(RoutedPast)`) - without traffic nothing is due, and nothing is assumed about the provider
being the one that is called. Dispatch: the event loop resumes a request that can run (`WF(Choose)`) and its
provider call returns (`WF(Returns)`); nothing is assumed of the order, nor that a request is ever
admitted. Usage: the writer thread and a reader whose wait is over are scheduled (`WF`); nothing is
assumed of the insert, which may fail.

## 5. The proofs

TLAPS checks, for every value of the constants that satisfies the named assumptions:

| Theorem | States |
|---|---|
| `TrackerProofs!BreakerTypes`, `TripIsExact`, `AtMostOneProbe`, `ProbeSpacing` | of `CircuitBreaker`: `BreakerTypeOK`, `TrippedIffStreak`, `OneProbePerCycle`, `ProbesAreSpaced` |
| `TrackerProofs!BurstIsBounded`, `PromiseIsKept` | of `RateLimiter`: `BurstBounded`, `PromiseKept` |
| `TrackerProofs!DoorImplements`, `DoorKeepsLimits` | of `FrontDoor`: `DoorSpec => LimiterSpec`; hence `BurstBounded`, `PromiseKept` |
| `TrackerProofs!AnthropicAccepts`, `CompressionFits` | `ToolTurnsPaired`, `CompressedFits` |
| `TrackerProofs!StepLimit`, `Overshoot` | `StepLimitRespected`, `OvershootBounded` |
| `TrackerProofs!StoreFits`, `PolledRunsStay` | `StoreBounded`, `PolledRunKeepsSpend` |
| `SpendProofs!TypeCorrect`, `PlansTrackLedger`, `NoOrphanReservation` | `TypeOK`, `PlansMatchLedger`, `ReservationsBacked` |
| `SpendProofs!LedgerIsExact`, `GrantsFit` | `LedgerExact`, `GrantsFitThePlan` |
| `DispatchProofs!SlotsAreCounted`, `KeepsThePromise` | `SlotsCounted`; `ChainSpec => Slots!Spec` |
| `DispatchProofs!NothingStays`, `EveryCallHeard` | `NothingLeftBehind`, `BreakerHearsEveryCall`, of `Spec` with its cascades |
| `DispatchProofs!PlanIsKept`, `TriesAreBounded`, `FailsOnlyExhausted` | `PlanLimitKept`, `TriesBounded`, `FailedMeansExhausted`, of `Spec` |
| `RedisStoresProofs!Refinement`, `Reachability` | `Spec => Gate!Spec`; `ReservationsReachable` |
| `RedisStoresProofs!FleetStepLimit` | `StepLimitAcrossFleet` |
| `ServingProofs!Returned`, `Bounded` | `SlotsReturned`, `StepsBounded` |
| `ServingProofs!Agree`, `Settled`, `Billed` | `LedgersAgree`; the part `SettledOnce` of `BilledOnce`; `BilledOnce` |
| `AdaptiveWeightsProofs!Synced`, `Contained`, `CleanSaved` | `CustomersInSync`, `DriftContained`, `CleanIsSaved` |
| `RoutingProofs!FloorsNeverBypassed`, `BudgetToldTruly`, `AbuseAlwaysSeen` | `FloorsHold`, `BudgetTruth`, `AbuseSeen` |
| `RoutingProofs!WarmAlwaysHonest`, `TurnsFollowTheirOwn` | `CacheStatusHonest`, `ConversationKept` |
| `SpendProofs!IndexHolds`, `SeriesHold` | `IndexIsNewest`, `SeriesAreWhole` |
| `SpendProofs!RecordsAreKept`, `ReadersAreAnswered` | the part `NothingIsLost` of `ReadersSeeAll`; `ReadersSeeAll` |

**Circuit breaker.** None of the three properties is inductive: that at most one probe is admitted needs
that an open circuit has none out and a half-open one has one, which needs that failures and streak
agree while closed. `CycleInv` says this per provider; since every method touches each provider alone,
the proof reduces each action to a lemma on one record. Spacing follows from its last conjunct but one,
that an open circuit's age never runs ahead of the time since its last probe. Assumed: threshold and
timeout are positive.

**Rate limiter.** `LimiterInv` is an account of the agent's bucket: what it holds, with what it gave since any
earlier admission, is at most its capacity and what flowed in since; and what a refused key still lacks has
flowed in at the time it was promised. A refusal in between moves the bucket's clock and its content by the
same amount, so the promise it makes is the old one. The rest of the invariant says that the table has one
bucket for each key and stays within its cap, whichever keys come and go. Assumed: rate, burst and cap are
positive, as the constructor makes them.

**Front door.** What a post carries is computed from a conversation of any length, so the invariant,
`DoorInv`, is about the conversation and not about the post: of the turns an Anthropic model would be sent
if it were read now, calls and the results in the next turn are the same, but for the results still awaited
(`PairedUpTo`). Each message said takes these turns one step of their recursion further (`TurnsAppend`), and
is said only when it is due: a result while it is awaited, anything else when nothing is (`TurnedPaired`).
At the agent's turn nothing is awaited, and leaving the prompt after a tool's result unsent, or sending its
text as a turn of its own, pairs the rest as before (`ReadFits`). A post that is under way was made of the
conversation as it still stands (`SentFits`). `CompressedFits` then needs no invariant but types: its lemma,
`CompressFits`, holds for every history without instructions, whatever a pass drops and whether cutting a
text makes it shorter or longer - the note is not counted, the cut meets the room there is or is empty
(`CutFits`), and the rest is a sum over two lists. Assumed: sizes are natural numbers and finitely many, and
so are the numbers in `MessagesAssumption`. That every message is answered in turn is the client's part
(`Pending`): a client that drops a result is outside the theorem.

**Run budget.** The invariant `RunOK` relates, per run, the entry, the number `h` of callers holding its
slots, and the count `f` of foreign reports: `pending <= h <= pending + f`, and hence
`steps + h <= limit + f`, `cost + h * max <= limit + (callers + f) * max`. The clamp of the slot count at
zero is where `f` is needed: a foreign report takes away a slot a present caller holds, once. Whichever
run the recency order names as the victim of an eviction, these bounds hold, so the order is left out
of them. The store's own promises are a second invariant on top, `StoreInv`: map and order list the same
runs, once each, within the cap (`Listed`), and no entry is idle for longer than its run has not been asked
about (`Ages`), which is why the sweep never takes a polled one. Assumed: finitely many callers, and a
largest cost of a step.

**Plan budget.** `IInv` is the conjunction of the first three properties. Cached plans and ledgers are
changed together only because the victim of an eviction is the same in both. `Books` adds what the ledger
says: no record is of a day to come and the ledger keeps its bound, from which it follows that the backward
scan, which stops at the first record outside the period, reads exactly the sum of the period; and for a
user of whom nothing was forgotten that sum is what was spent. `GrantsFit` then needs one more step: what is
in flight for a user, summed over the callers, is what the reservations hold for them. Assumed: finitely
many callers, limits and amounts that are natural numbers.

**Dispatch.** `SlotsCounted` - the run counts exactly the requests under way and those whose routing raised
behind the gate - is inductive with the shape of `req`, and gives the refinement: `Route` and `RouteRaises`
are `Take`, `Succeed` is `Use`, every other raising exit is `GiveBack`, everything else a stutter. The
mapping is the identity on `held` and `steps`. It holds for `ChainSpec`; for `Spec` it is false (run
`dispatch_theft`).

**Exits of a request.** The invariant, `ExitInv`, says of a request at every phase whether it holds a
reservation - none before its first call, none after its end, unless its verifier raised - and a slot: only
requests under way do and those whose routing raised. For the run the invariant is an inequality only,
`pending <= Cardinality(held)`, because a refused cascade lowers the count. What the breaker hears is a
further invariant on top, `HeardInv`: the reports of a request are those of its calls, in order, each with
the model called and the outcome it had, but for the one that is out or was aborted (`Silent`), and the one
that is out is of the model whose turn it is.

**Limits of a request.** `LimitInv`, on top of `ExitInv`, says of every request where it is in its turn
through the models: those it called and those it has still to come to are different ones, and all of them
seen, however chains repeat (`Apart`); outside cascades, attempts made and models queued are together as many
as the models seen, and after a provider's error the whole generic chain is among these (`ChainTurn`), which
is what makes an empty queue mean exhaustion. On a ladder the reservation covers what is owed and every tier
still to come (`LadderTurn`). Across requests it says only that what is spent and what is reserved fit the
plan (`WithinPlan`): check and reservation are one step, and no charge exceeds what it gives back. Assumed:
no call costs more than its estimate (`Charges`, as in the model), every estimate is positive, and no single
chain of a decision names a model twice.

**Plan on Redis.** The refinement maps the key of the user to the gate's `spent` and the reservations that
still count; every command before the write of a transaction is a stutter. The invariant, `IInv`, says what
makes that write a step of the gate: a transaction nobody touched sees the account that is there, so the
test it made when it read holds when it writes; a request whose grant is not written holds nothing; and no
request holds two reservations. A write by anyone touches every transaction under way, which is the only
thing the argument needs of `WATCH`. `ReservationsReachable` is a second invariant on top of it: the index
entry is written after the reservation, so it is missing only between the two commands, and outlives the
reservation afterwards. Assumed: finitely many requests, no estimate above the plan, and that a missing key
can be told from any value.

**Runs on Redis.** As for `RunBudget`, `Counted` relates the entry, the holders of its slots and the reports
of lost incarnations; beside it the invariant says who holds a slot at which step of its operation
(`SlotFits`), and that an untouched transaction sees the run that is there (`SeesRun`). Expiry, eviction and
sweep lose the entry; its holders then become reports to come.

**Serving.** `Inv` says that every request at work holds a slot of its run, but those that `complete()`
dispatches a second time, and that per run `h <= pending + unearned` and `steps + h <= limit + unearned` for
its `h` holders and the steps recorded without a slot. Each way out of the handler, the generator and the
proxy mode is a lemma. Assumed: finitely many requests, and limits that are positive.

**Accounts of serving.** `Accounts` says of every call what it has been billed so far, phase by phase; that
the table of tenants has one ledger for each and, for a bound tenant whose ledger was not dropped, its total
is what the plan of the user of that name was charged, less what the library charged by itself; and that
where every model has a price every bill charged the plan at least the smallest amount or was for a
negligible usage. The identities do the work: for a bound token tenant and user are the same name, and no
unbound caller reaches a ledger. `BilledOnce` has two halves. `SettledOnce` - one bill if a call was
answered or its client left, none if it ended in any other way, a stream that was delivered while its
reservation was swept included - holds whatever models cost; that a bill is more than nothing holds only
where every model has a price (`NoFreeModel`: every estimate is positive, and a usage that is not negligible
then is too), which a deployment with local models does not satisfy, and is claimed under that hypothesis.
What a provider reports of its usage may be anything, missing, zero and negative included
(`AccountsAssumption`): it is `Trusted` that keeps missing counts from making an answer free; counts that
are there but round to nothing do make it free, and are counted in `trifles`.

**Adaptive weights.** `Inv` says what makes a memory one to go on from (`MemoryFits`): its averages are not
degraded below its snapshot, nor are those it may be rolled back to, and no statistics count more signals
than the average has; everything kept of a customer is of one in the recency list, which has each once and
keeps its cap. Every image on its way to the file and the file itself must give such a memory when they are
loaded (`ImageFits`), and the image taken last, in the file or in the hands of the thread that still has to
write it, shows all of a memory that is clean (`Saved`). `CleanSaved` is about signals that come between an
image and its write: where a write failed, images were written in another order than they were taken, or the
memory was rolled back after its image was taken, a clean memory may differ from the file, and the theorem
claims nothing. Assumed: decay factors are between 0 and 1, ratings are not negative, and a file left by an
earlier process has ratings of no more customers than the cap (`FilesAssumption`) - the code loads whatever
a file holds, so a file written under a larger cap is outside the theorem.

**Records.** Log, store and counters share only the stages of the requests, so each has an invariant of its
own. The index: evicting the oldest entry may take its id out of the index exactly when no newer entry has
that id, and the code's test - the index leads to the very entry evicted - says so only because no request
is in the log twice (`LogInv`), across reloads too. The queue (`StoreInv`): table, what a failed insert left
out, batch and queue, one after the other, are what the queue accepted, in order, at every step; all of the
table is committed as long as the writer lives, and nothing commits after it, so the rows a failed insert
left are gone with the process; a count of zero leaves the last two empty, so whoever waited for it finds in
the table all that was accepted before it asked. The counters (`CounterInv`): as long as there are labels
left every tenant counted has one, so a tenant that gets the next was never counted under the overflow
label. Assumed: finitely many requests of one process and its successors, costs and times that are natural
numbers, latencies that are integers or were not measured, and no tenant of the name of the overflow label
or of the scope of all tenants.

**Answers.** What is answered is proved of any table of rows and any question (`AnswersCohere`), and then of
the tables readers see: a second invariant, `OnceInv`, says the queue never takes a record twice, so a table has
no more rows than there are requests. A report adds up because its lines share out the rows among the values of
its key (`GroupsSum`); a page holds the rows with so many newer ones, a number that falls as rows get newer, so
the strips of equal width into which it falls are disjoint and in order (`PagesHold`); a percentile is the least
of the latencies that enough rows are no slower than, and the slowest of them is one (`PercentilesHold`). A
selection is a part of the table for which nothing is counted along a sequence: `Reports` takes it as a function
from the places of its rows, which is what makes this provable. Assumed: numbers in questions are integers,
of either sign, and the least width of a bucket is positive.

**Routing.** `FloorsHold` and `BudgetTruth` speak of the last decision only, so their invariant is that the
last decision is one the engine makes of its request in some state (`LastFounded`), and the work is about
the operators. Whatever way the engine takes, the model and every model of its chains is one of the
candidates it was given (`Within`), and all candidates - strict, capped, of the relaxed filter or the
catalogue behind it - are `Qualified`, which holds the floor; where the way asks the budget, its answer is
either a candidate that fits or the cheapest of them, and nothing after that changes the model. What is
chosen among candidates by a stable sort, a best score or a place in a list is taken from the list it sorts,
by the lemmas about `TopOf` and `Descending`, whatever the scores are. `AbuseSeen` needs a true invariant,
`UseSeen`: the times the engine keeps of a user's free models are in order, and within the minute they are
those of the history, although the housekeeping throws away what it takes for old; and that a request read
again in a tight context has the same candidates. `CacheStatusHonest` needs that every entry of the prompt
cache is the last success of its key (`WarmTruly`), which eviction and expiry cannot break, and that a
status of "warm" survives only if the final model is of the warm provider. For `ConversationKept` - of a
conversation of its owner, a tenant or a lone user - the store must have one entry for each of its keys,
each the conversation's last turn, and lack one that is not over only if there were more conversations than
it holds (`TalksTruly`): a full store without the new key has heard of its whole size and one more. Assumed:
of the catalogue that ids are unique, as the keys of the registry's table, and that its fields have the
types `ModelOption` gives them, a provider always being one (`CatalogAssumption`); of a request those of
`RoutingRequest` (`RequestsAssumption`), sizes and token limits being natural numbers, as its validators
demand; and a cap, an alarm level and an expiry that are natural numbers.

**Sums and lists.** What the models compute with folds (`MapThenSumSet`, `FoldLeft`) is defined through
`CHOOSE` or recursion, and the library's induction principles take an operator as their parameter, which no
prover here instantiates. `DataLemmas` goes around this: an induction is over the *set* of the numbers, or
of the subsets, for which a statement holds, and rests on the least element of a set of naturals. From this
follow the laws every proof about money cites: a sum over a set takes out one element, is the same for equal
values, grows with its terms, changes by what one term changes; a sum along a sequence is that over its
indices; and lists: what appending, joining, taking the tail, a prefix or `Without` does to the elements,
the length and to having none twice.

**Only model-checked.** Liveness (`TrippedIsRetried`, `EveryRequestEnds`, `ReadersReturn`), which needs
`ENABLED`. Every invariant, action property and refinement of the passing runs is a theorem.

## 6. What the models show about the code

One disagreement with what the code says of itself has a run of its own:

| Run | What the code does, and what it says |
|---|---|
| `dispatch_theft` | A cascade the run refuses is refused inside the handler that releases a slot, which is another request's (`flux.py:590`); one caller too many is let through. "Correctly blocked" (`run_budget.py:424-427`). |

The behaviours below are in the models, as premises or named exceptions of the properties, or follow from
the code that was read for them. They are no run's subject.

**Breaker and run.** Routing asks `is_available()` for every candidate (`routing_engine.py:415`) and calls
one; the question spends the due probe of the others, no report follows, and their circuits stay half-open,
refusing everyone, until a reset or a call that did not ask (`Route`, `Bypass`). The report of a call made
before a trip clears `probe_in_flight` while a probe is out. A run that is lost and created again while a
step is in flight takes that step's report for one of its own (`foreign`). A circuit whose probe was spent
on a request that called another provider is `Stranded`. `route()` validates a request behind the run's gate
(`routing_engine.py:328-330`) and has no handler, and `complete()` calls it outside any (`flux.py:271`): a
`ValueError` there keeps the slot, although a slot "must be matched by exactly one" report or release
(`flux.py:305`, `RouteRaises`, `RoutingRaises`).

**Plan.** A full ledger drops its oldest record, whatever its date (`budget_tracker.py:141`), so a busy
user's spend of this month is forgotten although `config.py:680-681` calls it safe (`intact`). A chosen
model that does not fit beside reservations in flight is not replaced by a cheaper one (`flux.py:364`). A
caller's verifier that raises leaves the ladder's reservation to the sweep (`flux.py:680`,
`VerifierMayHaveRaised`). A reservation older than its maximum age is swept even if its call is still out,
and the call's cost is then not recorded (`ReconcileUnknown`).

**Serving.** A generator that is never started leaks the slot routing took. A reservation swept during a
stream makes the bookkeeping raise twice: nothing is recorded, the slot stays taken, the breaker hears
nothing, and the answer that was delivered is not billed; nor is a proxy call cancelled at work. Costs are
rounded to six decimals (`provider_caller.py:129`), so a small usage of a cheap model is billed as $0
although the provider reported it (`Negligible`). A client that leaves after the opening chunk is billed
although no provider was asked; one that leaves after the usage chunk is billed at the estimate. A cancelled
proxy call, and the early returns of routing in proxy mode, keep the slot. `complete(mode="proxy")`
dispatches a second time, without a slot. The tenant's cap is checked before and charged after, so
concurrent requests overshoot it.

**Redis.** The key of a user lives `max(4 * ttl, 86400)` seconds after its last write, so a month's spend
is forgotten after a quiet day. The sweep and the eviction act on what they read and may drop a run that
was written since. `start()` replaces a run under its own calls, without regard to their slots. A crash
leaves a reservation until its age prunes it.

**Routing.** Users of one tenant who choose the same name share a conversation, and a tenant and a lone user
of the same name share a scope (`_scoped_state_key`, `ScopedKey`). When the abuse guard leaves nothing it
takes the whole catalogue, past plan, sensitivity, tools and breaker. A model near its rate limit is no
candidate, and its load is counted anew only when it is chosen (`model_registry.py:494`). The walk-down
tries only the best model of each tier and may say "exhausted" although another fits (`BudgetTruth` is
stated of what is said). "Would lose cache" is said even if the warm provider wins. The second premium
opinion excludes the chosen model. Compression of the history changes what a request is priced at, not what
is sent. The low priority's clamp lies below every bound, so the hard-complexity floor never fires for it.
The estimate of the output can be below the cap that is sent to the provider. The context's size counts the
system prompt twice. Nothing stores a response in the response cache, and nothing reports a failed
conversation.

**Messages.** A user message that follows a tool's result is read as the prompt and then left out
(`BuildMessages`). Google is sent no tool calls or results and, after a tool's result, an empty turn of the
user. The compressor's note is a system message within the history, a role Anthropic's turns do not have; a
text it cuts from 301 words has 303 (`context_compressor.py:62-67`).

**Learning and records.** The image for the file is taken before the check that may roll the memory back;
images may be written in another order than they were taken; a failed write loses what it held, and a
failed load followed by a flush overwrites the file (`CleanIsSaved` excludes these by name). Averages of a
customer are not rolled back. Overrides are lost at a restart. A failed insert ends the
writer's thread and is not rolled back (`attribution.py:267-280`): rows it had inserted are answered from until
the process ends, and are then gone, although `_flush` says what it waited for "has been committed". The
labels of `/metrics` are capped by tenant; the pairs of tenant and model, of which the class says the same
(`attribution.py:588-593`), grow with the models a labelled tenant uses (`SeriesAreWhole`). A page and its
total are two reads. An evicted rate-limit bucket comes back full.

## 7. Not modelled

`FallbackExecutor`, `update_actual` and the aggregate queries of `analytics.py`: no part of the program but
the evals and tests calls them. The response cache: it never answers. Registration of models at run time. On
Redis `start()`, `finish()` and `get()`, and the separate sums of day and month. In `Routing` the breaker's
question (its side effect is `CircuitBreaker`'s subject) and the proxy mode (`Serving`). In `Dispatch` the
prompt cache's and the records' writes (`Routing`, `UsageRecords`). The comparison of tokens, the
dashboard's routes, SQL and JSON, formats of numbers and logs; the regular expressions of classifier and
quality scorer, which are data; floating-point rounding of amounts and scores, which are integers here (the
rounding of a charge to six decimals is modelled, in `Serving`); the rounding of the `Retry-After` header
(`server.py:243`). The ids of tool calls are the provider's: that they differ is not checked.
`ReadersReturn` is about finitely many requests, so a reader kept waiting by records that never stop coming
is not seen. `BudgetTruth` is about what is said of the chosen model: that no other model would have fitted
is not claimed. The offline tools - benchmark, evals, demo, CLI, dashboard, harness scripts, together about
a quarter of the source lines - keep no state that an interleaving, a failure or a long history could
disturb.
