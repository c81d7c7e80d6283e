# Verification of pyharmonics-gpt

TLA+ modules that model the stateful parts of pyharmonics-gpt, the TLC
configurations that check them on small instances, and TLAPS proofs of the
properties that matter most. Every definition that stands for code names its
file, lines and symbol in `PROJECT.json` under `map`.

Contents: [inventory](#1-inventory) - [plan](#2-plan) - [modules](#3-modules-and-the-code) -
[runs](#4-runs) - [bounds and symmetry](#5-bounds-constraints-and-symmetry) -
[fairness](#6-fairness) - [proofs](#7-proofs) -
[refuted claims](#8-refuted-claims) - [not modelled](#9-not-modelled).

## 1. Inventory

pyharmonics-gpt is a Flask service (`src/app`) with a Next.js frontend
(`src/frontend`), an offline loop that tunes the trading strategy (`src/app/loop`),
a benchmark (`src/bench`), SQL migrations and scripts.

| Part | State it keeps | Operations | Talks to | What is hard |
|---|---|---|---|---|
| Quota ledger (SQL functions) | `usage_ledger`, `profiles.daily_quota` | reserve, consume, release | every metered route | concurrent reservations, midnight, rows nobody settles |
| Metered routes (`api/routes.py`, `rsi_trend_routes.py`, `vibe_routes.py`, `infra/supabase_client.py`) | `analyses` rows, the idempotency lookup cache | receive, look up, insert, reserve, run, settle, answer | ledger, Supabase | retries with one key, swallowed exceptions, killed workers |
| Vibe run (`vibe_routes.py`, `services/vibe/*`, `tasks/vibe_worker.py`) | the run row, the event list, the RQ job, the cancel flag | send, execute, call tools, settle, cancel | Redis queue, ledger, event store | two kinds of executors, stop command against natural end, lost replies |
| Event stream (`_stream_events`) | a cursor and a count of empty polls | read a page, look at the status | event store, run row | must end whatever the run does |
| Vibe chat (`hooks/use-vibe.ts`, `lib/vibe-event-reducer.ts`) | spinner, running flag, current run, timers, transcript | send, poll, stop | run routes | awaits between test and set, late pages |
| Session store (`infra/vibe_session_store.py`) | sessions, messages, index of sessions | create, list, touch, title, archive | Redis or Supabase, web workers and job processes | read-modify-write of whole values |
| Symbols cache (`infra/futures_symbols_cache.py`) | one file for all workers, a lock and a flag in each | get, refresh, refresh in the background | exchange, file system | one temporary name for all workers |
| Memory cache (`infra/memory_cache.py`) | entries by last use with expiry | get, set, delete, clear | request threads | clock read before the lock |
| Tuning loop (`loop/driver.py`, `pareto.py`, `state.py`, `checker.py`, `maker_checker/arbiter.py`) | `PARETO.json`, `HISTORY.jsonl`, snapshots, issues, `STATE.md` | load, record, admit, save, render | workers, arbiter, file system | crashes between files, several drivers |
| History journal (`loop/state.py`) | `HISTORY.jsonl` and its gzip archives | append, rotate, replay | driver | rotation outside the lock, half-written archives |
| Maker-Checker agents (`loop/maker_checker/*`) | a batch, a case, a prompt, a verdict | propose, hide, ask, calibrate, fuse | driver, LLM | malformed answers, what the Checker may see |
| Search and mutation (`loop/search.py`, `mutation.py`, `worker.py`, `config/tuning.py`) | the best constants, `next_generation.json` | mutate, write a generation, run it | driver | chains of mutations against constraints, torn files |
| Out-of-sample guards (`loop/walk_forward.py`, `oos_validator.py`) | results by quarter | run a quarter, aggregate, validate | worker | missing quarters, thresholds |
| Scheduler (`loop/scheduler.py`) | none; reads the history and the clock | next wake-up | an operator's shell | nights, weekends, plateaus |
| Position management (`services/position_manager.py`) | open position: stop, size, targets hit, extreme | process a bar | a broker | stop, targets and trail due on one bar |
| RSI trend strategy (`domain/rsi_trend*.py`, `services/rsi_trend_*`) | trade being simulated, equity curve, insight cache | scan, backtest, plan | LLM, market data | order of exits, stale signals, cache keys |
| Watchlist (`infra/watchlist_store.py`, `api/watchlist_routes.py`) | table rows, Redis mirror | list, add, patch, remove, reorder | Supabase, Redis | mirror and fallback diverge, read-modify-write |
| Position page (`hooks/use-position.ts`, `lib/position/*`) | configuration, balance, saved copies per account | load, reconfigure, archive a trade, switch accounts | localStorage shared by tabs | effects that save what they have just loaded |
| Signal engine (`services/signal_engine.py`, `domain/signals.py`, `domain/validation.py`, `config/tuning.py`) | none; reads the tuning in force | filter, veto, score, place the stop twice, grade, rank, verify | detectors | two stops for one signal, broken contracts, long and short written out separately |
| Weight search and walk-forward (`grid_search_weights`, `scripts/backtest_harmonic_lib.py`, `services/vibe/backtest_engine.py`) | stack of tuning scopes, a replaced filter function, tallies | enter a candidate, relax, build, restore, simulate | signal engine | global state swapped in and out, exceptions between |
| Analysis pipeline (`services/analysis.py`, `infra/pyharmonics_adapter.py`, `kline_cache.py`, `analysis_cache.py`, `tradingview_adapter.py`) | caches of candles and of answers | look up, fetch, detect, answer | data sources, LLM | phases that fail separately, cache keys, ages |
| Market data (`infra/marketdata.py`) | rows fetched so far | fetch page by page, retry | exchange | candles that open between two pages |
| Discipline filters, macro overlay, harness of the strategy groups (`services/discipline_filters.py`, `macro_bias.py`, `.scratch/backtest/run_backtest*.py`) | frames, trades by group | find, filter, simulate | signal engine | bars a decision must not see |
| Backtest candle store (`scripts/download_backtest_data.py`, `_binance_stdlib.py`) | a parquet file and its metadata | load, download, clean | exchange, other processes | files written in place, readers that delete |
| Memory of the engineering loop (`loop/loop_context.py`) | scratch, `episodic-memory.jsonl`, `durable-facts.md` | put, promote, clean, supersede | threads, file system | a lock taken three times for one promotion |
| Other pages' hooks, components, bench, scripts | page state, reports | - | - | late answers |

The properties that make each modelled part correct are listed with the runs in
section 4; the places where the code is hard to test are in `PROJECT.json`
under `hazards`.

## 2. Plan

Order: what spends money or quota first, then what is durable, then pure
algorithms, then pages.

1. Done: `QuotaLedger`, `MeteredRoutes`; `VibeRun`, `VibeSSE`, `VibeChat`,
   `SessionStore`, `SymbolsCache`; `Pareto`, `LoopDriver`; `HistoryJournal` as an
   implementation of `AppendLog`; `MakerAgent`, `CheckerAgent`, `TuningSearch`, `Robustness`,
   `Scheduler`; `OpenPosition`, `RsiBacktest`, `TradingPlan`; `AnalysisPipeline`,
   `MarketData`, `SignalEngine`, `WalkForward`, `BacktestHarness`; `Watchlist`,
   `PositionPage`, `LruCache`, `CandleStore`, `LoopMemory`.
2. Done: the theorems of section 7, one module of proofs for each group of components.
3. Parts that could follow: the hooks of the watchlist, analysis and strategy pages
   (optimistic updates and late answers), session switching in `VibeChat`, the stages
   of the bench.
4. Compositions that could follow: `LoopDriver` on `HistoryJournal` instead of a journal
   that loses lines where two appends meet; `VibeRun` on `QuotaLedger` instead of a ledger row.
5. Abstract specifications: the append-only log is there (`AppendLog`); a quota account
   for `MeteredRoutes` and a list per user for `Watchlist` without faults would be next.
6. Theorems worth proving next: `BankedWins` of `RsiBacktest`.

## 3. Modules and the code

Mutants (definitions introduced by a `Mutant` comment or by the sentence of the
bug) stand before the definition they replace and are used by no specification.

**QuotaLedger** - `usage_ledger` as `ledger` (request id to row), `CURRENT_DATE` as
`today`. `Grants`, `Reserved`, `Consumed`, `Released` are the SQL functions: only *consumed* rows
count against the quota, an inactive profile is refused, `consume` and `release` update
by primary key whatever the status. Every caller passes one unit. No specification of its
own: `MeteredRoutes` extends it.

**MeteredRoutes** - every route that spends quota. A request moves through
`pc` (looked up, inserted, reserved, worked, settled, answered); `analyses` with
its unique index on user and key, `idem` is the per-process lookup cache with
misses. `route = "analyze"` inserts an analyses row first; the other routes
reserve for an id that has none, and the foreign key refuses them. A fault makes
one database call fail before or after it took effect; `Complete` builds the answer after
the unit was consumed, and `FailLate` is the exception that may still come there: `analyze`
falls into its release, the other routes just fail. `Kill` is gunicorn killing a worker. `MaxInFlight` is workers times threads. Production mode only
(Supabase configured).

**VibeRun** - one run. `Send` is the route with its reservation (the answer of the
reservation is an input), enqueue and thread fallback; `exec` holds the local
variables of the horse and of the thread; `RunStep` walks through the iterations
of `run_agent`: cancel check, model call, tool calls, settlement, status update,
`done`. `Cancel` is the DELETE route (job cancel or stop command, cancel signal,
status), `StopHorse` the stop command arriving. Faults: Redis down, lost replies,
failed ledger calls, job timeout, broken connection.

**VibeSSE** - `_stream_events` beside that run: `ReadEvents`, `ReadStatus`, with
`seen` and `empty` for `seen_count` and `empty_polls`.

**VibeChat** - the chat page and the polling route: `SendRequest`, `SendReply`,
`Tick` (fetch, answer, apply; `TickFails` an answered failure, `TickRejects` a poll that
throws, which nothing catches and after which no timer is set), `Stop`, with the refs and the reducer's state apart
from each other, as in React. `Serve` publishes events on the server; a page is the
last `Limit` events after the cursor, as `get_events` cuts it.

**SessionStore** - one user's sessions. With Redis (`backend`) an operation is the
sequence of its commands: `MessageReads`, `MessageWrites`, `TouchReads`, `TouchCounts`,
`TouchWrites`, `ArchiveReads`, ... each a whole-value read or write, with `copy` what the
process has read and not yet written back; web workers create and archive, job
processes write messages and titles. A failed write is logged and forgotten. With
Supabase an operation is one statement with a fallback to the process's memory (`mem`).
`acked` and `removed` are what clients were answered (without the deletions that another
web worker's older copy of the list undoes), `spoiled` the sessions whose list had two
writers at once.

**SymbolsCache** - every worker's request thread and background thread over one file:
`_ensure_loaded`, `Fetch`, `FillTmp`, `Rename`; `inode` numbers the files, so that a
descriptor keeps what it opened when another worker renames or truncates.
`_kick_background_refresh` and `Finish` move the flag under the lock.

**Pareto, LoopDriver** - `add` is `ParetoSet.add` with dominance over the
objectives; the driver's `main` as `Load`, `RecordResult` (verdict, history line),
`Escalate`, `AccountAccepted` (front in memory, snapshot emptied), `WriteSnapshot`,
`AccountOther`, `Save`, `WriteState` (twice, as the code does) and `Crash` between any two.
`Meet` notes which drivers are in `append_history` at once; only for these `LoseLine` may take
a line out of `history` (into `lost`) or leave an archive that cannot be read, which is
what `HistoryJournal` shows a rotation to do then. What a backtest returns for a hash on a
quarter is the external function `Score`. The names of run directories and the wording of
`STATE.md` are abstracted.

**HistoryJournal** - `append_history` by file descriptor (`Open`, `Write`), rotation by
name after the lock (`BeginRotation`, `Copy`, `Unlink`), `Crash`, with any number of
writers. Files and archives are numbered. A rotation opens an archive of its own
(`NewArchive`) or, in the second of another one, truncates that one (`SameArchive`).
`Replay` gives nothing where an archive was cut short, as gzip's `EOFError` leaves
`replay_from_history`. `exposed` is a ghost: the records whose append met another writer's
rotation, went to a file that had lost its name, or whose archive two writers opened in one
second. `ImplementsLog` shows the journal to implement **AppendLog**, the log its readers may
count on: it grows by one record at a time, and none goes that was not exposed. The
refinement mapping takes for the log what archives and file hold of the others.

**VerdictTable, MakerAgent, CheckerAgent** - one batch of the Maker and one case of the
Checker. `Batch` blends the proposals that `_parse_proposal` lets through with the
arithmetic ones and tops up; `ProposeRaises` is the call that an answer without a list, or
with a number beyond a float, ends instead (`LlmRaises`: both lie outside the `try`); `_build_prompt` is what the Checker is shown after
`strip_maker_artifacts`; `verify` calibrates the answer and `Merge` is the arbiter.
Scores are tenths, and the order of prompt keys is kept because it is what the model
sees. `VerdictTable` is the M4 verdict the driver and the Checker share; `Numbers` has
Python's `round` of a quotient and the ascending order of a finite set of numbers,
which other modules use for filtered lists as well.

**TuningSearch** - `mutate_cluster` under the constraints of `TuningConstants` (`Legal`),
one generation as `BeginGeneration`, `EndGeneration` (the file is written in place),
`SearcherDies`, then `StartRun` and `FinishRun` with `worker.py`'s decision. Fields that
share a constraint are represented by one of them; a Gaussian draw is any member of
`Steps`.

**Robustness** - `RunQuarter` appends a quarter's result or skips it, `aggregate` and
`oos_passed` are the two judgements about the held-out quarter.

**Scheduler** - `next_wake_at` on a week of five-minute ticks; `SleepAndRun` is the
shell that sleeps and runs a generation.

**OpenPosition** - `process_bar` by outcome: `StopOut`, `TimeStop`, `FullTarget`, `Ride`,
`StayClosed`. `acts` is the list it returns and `broker` an account that applies it.
`SetupOK` is the geometry `domain/signals.py` produces; `PositionState` itself only
asks for positive prices. Nothing in the repository but its tests calls
`process_bar` yet.

**RsiBacktest** - `detect_signals` and `_simulate_one` bar by bar: `Idle`, `Open`,
`Stop`, `Target`, `TrendFlip`, `Manage` (partial target, RSI exit, trailing),
`EndOfData`; `File` appends the trade and moves the equity curve. R multiples are
integers scaled by `RScale`; indicators are inputs, and the optional signal
filters appear as the choice of `Idle` on a bar with a signal.

**TradingPlan** - decision layers, targets and the insight cache of the plan
service, over snapshots with one value on each side of every threshold.
`BuildPlanAsk` takes the LLM's answer, well-formed or not, as an input.

**SignalEngine** - `build_signal` for one window of candles: `Build` takes the market (what
the candles say: price, last bar, ATR, swings, regime, trend, oscillators), the stop
level and the literal buffer; `ScoreCandidate` is one round of the loop,
`ContractViolation` a round that leaves it by a broken icontract guard; `Rank`,
`Unverified` and `Verify` are `rank_signals` and `apply_stability`. The indicator
arithmetic is an input. Prices are integers on a grid where every price the code
computes is exact, R multiples are in 1/10000 as the code rounds them, points in
halves. `FirstStop` is the stop the grade is given for, `StopFor` the stop the signal
carries; `FilterStop` the one the freshness filter measures with. `relaxed` is the
backtests' replacement of `rejection_reason` by a function that accepts everything.

**WalkForward** - `grid_search_weights` driving the walk-forward backtest: `scopes` is the
stack `TuningScope` pushes and pops, `filters` the function `_maybe_relax_filters`
replaces, `read` the weights `confluence_score` saw. One window is `RelaxFilters`,
`BuildSignal`, `DropSignal` (a broken contract) or `SignalRaises` (any other exception),
`RestoreFilters`, and then `SkipSignal` or `FollowBar` until an exit or the horizon; an
exception, of the detection as well, ends the search through `AbandonSearch`. What `build_signal` returns
is any well-formed signal or none.

**AnalysisPipeline** - requests side by side: `Lookup` restores an answer by its key,
`FetchCached` takes candles, `Ask`, `TradingViewAnswers`, `FallBack`, `Receive` and
`SourceFails` are the order of the sources, `Price` stamps, `Detect` and
`technical_result_to_schema` make the answer, `Answer` stores it. The clock is kept as
ages (`Elapse`), so behaviours have no end; prices are their signs.

**MarketData** - `_fetch_paginated` while the exchange goes on (`Open`): `PageArrives` or
`RequestFails`, with the retries of `_request_with_retry`.

**BacktestHarness** - `evaluate` and `compute` as operators on bars; the
harness runs over two worlds whose bars agree up to the entry bar, so that looking into
the future is a difference between them. The averages have a span of 3 in place of 200;
their form and the thresholds are the code's.

**Watchlist** - one user's list: `mode` is the backend the process started with,
`table` and `redis` the two stores; a request loads and saves in separate steps,
mirrors after the table, and falls back when a statement fails.

**PositionPage** - `tab` is the hook in each browser tab, `store` the localStorage.
`Mount`, `SwitchUser`, `Loaded`, `UpdateConfig`, `ArchiveWhatIf`, `Unmount`; `ShowConfig`
is the effect on the configuration, which allocates and saves. A load is two steps
because other tabs may write between them; the user of the same tab cannot act
between them (they are microtasks), hence `Ready`. `SimulateWhatIf`, `RiskFloors`
are the calculators.

**LruCache** - the OrderedDict as a sequence, least recently used first. `Enter` reads the
clock, the operation then takes the lock. `used` is a ghost: keys by last use.

**CandleStore** - processes over one parquet file and its metadata. `Pages` is the
backward walk of the loader; writing is two steps (`SaveOpens` truncates, `SaveCloses`
completes), `by` the processes that write into the file that has the name. `Stops` is
a kill or an `OSError` at any step.

**LoopMemory** - `Collect`, `ReadEntry`, `AppendRecord`, `DeleteEntry` are the pieces of
`promote_all` between which the lock is free; `Promoted` and `Rewrite` the second half of
`hygiene`; `_mark_superseded` is the line-by-line edit with its section that a heading
does not close.

The MC modules only give values: symmetry sets, the record sets of
configurations, setups, markets and patterns. `MCStrategy`, `MCTuning`, `MCVibe`,
`MCStores` and `MCAnalysis` add a variable `machine` that picks one of several machines
that share no state, so that one run explores the sum of their states and not the
product; `Machines` in `MCAnalysis` names the machines of a run.

## 4. Runs

`tlc -workers 2 -config <cfg> <module>` in this directory. All finish within five
minutes, `stores` and `vibe_run` being the longest.

| Run | Module, configuration | Checks | Shows |
|---|---|---|---|
| `routes` | MeteredRoutes, MCMeteredRoutes.cfg | `OverrunBounded`, `OneUnitPerKey`, `FailureIsFree`, `LeaksNeedFaults` | the quota is overrun by at most the threads in flight less one; a key is charged once; a refused request is free, and an error is charged only where a call failed as well; a reservation is left behind only by a fault, one each |
| `vibe_run` | MCVibe | `TerminalEventIsLast`, `ChargedAsReported`, `CancelStopsWork`; `AnsweredStays`; `NonEmptyWithoutFailures` | nothing follows a terminal event of an executor; `done` means paid and `error` means not; a seen signal ends the work; an answered message is kept and a deleted session stays off the list although records are written back stale; without failed fetches no worker is served an empty or torn list of symbols |
| `vibe_sse` | VibeSSE, MCVibeSSE.cfg | `StreamEnds`, `ReservationSettles` (temporal) | without faults and cancellation the stream ends and the unit is settled |
| `chat` | MCVibeChat | `SpinnerHasPoller` | two sends, pages, failures and rejected polls in any order never leave a spinner nobody will clear, unless a poll of its own run was rejected, was in flight at a stop, or ran out of empty pages |
| `chat_live` | MCVibeChatLive | `DeltasInOrder`, `PollersEnd` (temporal) | over several pages text arrives in order and once; every poller ends |
| `loop` | MCLoopDriver | `FrontIsAntichain`, `FrontHasSnapshot`, `JournalFirst`, `ReplayRebuilds`, `FrontOnlyImproves` | the files of the tuning loop agree after any crash and whatever lines two drivers' rotations lose; only a death leaves a torn snapshot; an unovertaken save loses no ground |
| `strategy` | MCStrategy | `BrokerAgrees`, `ProfitLocked`, `StopNeverRetreats`; `LossBounded`; `PlanIsOrdered` | state and actions of the position manager agree and profit is locked; the backtest never loses more than 1R; a plan to trade can be traded |
| `tuning` | MCTuning | `BatchUsable`; `CheckerBlind`; `GenerationSound`; `NeverOversleeps`; `ValidatorsAgree` | whatever the model sends, a batch is usable, and only an answer without a list or with a number beyond a float gives none; under strict isolation the Checker sees nothing of the Maker; after any chain of accepted mutations and deaths a readable generation keeps the constraints and changes one cluster; the loop never sleeps through more than a weekend; the two out-of-sample judgements agree |
| `stores` | MCStores | `ListedAsWanted`; `EmergencyWhole`; `RecentSurvives`; `FrameIsAWindow`; `RememberedOnce`; `ImplementsLog` (refinement) | no interleaving or fault lists a symbol twice, and calm histories show the order asked for and a mirror that follows; the emergency money is whole; no live entry among the last `max_size` used is evicted; a backtest reads exactly the candles of a requested window, unless two processes wrote them at once; a value is promoted once and one fact per key is current; the journal of two writers and its archives are a log that loses only what met the other's rotation |
| `analysis` | MCAnalysis | `StopNotPassed`; `ScopesBalanced`; `BoundedStaleness`; `PaginationExact`; `DecisionPointInTime` | no signal comes with a stop the price has passed; no window leaves a scope or a filter behind; staleness never adds up over requests; pages neither repeat nor lose a candle while candles open; no group decides on bars after its entry |
| `backtest_lookahead` | MCAnalysis, HarnessLookahead.cfg | `MacroPointInTime` (violated) | the macro multiplier of a trade depends on a close after its entry |
| `walk_weights` | MCAnalysis, WalkForwardWeights.cfg | `CandidateInForce` (violated) | the weights under search are hidden by the scope each window pushes |

The type predicates are not part of the runs; they are proved, alone or as part of an
inductive invariant, for the machines of section 7. Properties that stand in the modules and in no
run hold on the same instances unless section 8 lists them: `AcceptedMeansClean`,
`FlagHasThread`, `BridgeNeverFatal`, `BankedWins`, `DrawdownExact`, `StopOnlyTightens`,
`RiskBudget`, `ReferenceIsLastResort`, `MirrorScore`, `RiskNeverUnderstates`,
`LostOnlyIfExposed`; `NothingLost` does with one writer.

## 5. Bounds, constraints and symmetry

| Configuration | Bounds | Why they are enough |
|---|---|---|
| MCMeteredRoutes.cfg | 2 users (1 active), 3 requests, 1 key, quota 1, 1 midnight, 2 in flight, 1 fault | two requests race for the last unit while a third retries a key; every call can be the one that fails |
| MCVibe, run | 2 iterations, 1 tool call, 2 faults | a second iteration sees what the first left; constraint `TwiceBriefly` follows a run executed twice only in its first iteration and with one fault, since later ones repeat it |
| MCVibe, store | 1 web worker, 2 job processes, 1 session, 3 messages, 1 failing statement | two writers of one list, a touch or a title across an archive; `AnsweredStays` also holds with two web workers, one job process, two sessions and one message, where the races on the list of ids appear |
| MCVibe, symbols | 2 workers with a request and a background thread, 1 refresh by an administrator, 1 failed fetch, 1 week | bootstrap by both workers at once, a background refresh of one beside a refresh of the other |
| MCVibeSSE.cfg | 0 faults, pages of 2, 2 empty polls | more events than a page |
| MCVibeChat | 2 runs, pages of 2, 2 events, 1 empty poll | two sends overlap, with stops and rejected polls; a failed run has its error on the page, so nothing excuses its spinner (with pages of 1 or 3 events the first page may leave it out, the case the theorem keeps) |
| MCVibeChatLive | 1 run, pages of 2, 5 events, 2 empty polls | several pages |
| MCLoopDriver | 2 drivers, 2 hashes, 2 quarters, Maker-Checker on, 2 generations, 1 crash, 3 lines of which rotations lose 1 | two loads of one front, a crash in either, one hash with two metrics, dominance one way on a quarter and none on the other; constraint `ShortHistory` |
| MCStores, journal | 2 writers, rotation at 2, 6 records, 1 crash | several rotations, one writer appending or rotating beside the other, one interrupted |
| MCStrategy | prices 1 to 5, RSI 25/50/75, zone (40, 60), reward 1, 4 bars; setups of both directions; plans with one entry and risk, ages 0, 12, 13, qualities 49 and 50, deviations 1 and 15 percent | enter, reach the target, trail, stop, enter again; each side of each threshold of the plan (the proof has every entry and risk) |
| MCTuning | batches of up to 3 with 2 proposals in an answer, one of 9 kinds each; 5 metrics blobs, 2 calibration curves; 2 searchers, 2 generations, 1 death; 2 fitness values, back-off after 2; 3 quarters, trades 14 to 16 | a top-up is needed; every heuristic and each side of every threshold; a chain of two mutations; Friday night and Monday morning |
| MCAnalysis, engine and walk | 4 prices, 2 wicks, 2 swings, 6 moods of trend, regime and oscillators, a market without volatility, one below its ATR; 14 patterns, 2 per detection; two stop levels; literal buffer 0 or none; 2 weight combinations, 2 windows, 2 bars | price before, inside, through and beyond the zone, each regime with either side, two signals to rank, guards that break; a window after one that failed |
| MCAnalysis, pipeline | 2 requests, 1 symbol, 1 key, times to live and `MaxRun` 1 | one request stores while another runs; unbounded in time |
| MCAnalysis, market | 6 candles with gaps, 1, 3 or 4 asked for, pages of 2, 3 retries | a full last page, a short one, a bound between candles |
| MCAnalysis, harness | 3 bars, 6 patterns, frames of 5, 2 anchors, 2 bars a day | the entry on either bar of a day, and a later day after it |
| MCStores, watchlist | 3 symbols, 2 workers, limit 2, 4 requests, 1 fault, both backends | the limit is reached and raced for |
| MCStores, page | 1 account, 2 tabs, 3 configurations (sound with a cut position, over-allocated, no emergency money), trades 0, 2, 5, 8 | a trade in each bucket and beyond all of them; a balance stored under another configuration |
| MCStores, lru | 2 threads, 3 keys, room for 2, time to live 1, 2 ticks | eviction, expiry, and a thread whose time is behind |
| MCStores, candles | 2 processes, 5 candles, 2 windows, pages of 2, 3 commands, 1 kill | two commands overlap and a third reads what they left |
| MCStores, scratch and facts | 1 promoting thread, 3 keys, 4 puts, 3 days, 1 death; 4 facts | a put between check and deletion, a second promotion of the key; a section that runs over two entries |

Symmetry: request ids, drivers, runs, requests, symbols with the keys that share their
model values, and processes likewise - sets of model values no definition orders or
picks from. The runs that check liveness use none; in `stores` the refinement is checked
under symmetry, which is sound because `LogSpec` has no fairness.
Deadlock is not checked: in every run bounded inputs, faults or data run out, or the
system rests when nobody asks.

## 6. Fairness

- `VibeRun`/`VibeSSE`: weak fairness of `Send`, `Dequeue`, each executor's `RunStep`,
  `StopHorse`, `Cancel` (each is the next statement of a thread that runs, or a
  message under way) and of `Read` (the generator is driven by an open
  connection). A client need not cancel and a broken Redis need not return.
- `VibeChat`: weak fairness of `Serve`, of a send's request and reply or failure, of each
  poller's `Tick` and of `Stop` once pressed: promises settle, timers fire and the
  executor goes on.

No other run states liveness (`SymbolsFairness` is there for `CacheSettles`, section 8).

## 7. Proofs

`tlapm <module>` checks them from nothing. Assumptions are the named `ASSUME`s of
the modules: sets are finite where they are counted, counts are naturals, model
values differ from records. Where an assumption says more, it is named below. A
theorem holds for every value of the constants; the runs of section 4 hold the same
definitions on one instance each, and the invariants below were checked there before
they were proved.

**Induction** - what the other proof modules rest on wherever a recursion or a sequence of
unknown length is involved. The provers have no induction over numbers, but the library's
fact that inclusion of finite sets is well founded gives one for a *set* of numbers
(`SetInduction`, `IntervalInduction`, `LeastNumber`), and with it a recursive function of the
model is unfolded by its equation (`Recursion`, for a step from the value before;
`EarlierRecursion`, from any earlier value). `Ascending` of a finite set is characterised by
rank (`RankDetermines`): it is the one increasing sequence of its members (`AscendingFacts`,
`IncreasingIsAscending`), and a filtered list keeps order and members (`EntriesFacts`).

**VibeRunProofs** - for any numbers of iterations, tool calls and faults. `RunTypeCorrect`
carries the bounds of the loop counters (`LoopInv`). `CancellationStops` needs `LateInv`: the
calls begun after the token was set, and the fault that made the run execute twice, are
paid for by faults; an executor about to call either has one in hand or will never see
the token set again (`Spent`: the signal's key is gone and the thread's event is not set).
`VerdictIsLast` and `ReportedIsCharged` share `EndInv`, which says by program counter what one
executor has announced (`AnnouncedBy`) and what the ledger holds then (`ChargedBy`);
`HandedOver` is what makes a run that is not executed twice belong to one executor.

**VibeChatProofs** - `DeltasStayInOrder`: what a page shows of a run lies up to its poller's
cursor and what a tick holds lies beyond (`ShownInv`), whoever restarts or stops the poller.
`SpinnerIsDriven` (`SpinnerHasPoller`), for any runs, events, page sizes and empty polls: a spinner
is driven by a live poller unless a run of its own is forsaken (`Forsaken`: its poll was
rejected, or its end lay before the page).
`SpinnerInv` replaces "a poller is alive" by "a poller is alive *and no ending event lies
behind its cursor*" (`Owes`): only then will it stop the spinner. That a page never jumps
over an ending event is `TickInv`, from `LogInv` (an ending event is the last one) and from
what the tick saw of the status before it read the page.

**TuningProofs** - the driver for any candidates, objectives, drivers, crashes:
`DriverTypeCorrect`; `DriverKeepsAntichain` from a lemma that `add` keeps antichains
(dominance is a strict order); `DriverSnapshotsFront` (`FrontHasSnapshot`) with `SnapshotInv`: every
point a driver added to what it loaded has a snapshot already, and a step spoils one only by
a death in the middle of writing it, so that `Spoilt` never outgrows `crashes`;
`DriverJournalsFirst` with `JournalInv` (whatever a file or a memory speaks of was
journalled, and lines leave `history` only for `lost`); `DriverOnlyImproves` with `CoverInv`
(every point of the front a driver loaded is still covered by its front in memory). `CheckerIsBlind` is the lemma `ShownFill`: strict
isolation does not strip `proposal_id`, but the prompt shows five names in alphabetical
order and `proposal_id` sorts behind the five that are always there. `AcceptedIsClean` is
by cases over the verdict table. `GuardsNeverDisagree` needs that rows are typed and the
arithmetic of the two thresholds: what fails the collapse test fails the validator too.
`HistoryRebuildsFront` (`ReplayRebuilds`): the replay is a recursion over the history; with
`JournalFirst` every point of the front has its line there, or among the lost, and the front a
replay builds covers a result of each hash it accepted. It has no hypothesis on the quarters;
`ReplayAlwaysRebuilds`, which asks for the very point, fails (section 8). `SleepIsBounded`
(`NeverOversleeps`), for any sequence of generations, plateaus and back-offs: `AwayInv` bounds by
day and hour how long the loop can have been away, which makes the weekend the worst case.
`BatchesAreUsable` (`BatchUsable`), whatever the model answers: a call that an answer does not end
(`LlmRaises`) gives a batch, and a batch is cut from the LLM's
valid answers, a top-up and the arithmetic share (`AnswersFit`, `MutationsFit`, `CutFits`), and the
two shares add up to the number asked for. `GenerationsAreSound` (`GenerationSound`), for any
number of searchers, mutations and deaths: what is written, on disk and running is sound
(`SearchInv`), so every parent is legal. The recursion of `mutate_cluster` is unfolded draw by
draw (`Drawn`: only fields drawn so far have changed); `mutate_field` itself keeps illegal
constants out, so `Legal` is expanded for the defaults only.

**StrategyProofs** - for every setup and all bars (`SetupOK` is assumed of positions).
`PosInv` joins typing, the sizes left after each target, where the stop can be after each
target (with one target hit it is the entry or the trail) and `ProfitLocked`.
`PositionTypeCorrect`, `PositionLocksProfit`, `PositionStopAdvances`: although TP2 sets the
stop to TP1, which may lie behind the trail, the ratchet of the same call restores it.
`LossIsBounded` (backtest): `Bounded` gives every part of the position its share of the risk -
stop, target and *last close* are no more than the risk against the entry, and what is
closed cost no more than its share (`AtLeastMinusOne` adds them up under the rounding of
the R multiples). `StopsTighten` needs `~t1 => stop not past the entry`. `PlansAreOrdered`:
a plan to trade takes the side of the trend, the levels of the signal and targets by
multiples of the risk; they agree because `evaluate_decision` trades only when the sides do.
`AccountFollows` (`BrokerAgrees`): the events that `process_bar` emits, applied in order to a broker's account,
give the size and the stop the position has, bar after bar.

**SharedStoreProofs**, the metered routes - for any users, keys, threads, faults and days.
`RoutesTypeCorrect` proves `TypeOK` with `PhaseInv`, which ties a request's `pc` to its
ledger and analyses rows (a request past *reserve* has a row of its user; before it,
none). `RoutesChargeKeyOnce` needs `KeyInv`: of the requests of one user and key at
most one owns an analyses row, and only its owner can hold or have consumed a
unit. `RoutesFailureIsFree` takes the refused requests from `PhaseInv` and the errors from `LeakInv`: a
charged error has a failed call of its own, as a stranded reservation has. `RoutesOverrunBounded` needs
`OverrunInv`: the units consumed *and held* on a day by one user are at most
`DailyQuota + MaxInFlight - 1`. Consumption moves a unit from held to consumed, and a
grant adds one only when fewer than `DailyQuota` are consumed and at most
`MaxInFlight - 1` others are held. `RoutesSettle` counts: `LeakInv` bounds by `faults` the
reservations that no later step settles (`Stranded`: also those whose release has just
failed), because a step strands its own request's reservation only, and only by a
fault (`StrandedByFault`).

**SharedStoreProofs**, the stores - `AnswersStand` (sessions), for any processes, sessions and
messages: `ExistsInv` and `CreatorInv` say which operations can write a record back at all, so that a
removed session never returns to the list by Redis, and `ListInv` that the one writer of a
list that is not `spoiled` has it as it is. `NonEmptyServed` (symbols): with no failed fetch
no file that anybody still has open, whatever its name, has an empty list in it
(`NoEmptyList`). `FramesAreWindows` (candles of the backtests): `Walked` says what the pages from a
cursor backwards amount to, by induction over the cursor (a cursor that is one millisecond off
would lose or repeat a candle; that candles last longer than that is the assumption), so the
loader returns a whole window (`FetchIsWindow`); `CandleInv` carries that through files, hands of
processes and answers, with a file of two writers never passing for candles.

**StoreProofs** - `RecentKept` (cache): the entries are linked to the history of uses by order
(`Linked`), so the entry evicted is the one used longest ago; `Punctual` lets a thread work
with an old clock reading only. `PromotedOnce` (loop memory; assumes that one
thread promotes, because two would append one value twice: the lock is free between the
pieces of `promote_all`): `FileInv` says that what stands in the file is no longer in
scratch unless its deletion is the promoter's next step, `HoldInv` the same of the value in
its hands, and `FactInv` that between the two halves of a promotion no current fact names the
key. `EmergencyKept` (position page): `TabOK` follows the emergency money through every
effect, and a saved balance never stands without its configuration (`SavedOK`).
`SymbolsStayUnique` (watchlist): ids have one meaning `f`, extended by every request, and
whatever is in the table, in Redis or in the hands of a request is a set of rows of `f`
with one row for each symbol (`ListInv`). A late write of an old copy thus loses rows but
doubles none; that a reorder names no symbol twice, and has so far renumbered part of what it
names (`Pending`), keeps its mirror from adding a second row. `ListStaysAsWanted` adds the calm
half of `ListedAsWanted`: in a quiet history one request is served at a time, and Redis still
holds the rows that request found while the table is ahead by what its statements did
(`CalmInv`, `Phase`). A listing is the only way to put rows in order (`ListingIs`,
`SortedExists`), an addition goes behind (`NextIsBehind`), a reorder numbers row by row
(`RenumberedStep`), and the mirror makes of Redis what the table has become.
`HistoryIsLog` (journal, any number of writers) is the refinement: every step of `HistoryJournal`
appends a record to `AppendLog`'s log, exposes some of its records, or leaves it as it is;
`HistoryKeepsRecords` that a record which was not exposed is found. Both rest on `JournalInv`: while a
writer rotates, what the file holds and nobody exposed is in its archive as soon as it may be
unlinked (`RotationInv`), and an archive opened twice has exposed what was in it (`CopyInv`). For one
writer nothing is ever exposed, hence `NothingLost` (`OneWriterExposesNothing`).

**AnalysisProofs** - `StalenessBounded`: each stage of a request has its bound (`RunFresh`), and
a cache may add its time to live once, because age and time left are tied
(`CandlesFresh`, `AnswerFresh`). `StopsAreAhead`: at the
live callers' settings (`Standard`) every candidate kept came through the filter, whose buffer the multipliers only widen
(`BufferWidens`, `TrapWidens`), and a swing replaces the structure by an extreme of bars
that include the current one. `ScopesAreBalanced` has the stack of scopes in every
phase (`WalkInv`). `DecisionsArePointInTime`: two histories that agree up to the entry bar
give the same trades (`TakenByEntry`), and a trade's outcome is bounded by the stop of its
own side (`OutcomeBounded`). `FetchesAreExact` (market data): the rows of a fetch are the top of
the candles asked for (`Top`), the next request asks for exactly what lies below (`RestIsAsked`),
and what opened after the first page opened after all of it, so no later page can show it.

Only model-checked, and why:
- everything temporal (`StreamEnds`, `ReservationSettles`, `PollersEnd`): fairness is beyond
  the prover;
- the properties of section 4 that stand in no run, except those stated by a theorem here
  (`AcceptedMeansClean`, `StopOnlyTightens`, `LostOnlyIfExposed`, `NothingLost`); of these `DrawdownExact` is a fold over
  all trades and would need an induction like `Recursion`'s.

Every safety property of a passing run is the property of a theorem. One of them has a
hypothesis that the runs have as a bound: one promoting thread for the memory of the loop.

## 8. Refuted claims

TLC refutes these. The first two are the runs `walk_weights` and `backtest_lookahead`; the
others are stated in the modules, and are reproduced with the configuration named, the
property in place of those it lists (`PROPERTY` where marked P). "+" gives constants that
replace the configuration's; "alone" means the module by itself, with the constants of
the run's configuration and its own specification.

| Property | Configuration | What the repository says, and what happens |
|---|---|---|
| `CandidateInForce` | WalkForwardWeights.cfg | "applied through TuningScope so confluence_score reads it live" (`signal_engine.py`, `grid_search_weights`): each window pushes a scope made of the defaults on top |
| `MacroPointInTime` | HarnessLookahead.cfg | "Point-in-time macro: only pass daily closes up to the entry bar" (`.scratch/backtest/run_backtest.py:371`): the slice has one day too many |
| `OnlyMalformedSkipped` | WalkForwardWeights.cfg | "so a malformed Signal" is skipped (`backtest_harmonic_lib.py:314`): the direction is compared with "bullish" while a signal says "long" or "short", so every long one is skipped |
| `GatesKept` | MCAnalysis.cfg | "TP1 net R >= 1.0 and TP2 net R >= 1.5, otherwise ... observation-only" (`signals.py`, `grade`): the grade is given before a high-quant market widens the stop |
| `InsightIsOfThisBar` | MCStrategy.cfg | "per-bar caching" (`rsi_trend_plan_service.py:199`): the key's `_last_bar_ts` is never set |
| `SavedBalanceIsShown` P | MCStores.cfg + `Users = {u1, u2}`, `Tabs = {p1}` | "Load persisted config and balance" (`use-position.ts:40`): the effect allocates afresh and saves over it |
| `ConfigIsOwn` P | as above | "multi-account switches don't leak state" (`lib/position/db.ts:6`): until the load arrives the old account's configuration is saved under the new one's key |
| `ArchiveIsCovered` P | as above | with no emergency money a trade larger than all buckets touches none and is archived; the design calls it uncovered and forbidden (`docs/position-management-design.md`, 5.3) |
| `QuotaNeverExceeded` | MCMeteredRoutes.cfg + `MaxFaults = 0` | "prevent ... exceeding the daily quota" (`20260715_001_initial_schema.sql:158`): reservations in flight do not count |
| `RetryIsReplayed` | MCMeteredRoutes.cfg + `MaxFaults = 0`, `DailyQuota = 2` | "the stored row is returned" (`supabase_client.py:438`): no row ever gets a technical result; the retry is answered 429 |
| `CompletionIsRecorded` | MCMeteredRoutes.cfg + `MaxFaults = 0` | "Persist completion status." (`routes.py:197`): `analysis_type = None` violates NOT NULL and the update is swallowed |
| `ErrorIsFree` | MCMeteredRoutes.cfg | "release on failure" (`vibe_routes.py:257`): an answer that breaks after the unit was consumed, and whose release fails, is a charged error |
| `DenialIsTrue` P | MCMeteredRoutes.cfg + `MaxFaults = 0` | "Mirrors send_message quota handling" (`vibe_routes.py:256`): the foreign key refuses the reservation, answered as quota exceeded |
| `CancelReleases` | MCVibe.cfg + `MaxFaults = 0` | cancelling releases the quota (`docs/plans/2026-07-21-vibe-trading-detailed-design.md:234`): a job removed from the queue or killed never releases |
| `CancelInterrupts` | as above | the stop button must really interrupt (`...module-plan.md:689`): `fetch_job` raises first and the rest is skipped |
| `StartedOnce` | MCVibe.cfg | `run_started` "exactly once" (`vibe_schemas.py:115`): a lost enqueue reply starts a second executor |
| `CancelledStreamEnds` P | MCVibeSSE.cfg | "terminal but no done/error event yet" (`vibe_routes.py:382`): `completed_with_limit` is not in the list |
| `NoDeltaSkipped` | MCVibeChatLive.cfg + `MaxEvents = 6` | "events strictly after this event_id" (`vibe_event_store.py:181`): only the last page of them |
| `OneRunAtATime` | MCVibeChat.cfg | the guard of `sendMessage` (`use-vibe.ts:272`) is tested before an await and set after it |
| `PollFailureShows` | MCVibeChat.cfg | "Always returns the parsed JSON envelope" (`api.ts`): a poll that rejects ends in no handler, and the spinner stays |
| `StopIsFinal` P | MCVibeChatLive.cfg + `MaxEvents = 2` | "local state is still cleaned up" (`use-vibe.ts:367`): a poll in flight puts it back |
| `OverruledStaysOff` | MCLoopDriver.cfg | "the single point that decides" (`arbiter.py:3`): admission to the front asks only the worker's decision |
| `StateIsRendered` | MCLoopDriver.cfg | "a partial STATE.md never replaces a good one" (`state.py:250`): a JSON dump does, first |
| `ReplayAlwaysRebuilds` | MCLoopDriver.cfg | "can be rebuilt" (`state.py:20`): a hash known from another quarter is refused, a line may be lost, an archive may be unreadable |
| `RollbackWorks` | MCLoopDriver.cfg | "enables one-step rollback" (`state.py`): a driver that dies while it writes a known hash again leaves a torn snapshot under a member of the front |
| `NothingLost` | MCStores.cfg | "a concurrent append can't race the rename" (`state.py:123`): two writers lose a record |
| `ReplaySucceeds` | MCStores.cfg | "retain full history for replay" (`state.py:101`): a truncated archive makes replay raise |
| `LlmFailureIsHarmless` | MCStrategy.cfg | "null when skipped/failed" (`rsi_trend_plan.py:135`): an answer that is JSON but no object fails the request |
| `MovesNeverRetreat` P | MCStrategy.cfg | "Never moves the stop backwards" (`position_manager.py:113`): the emitted moves do, before the ratchet's |
| `ListCapped` | MCStores.cfg | "422 on 51st" (`docs/plans/watchlist-design-v3.md:65`): the table is never counted |
| `AddedIsListed` | MCStores.cfg | "callers always see the row they just wrote" (`watchlist_store.py:341`): not after a fallback |
| `RemovedStaysAway` | as above | a removal that fell back leaves the row in the table |
| `DisciplinePointInTime` | HarnessLookahead.cfg | the verdict a trade is reported with is computed on the frame of the whole history |
| `NeverBlocked` | MCTuning.cfg | "never blocks a generation because of a single malformed LLM output" (`maker_agent.py:193`): an answer that is no object, or a number beyond a float, leaves `propose_batch` as an exception |
| `MagnitudesBounded` | MCTuning.cfg | "clamped to [-50, +50] here so a malformed LLM output fails the contract" (`schemas.py:57`): a NaN passes |
| `BatchFull` | MCTuning.cfg | "Return n Proposals" (`maker_agent.py`): a mutation of a dict, or one that is dropped, is not replaced |
| `BatchStaysInCluster` | MCTuning.cfg | "the Maker may only touch the cluster it was asked about": only the label is compared |
| `BatchDistinct` | MCTuning.cfg | top-up and traditional part are drawn from one seed and the same slots |
| `AgreementIsTheGap` | MCTuning.cfg | "agreement is True when ... < gap_threshold" (`arbiter.py`): False whenever a human is asked |
| `OnlyExtremeExceedsOne`, `AlignedCoversInverse`, `WeightsCountFor` | MCTuning.cfg | comments of `config/tuning.py`: the search may take an aligned multiplier to 1.5; bands are compared with the smaller inverse; a weight may become negative |
| `WakesActive` | MCTuning.cfg | "the start of the next active window" (`scheduler.py`): it wakes just after 23:00 and on Saturday night |
| `MissingIsCollapse` | MCTuning.cfg | a held-out quarter whose run failed reads as "no collapse" |
| `IdsAreActive` | MCVibe.cfg + `Web` of two, `Horse` of one | "JSON list of active session ids" (`vibe_session_store.py`): two web workers that read the list before either writes it undo one another |
| `CountIsLength` | MCVibe.cfg | `message_count`: a title, an archive or another touch writes back the count it read |
| `AckedIsListed` | MCVibe.cfg | a message that met a failed statement is only in the memory of that process |
| `AlwaysNonEmpty` | MCVibe.cfg | "Callers always see a non-empty list" (`futures_symbols_cache.py`): an answer without symbols overwrites the snapshot, a failed bootstrap returns nothing |
| `OneFetcher` | MCVibe.cfg | "the first worker that grabs the lock does the fetch": no file is locked |
| `CacheSettles` P | SymbolsCache alone, with `SymbolsFairness` | a half-written temporary file renamed by another worker stays |
| `PriceIsCurrent` | MCAnalysis.cfg | "this price is current as of HH:MM:SS UTC" (`analysis.py:226`): the stamp is put on cached candles |
| `AnswerIsForRequest` | MCAnalysis.cfg + `Symbol` of two | a key answers for whatever symbol it was first sent with |
| `ReplayNeverRaises` | MCAnalysis.cfg | "Dirty cache ... drop it and fall through": some malformed payloads raise |
| `FrameIsTheWindow` P | MCStores.cfg | "Load from cache if available, otherwise download" of the days asked for: the path names no days |
| `StatusIsTrue` | MCStores.cfg | `--status`: a killed writer, or a reader that removes the file under one, leaves data and metadata apart |
| `PromotedIsWorthy` | MCStores.cfg | "promoted when BOTH" (`loop_context.py`): the value is read again after the check |
| `SupersededBySameKey` | MCStores.cfg | "for the same episodic_key": a section that is superseded already runs on into the next one |

Seen while reading, without a property: the trap score never exceeds 50, so
`trap_stop_multiplier` is always 1; a literal `stop_buffer_atr` is still multiplied by
regime and grade; an RSI that does not move counts as falling, in favour of shorts;
`services/analysis.py` calls `build_signal` with other arguments than it takes and
swallows the failure; `registry.execute` passes a wrong argument to
`ToolOutput.error`; `completed_with_limit` is no stop
status for the chat poller; the plateau count of the scheduler differs from its
docstring and starts anew after a rotation; isolation at level moderate strips only the
base fields; `MAX_ECE` is compared with nothing, so a calibration with a high error is
not rejected; the salt's version never grows; `main` of the search never passes
`weekly_spend_usd`; `tuning.clusters()` and `DEFAULT_CLUSTER_MAP` disagree;
`raw_assessment` is never set, so the signal block of an answer is never built; the
key of cached candles has no fingerprint although "cache naturally expires when new
candles close"; their metadata has an empty symbol, so a pattern of `invalidate`
matches nothing; a result with divergences alone is answered NO_RESULT; `_memory` of the
symbols cache is never served, and `get` may wait for the network in a bootstrap;
"fail open" (`loop_context.py:73`) returns False; `first_seen` is reset by each put;
hygiene rewrites the "append-only" episodic file; the worktree script asks git for a
JSON format it does not have; a stale signal gives "watch" although
the comment on `STALE_BARS` says no trade; "Failures abort early and raise"
(`watchlist_store.py:474`) although a failure falls back; two drivers that save
one after the other lose the first one's additions (`FrontOnlyImproves` is stated
for saves that nobody overtook).

## 9. Not modelled

`PROJECT.json` lists every part with its status. Left out for good: rendering,
authentication by library, reports and metrics, adapters that map one data format
to another, and number crunching in floating point (indicators, pattern
detection), which enter the models as inputs. Not modelled so far: the hooks of the other
pages, the bench, the promotion of tuned constants (one file write), the git and shell
scripts of the handoff loop.
Within modelled parts: the memory backends for development other than the memory cache,
prompts and traces of a Vibe run, quote routes of the watchlist, the futures quote and the
historical loader, holdings and checklist of the position page, position sizing and
confidence of the plan, `invalidate` of the caches (no route calls it), the ratios of the
backtest reports.
