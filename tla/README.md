# Crypto Trader Ver 9: specifications, model checks and proofs

TLA+ modules for the stateful core of this repository, the TLC configurations
that check them on small instances, and theorems TLAPS proves for every value of
the constants. `PROJECT.json` lists, per definition, the source lines it models;
per property, the hazard it is aimed at and a fault of the code (a "mutant") that
breaks it. Paths are relative to the repository; `ver9/x.py:n` means line n.

Running them, in this directory: `tlc -config StoreSerial.cfg MCRuntimeStore`,
`tlapm RuntimeStoreProofs.tla`, and so on for the tables below.

## 1. The system

The program searches for trading strategies, keeps them in a registry, moves them
through a lifecycle and paper-trades a basket of them. It is three things in one
repository: the **research-to-paper loop** (commands of `main.py`, the daemon, two
JSON files), an **asynchronous order engine** (`ver9/execution/`) and a set of
**live-runtime parts** (`ver9/runtime/`) that nothing starts yet but their own
orchestrator. `ver9/research/` is a library of numeric code.

### Components

| Component | State it keeps | Operations | What makes it correct |
|---|---|---|---|
| Runtime state file (`ver9/state.py`) | one JSON file: health entries, quarantine list, cycles, executions, risk events | `append_*`, `quarantine_/recover_/retire_strategy`, `apply_rolling_decay`; each loads, changes and rewrites the whole file | no record lost, releases earned, list and entries agree, file readable |
| Registry (`ver9/registry.py`) | one JSON file of strategy rows, replaced by rename, `REGISTRY_LOCK` for threads | `upsert_candidate`, `list_candidates`, migration, recovery of a corrupt file | follows the state file's lifecycle; no upsert lost |
| Risk monitor (`ver9/risk.py`) | none of its own | `evaluate_drift` writes the state file, then the registry, then the state file again; `evaluate_portfolio` | a drift quarantine takes the capital away once the registry is told |
| Daemon (`ver9/daemon.py`) | `running`, the cycle in progress | scan the ladder, allocate, execute, write a verdict per allocation, persist, sleep; `stop` | verdicts stand; nothing quarantined is traded; stop ends it; ladder drains |
| Commands (`main.py`) | none | `evolve`, `execute`, `risk`, `daemon` ...: each its own process on the same files | safe beside the daemon |
| Lifecycle (`ver9/lifecycle.py`) | none | `auto_promote`, `transition` with `VALID_TRANSITIONS` | statuses follow the table |
| Distributed evolution (`ver9/distributed.py`) | batch results | worker threads upsert into one registry | no upsert lost, counts add up |
| Optimizer, allocation, protections, quota tuner | none | pure selection and weights | limits respected, weights add up |
| Order engine (`ver9/execution/*.py`) | `ExecutionOrder`, journal | `submit_`, `cancel_`, `replace_order`, `apply_fill`; retries | lifecycle respected, journal replays to the order, order agrees with the exchange |
| Simulator, paper session (`ver9/execution/simulator`) | cash, positions, equity | orders to fills, fills to the account | money and positions conserved |
| Recovery (`ver9/runtime/recovery`) | event log, checkpoint | append, replay, checkpoint, recover | recovery gives the state before the crash |
| Reconciliation (`ver9/runtime/reconciliation`) | `_running` | periodic diff, correction, halt | a divergence is corrected or halts |
| Orchestrator (`ver9/runtime/orchestration`) | task list, flags | start, stop, persist events | ordered start-up, clean stop |
| Session manager, websocket client (`ver9/runtime/exchanges`) | connection health, sequence, tasks | start, stop, staleness, reconnect | a stopped session stays disconnected; a stale one reconnects |
| Events, market data, supervision, state store (`ver9/runtime`) | in-memory lists and last values | publish, aggregate, escalate, save | order kept, last value wins |
| Research (`ver9/research`) | none, files of results | back tests, features, optimization, walk-forward | numeric |

### How they interact

```
main.py evolve / evolve-distributed ──upsert──▶ registry ◀──list_candidates── daemon
        main.py risk ──evaluate_drift──▶ state file, registry            │ verdicts
        main.py execute ──append_*──▶ state file ◀──quarantine/recover/append── daemon
                                         └──_sync_registry_status──▶ registry

callers ──submit/cancel/replace──▶ ExecutionEngine ──retry──▶ exchange adapter (external)
fill feed (external) ──apply_fill──▶ ExecutionEngine ──append──▶ execution journal

websocket ─▶ Binance session ─▶ router ─▶ orchestrator ─▶ event log ─▶ recovery
                                   reconciliation scheduler (own loop)
```

The first group shares two files and nothing else. The second is coroutines of one
event loop. The third is only wired together by the orchestrator.

### What is hard

* **No transaction spans the two files.** Each call reads, changes and rewrites a
  whole file, some write both files and in different orders, and any process can be
  killed in between. `append_cycle` even holds a copy of the state file across a
  nested load and save of the same file.
* **Processes on one file.** The registry has a lock for threads and none for
  processes; the state file has neither.
* **A cycle is long.** The daemon reads rows, thinks, and writes verdicts, while
  evolve and risk rewrite the same strategies.
* **Awaits.** A fill, another call or a lost answer can come between a request and
  the code after it; retries repeat requests that may have been handled.
* **Liveness.** The ladder stops at the first rung with rows, the loop at the next
  look at `running`, a retry loop at its last attempt.

## 2. Modules

| Module | Models | Used by |
|---|---|---|
| `StrategyRules` | what one call does to a health entry and to a registry row: pure operators of `state.py`, `risk.py`, `registry.py`, `lifecycle.py` | both below |
| `RuntimeStore` | the two files and the calls on them, opened up to single file operations, any number of processes and threads | `MCRuntimeStore` |
| `TradingDaemon` | the daemon's cycle and the commands beside it; every load and every save of a file is a step, a kill may come between any two | `MCTradingDaemon` |
| `OrderLifecycle` | abstract: what an observer of one order may rely on | `OrderExecution` |
| `OrderExecution` | one order, the coroutines that call `ExecutionEngine` on it, exchange and feed | `MCOrderExecution` |
| `EventRecovery` | event log, checkpoint and `recover()` under kills and restarts | `MCRecovery` |
| `RegistryFile` | the migration every load makes of the registry, the recovery of a corrupt file, upserts under legacy names | `MCRecovery` |
| `ExchangeSession` | the session manager and its monitor as coroutines | `MCRecovery`, `MCLive` |
| `ExchangeStream` | the websocket client under a Binance session: dial, authenticate, reader, heartbeat, reconnect | `LiveRuntime` |
| `LiveRuntime` | the orchestrator around the stream and the reconciliation scheduler | `MCLive` |
| `PaperAccount` | the execution simulator and the paper session | `MCDesk` |
| `BasketChoice` | abstract: what a basket and its shares may be | `BasketOptimizer` |
| `BasketOptimizer` | both passes of the optimizer and the redistribution of the weights | `MCDesk` |
| `CandidateGeneration` | quota tuner and generation of candidates: pure operators | `CandidateEvolution` |
| `CandidateEvolution` | one cycle of `evolve`, `evolve-distributed` or `generate`, with validation merged and `auto_promote` | `MCDesk` |
| `Backtest` | the research track: grid search over the portfolio back test, walk-forward, robustness | `MCDesk` |
| `StrategyRulesProofs`, `RuntimeStoreProofs`, `TradingDaemonProofs`, `OrderExecutionProofs` | lemmas and theorems about the module of that name | |
| `SessionProofs` | theorems about `ExchangeSession` | `LiveProofs`, `RecoveryProofs` |
| `LiveProofs` | theorems about `LiveRuntime` with its stream, and about `MCLive` | |
| `RecoveryProofs` | theorems about `EventRecovery`, `RegistryFile` and `MCRecovery` | |
| `DeskProofs` | theorems about `BasketOptimizer`, `PaperAccount`, `CandidateEvolution`, `Backtest` and `MCDesk` | |

### RuntimeStore

A process is `idle` or at a label of the call it makes; one label per file
operation. `BeginCall` is `load_state` and every in-memory change, `LoadRegistry`
and `SaveRegistry` are the halves of `upsert_candidate`, `Truncate` and
`WriteState` those of `Path.write_text`, which truncates first. `append_cycle` goes
through `decay` (the nested `apply_rolling_decay` with its own copy `inner`, its
registry updates, its own save) and then saves the `outer` copy it loaded first.
`_sync_drift_state` saves first and tells the registry second, then calls
`append_risk_event`. A swallowed exception of `_sync_registry_status` is
`SyncFails`; `UpsertFails` and `LoadFails` end the call; `Crash` ends it anywhere.
Two overlapping writes either give the text of one or garble the file.

A thread can be killed on its own in the model although really its whole process
would be: the model has more behaviours than the code.

State abstracted: records are counted, not kept; a health entry is status,
recovery streak, decay score, retired flag; a row is status, capital multiplier (in
tenths), validation verdict and whether it is tradeable. Scores are hundredths.

History variables (`overlapped`, `torn`, `raced`, `returned`, `outerSeen`, `innerSeen`,
`overwritten`, `approvals`, `told`, `diverted`) record what the properties talk about; no
action's guard reads them. `overwritten` counts what saves of copies cost: the appends that
returned between the load of a copy and its save.

### TradingDaemon

The daemon and each command have a task, `work[a]`: the call it executes, where in the
call it is, the copy of the state file it has loaded and changed, and the registry as
`upsert_candidate` loaded it. One action per stage of `build_cycle`: `Scan` (one rung of
`_eligible_candidates`, one read of the registry), `Execute` (allocate and paper
execution, on the rows read), and per allocation of `_build_transition_summary`
`BeginVerdict` (load and change), `LoadRegistry`, `SaveRegistry` (the halves of the
upsert) or `SyncFails` (the exception `_sync_registry_status` swallows), `SaveVerdict`.
`_persist_cycle` is three times `BeginRecord` and `SaveRecord`; in the first,
`append_cycle`, lies `ApplyRollingDecay`, which tells the registry what it retires and
saves its own copy (`SaveDecay`) before the outer one is saved over it. Then come `Wake`
and `LastCycle`. The commands are `Evolve` (one upsert), `Drift` (`SaveDrift` first, the
registry second, `AppendRiskEvent` third, as in `risk.py:68-70`) and `CommandExecutes`.
`Crash` kills the daemon and `CommandEnds` a command wherever it is; an exception of a
command's upsert, which nothing catches, is the latter. A kill within a save is only in
`RuntimeStore`: no call gets past the file it leaves.

Which basket the optimizer picks and which orders the broker accepts is left open within
what the code can return: at least two positions unless there is only one candidate, only
rows whose validation passed, no order for a multiplier of zero.

The two files are told of one verdict in two steps, and each save writes a whole file, so
the properties name what may come in between: `touched` (a command has written to the
strategy since this cycle read its rows), `unsynced` (a swallowed exception kept the last
verdict from the registry), `apart` (evolved, or reached by one half of a call only, since
a call on it was last completed undisturbed), `diverted` (a drift verdict since the daemon
quarantined it) and, in each of the last two, that a copy loaded before was saved over
the strategy. `behind` of a task is what others have written since its copy was loaded,
which is what its save puts back. No guard reads any of them.

### OrderExecution

What lies between two awaits is one step. `Begin*` is the code before the request;
`Handle*` is the exchange; `Resume` the code after the answer; `Fault` and `Refused`
end in `Retries` (`ExecutionRetryPolicy.execute`). `Deliver` is `apply_fill`.
`journal` is what replaying `execution_journal.jsonl` gives: the last ORDER record
with the FILL records after it. The exchange and the feed are external: they may
repeat or lose, within bounds. `seen` names what has gone wrong so far, so that each
property can say which anomalies excuse a disagreement.

### EventRecovery, RegistryFile

`EventRecovery`: an event goes from the exchange through `_normalize_event` (its
timestamp and its sequence: the venue's `u` or the process's own count) to one
`append`. A kill may come inside the append of a line or the rewrite of the
checkpoint: the line is torn or has no end, and the next append is glued to it.
`HandleIncomplete` is an event of a known type without the key replay asks for: it is
logged like any other, and `_apply_event` raises on it ever after.
`Recovered` is `recover()`: sort, rebuild, `dict.update` over the checkpoint. `truth`
is the state the logged events lead to in the order they came.

`RegistryFile`: `load_registry` repairs and may save; processes do so beside each
other. An entry is its kind (complete, legacy, incomplete, stale, ...) and the marks
of the upserts merged into it; what the record of an upsert says of its regime and of
retirement (`Sayings`) decides the kind of the merged entry.

### LiveRuntime, ExchangeStream, ExchangeSession

One event loop: what lies between two awaits is one step, so the handler of a message,
which awaits nothing real, is one step with the append it ends in. Cancellation is
`cancelled[r]`: set by `stop()`, noticed at the next await. `gather` does not end the
sibling of a coroutine that raised, so a heartbeat may outlive its reader (`orphans`).
`_running` and `_socket` are shared by every task of `start()`; each task's own
connection is `socket[r]`. The handlers of the session manager and of the
reconciliation belong to the caller and may raise.

### PaperAccount, BasketOptimizer, CandidateEvolution, Backtest

Four components without a common state. Money and prices are integers, rounded down
where the code rounds to eight or four decimals; `Tolerance` is what rounding may add to
a limit. A batch of fills is a fold of `ProcessFill` over them, equity the cash and the
positions' worth at their average price (`session_state.py:150`). In the optimizer a
candidate's own scores are one number, `quality`; `correlation_hint` is 0 and
`enforce_unique_families` off, as every caller has them.
`Consider` is one call of `consider`, `EndOfPass` the step to the relaxed pass,
`Normalize` and `Redistribute` the rounds of `_build_weights`. `Choice` maps the state
onto `BasketChoice`, which says which rows make a basket and how much of it one row,
symbol or family may be, without saying how they are found.

A cycle of evolution generates by plan, then takes batches (one in the serial
command, worker threads in the distributed one): the outcome of the numeric
validation of a candidate is any of `Figures`, which has one for each status and for
none. `_merge_validation` and `auto_promote` with the novelty of the basket, a set of positions,
are operators. A history of candidates is given to `generate` only.

A back test takes signals one at a time, any number up to `MaxSignals`, from any
strategy: the price after the holding period decides. `RecordCandidate` is the end of
one combination with the tracker's record, `RankCandidates` the end of the search. The directory of
records may hold those of earlier searches (`EarlierExperiments`); what reads them,
`load_all` and the ranker, changes nothing and is left out. A path of the Monte Carlo call
keeps its whole curve, although the code judges its end.
Sharpe ratios and the spread of scores are inputs, since they are real-valued
statistics that only thresholds look at.

## 3. What is checked

Runs that must pass:

| Run | Instance | Shows |
|---|---|---|
| `store_serial` | one process, all calls, 2 strategies, 4 calls, 2 kills, 1 failed synchronisation | `ProbationIsEarned`, `ListedWhileUnderRecovery`, `RegistryFollowsHealth` (within a call and at rest), `RetirementReachesRegistry`: the guarantees a single writer has, kills included |
| `store_side_by_side` | the daemon's cycles and quarantines, the risk command, two worker threads; 3 calls, 1 kill, within a save too | `AppendsLostOnlyByStaleOrTornSaves`: records are lost to saves of stale copies, and by no more than these cost, or to a torn write, which alone leaves an unreadable file; `OnlyRacesLoseUpserts`: upserts are lost only by a named race |
| `daemon_kills` | 1 strategy, evolve, risk and execute, 2 calls, 1 swallowed synchronisation, 1 kill of either | `NoCapitalAfterDriftQuarantine`, `QuarantinedIsNotACandidate`, `FillsReleaseOnlyAfterThreshold`: what is left when a call is cut short between two file operations or overtaken by another |
| `daemon_live` | a supervised daemon that may be stopped, 2 strategies on every rung, evolve and execute, 1 call, 1 swallowed synchronisation | `CycleVerdictsStand`: what a command does to one strategy while the verdict of another is written; `StopIsHonoured`, `LadderDrains` |
| `orders` | 2 tasks, 3 calls, quantities 1 and 2, 2 lost requests or answers, 1 lost or repeated fill | the order refines `OrderLifecycle`; journal, exchange and order agree up to named anomalies; calls and cancellations end |
| `recovery` | 1 order, 1 fill, 1 figure, 4 events, 2 starts; 2 names of one strategy, files of every age, 2 processes, 3 calls; 2 callers of the session, 4 calls | `RecoveryIsExplained`: nothing acknowledged is forgotten, and every error has one of two causes; `BlockedRecoveryHasACause`; `LostUpsertsHaveACause`, `LoadsSettle`; `SessionTellsTheTruth` |
| `live` | 2 starts, 1 orphan heartbeat, 1 fact to disagree on; 2 callers of the session, 2 calls | `NothingAfterStop`, and with fairness `StoppedComesToRest`, `StreamComesBack`, `DivergenceHalts`, `SilentSessionsReconnect` |
| `desk` | 3 orders in batches of 2 in 2 markets; every 4 of 8 kinds of candidates, repeated or not, under 4 policies; 3 families by 2 symbols; 2 combinations of 2 signals, 5 candles, 3 returns, a directory with or without an earlier record | `NoEdgeOnPaper`, `ChoiceMade` (the optimizer implements `BasketChoice`), `PromotionsAreNovel`, `CyclesAddUp`, `DrawdownNotUnderstated`, `WindowsAreApart` |

A run of several components takes them one at a time (`subject`): they share no state,
so interleaving them would only multiply the states.

Runs that must find a violation, each a disagreement of the code with something the
repository says:

| Run | Says | The code |
|---|---|---|
| `store_torn` | "Atomic state writes" (`project_state_context_handoff.md:143`) | `save_state` truncates in place (`ver9/state.py:78`); a kill there leaves an empty file, every record is gone and every later load raises |
| `daemon_fallback` | "Selection fallback ladder" (`project_state_context_handoff.md:129`) | the ladder stops at the first rung with rows even if none of them may be allocated (`ver9/daemon.py:103`), and starves |
| `daemon_drift_streak` | `test_recovery_requires_multiple_cycles` (`tests/test_state_machine.py:31`) | a drift quarantine keeps the old recovery streak (`ver9/risk.py:54`), so one fill may lift it |
| `orders_journal` | "recovery source-of-truth" (`ver9/execution/execution_journal.py:18`) | an order is journaled only after its answer (`ver9/execution/execution_engine.py:53`): open at the exchange, unknown to the journal |

Other disagreements met on the way and not given a run:

* "Quarantine unstable strategies" (`project_state_context_handoff.md:381`): a drift
  verdict saves the state file and then tells the registry (`ver9/risk.py:68-69`), from
  which alone the daemon selects. Between the two, and for good if the command dies there,
  the strategy is quarantined and traded on with its full multiplier. A swallowed
  exception of the registry (`ver9/state.py:125-128`) leaves the same until a later cycle
  decides again. `QuarantinedIsNotACandidate` names both as causes (`apart`).
* "Maintain execution telemetry" (`project_state_context_handoff.md:365`): the `append_*`
  calls save the copy they have loaded (`ver9/state.py:132-143`), so the daemon's cycle,
  loaded before, takes an execution of another process away. `AppendsLostOnlyByStaleOrTornSaves`
  counts what each such save costs (`overwritten`).
* "Walk-forward validation" (`README.md:311`): the simple back test sells for 1.002 times
  the close it bought at (`ver9/research/backtesting/engine.py:94`), so buying into a
  falling window wins every trade.
* "estimate path dependency risk", "estimate ruin probability"
  (`ver9/research/validation/robustness/monte_carlo.py:33-34`): ruin is judged at the end
  of a path (`:107`), which no shuffle changes. The estimate is 0 or 1, whatever a path
  loses on its way.
* "portfolio-level Sharpe/drawdown metrics" (`README.md:319`): the lowest point is related
  to the peak of the whole curve, whichever came first
  (`ver9/research/backtesting/portfolio_engine.py:273`). A curve that only rises has a
  drawdown, which the guardrails may refuse.
* `VALID_TRANSITIONS` lets `quarantined` lead only to `validated`
  (`ver9/lifecycle.py:14`), but `upsert_candidate` and `recover_strategy` write any
  status; only `transition()` asks the table.
* "Recover healthy strategies" (`project_state_context_handoff.md:382`): the ladder
  omits quarantined strategies (`ver9/daemon.py:88`), so the daemon, whose fills
  recover them, never trades them unless evolve lists them again.
* A drift verdict `throttle` lifts a quarantine (`ver9/risk.py:58`), and no verdict
  puts the multiplier back to 1.0.
* Decay never accumulates: what `apply_rolling_decay` saves is overwritten by
  `append_cycle` (`ver9/state.py:139`), except when the process dies between the two.
* A late fill takes a CANCELLED order back to PARTIALLY_FILLED
  (`ver9/execution/fill_reconciliation.py:41`).
* The portfolio breaker cannot trip in the daemon: the drawdowns it derives are
  -1.5, -4.5 or -10.5 percent against a limit of -15, the streaks at most 3 against 4.
* `stop()` before `run_forever` is lost; `retire_strategy` and `is_quarantined` have
  no caller.
* What `LiveRuntimeOrchestrator.start` recovers is counted and dropped
  (`ver9/runtime/orchestration/live_runtime_orchestrator.py:57`): nothing reads it.
* "exposure caps", "capital contention" (`README.md:317`): the portfolio back test
  removes each position in the turn that opens it
  (`ver9/research/backtesting/portfolio_engine.py:263`), so neither `max_positions` nor
  `max_symbol_exposure_pct` is ever reached; and strategies are replayed one after the
  other, not by time.
* A short entry is filled above the close, in its favour (`portfolio_engine.py:212`).
* The floor of 18 percent (`ver9/basket_optimizer.py:259`) lifts a symbol or family of
  four rows above its 70 or 65 percent, and with six rows the weights may exceed the capital
  (section 4); the relaxed pass marks rows it has already
  selected with a penalty for resembling themselves (`:361`), and their weights drop.
* Workers of a distributed cycle have no validation score, so none of their candidates
  becomes `validated`, and no basket to be novel in (`ver9/distributed.py:97`).
* A parameter with no values makes `optimize` raise at `ranked[0]`
  (`ver9/research/optimization/search.py:181`), and the `strategy_id` of every other result is
  "dict" (`:177`).
* `RateLimiter` never starts a new window
  (`ver9/runtime/exchanges/adapters/rate_limit_state.py:28`): after its 1200th request it
  allows none. `ProtectionEngine` and it have no caller.
* `ver9/models/` and `ver9/execution/` have the names of `ver9/models.py` and
  `ver9/execution.py`. A package without `__init__.py` (`execution/`) loses to the
  module of the same name, one with it (`models/`) wins.

### Bounds, and why they are enough

Thresholds are the code's where a run can afford them; `store_serial` scales decay
(40 and 25 instead of 12 and 5) so that two cycles retire a strategy. Two strategies
are enough for one strategy's write to lose another's; four calls for quarantine,
two recoveries and a cycle; two kills for one inside the repair of another. Two
tasks give every overlap of two calls on an order, three calls a submit, a replace
and a cancel; two attempts tell "retry" from "give up"; quantity 2 has a partial
fill. `MaxCalls`, `MaxCrashes`, `MaxSyncFailures`, `MaxCommandCalls`,
`MaxKills`, `MaxFaults` and
`MaxFeedFaults` are the only bounds that are not in the code, and all of them are
guards of the environment's actions; the theorems hold for every value of them.
Two starts show what a restarted counter does to the order of events
and what a second `start()` shares with the first; four events an opening, a closing
and a checkpoint between. Four candidates are the fewest for which the floor of the
optimizer's cap matters. Two signals make a fall before and after a rise. `MaxEvents`,
`MaxStarts`, `MaxOrphans`, `MaxSessionCalls`, `MaxOrders`, `MaxMoves`, `MaxBatch`,
`MaxSignals` and `Simulations` are bounds of the same kind.
`EarlierExperiments` has an empty directory and one with a record. The daemon's runs share
the work. `daemon_live` has two strategies, to show what a call on one does beside a verdict
on the other, and one call of a command. `daemon_kills` has one strategy, two calls and a kill
of either process between any two file operations: enough for a call to be cut short and
another to overtake the one that follows. Drift verdicts on two strategies at once are left
to the proofs, where the same properties hold of any number of strategies, calls and kills. `Generated`
is what evolve makes of a row, here a deployable one: the other statuses are further from
being a candidate.
`approvals` of the daemon is capped at the threshold it is compared with. Deadlock
is not checked in the runs that make a finite number of calls: these end.

### Fairness

* `DaemonStep`, weak: `run_forever` is a sequential loop with bounded sleeps and no
  blocking call. Nothing is assumed of stop or kills, nor
  of the commands, which may rest anywhere within a call.
* `Start`, weak, in `SupervisedSpec` only: a service manager starts the daemon
  again. `LadderDrains` needs it, since a daemon that stays down decides nothing. That a
  synchronisation fails is bounded: a registry that can never be written decides nothing
  either.
* `Progress(t)`, weak: an adapter call returns or raises, and the event loop resumes
  a coroutine whose await is over. Nothing is assumed of the feed, of new calls or
  of faults.
* `StreamFairness`: weak for the coroutines of the client, which the event loop resumes;
  strong for a connection and an authentication that are tried for ever, since the
  venue answers some of the tries; a peer whose client has gone closes its end. A
  client with a reader need not stay so.
* `SchedulerFairness`, weak: the reconciliation's sleep ends. Nothing is assumed of
  the local state, of the venue, or of a correction handler that raises.
* `SessionFairness`: weak for the monitor, strong for its disconnect and connect; the
  callers owe nothing.

`LadderDrains` excludes blocked ladders by name (`Blocked`); `daemon_fallback` shows
that this exclusion is needed.

## 4. What is proved

For any strategies, processes, threads, tasks, markets, events, entries, thresholds and
bounds, from the named assumptions on constants only (`StoreAssumption`, `FileAssumption`,
`DaemonAssumption`, `InitialAssumption`, `OrderAssumption`, `SessionAssumption`,
`StreamAssumption`, `LiveAssumption`, `RecoveryAssumption`, `RegistryAssumption`,
`AccountAssumption`, `GenerationAssumption`, `EvolutionAssumption`, `OptimizerAssumption`,
`BacktestAssumption` and those of `StrategyRules`), each of which TLC evaluates in the runs.
Five theorems have a further hypothesis: `LockKeepsUpserts` that every process is a thread
under the lock, as in `distributed.py`; the other four are named in their row and justified
below:

| Theorem | States | Argument |
|---|---|---|
| `RuntimeStoreProofs!TypeCorrect` | `TypeOK` | not inductive alone: what a process holds must fit the label it is at (`Fits`); both are kept by each action |
| `...!StaleOrTornSavesAloneLoseAppends` | `AppendsLostOnlyByStaleOrTornSaves` | a readable file, and the copy of each call under way, has all that had returned when it was loaded, less what saves of older copies had cost by then; the file is empty or garbled only while it is written or after a torn write (`AppendsKept`) |
| `...!RacesAloneLoseUpserts`, `LockKeepsUpserts` | `OnlyRacesLoseUpserts` | unless raced, at most one process is between load and replace (`NoRace`), and its copy is the registry |
| `...!ProbationTakesItsApprovals`, `ListFollowsRecovery` | `ProbationIsEarned`, `ListedWhileUnderRecovery` | the streaks and lists hold of the file and of each copy a process in a call still has to save, with the approvals that save will count (`StreaksEarned`); while no two calls overlapped, at most one process is in a call (`TurnsTaken`) |
| `...!RegistryKeepsUp`, `RetirementIsTold` | `RegistryFollowsHealth`, `RetirementReachesRegistry` | what each label has told the registry already is what the copy it will save says (`RegistryInStep`); assumes `NobodyEvolves`, see below |
| `TradingDaemonProofs!TypeCorrect` | `TypeOK` | what a call holds must fit where it is (`Shape`), and there are verdicts only while a cycle has them (`NoVerdictsYet`); all kept by each action (`Typed`) |
| `...!DriftQuarantineCutsCapital` | `NoCapitalAfterDriftQuarantine` | a cut strategy's row has multiplier zero in the registry, in the rows read, and in every copy of the registry a call is about to save, unless the strategy is `behind` that copy (`CutHasNoCapital`): the merge of `upsert_candidate` keeps it |
| `...!VerdictsStand` | `CycleVerdictsStand` | for an untouched strategy a written verdict is in the state file and in what calls are about to save of it, the registry is told of the one being written before it is saved, and what is not `behind` a copy is in it as it is in the file (`VerdictsWritten`, `Fresh`) |
| `...!ReleaseIsEarned` | `FillsReleaseOnlyAfterThreshold` | of a strategy in a quarantine of the daemon's own, the streak is the number of fills since, in the file and in each copy that is not behind it (`StreakIsEarned`) |
| `...!QuarantineEndsTrading` | `QuarantinedIsNotACandidate` | unless the strategy is `apart`, the registry follows a health entry that takes it out of trading, in the files and in the copies about to be saved (`InStep`), and a row read is one the registry had (`RowsListed`) |
| `OrderExecutionProofs!TypeCorrect` | `TypeOK` | per action |
| `...!ImplementsLifecycle` | `LifecycleSpec`, that is `OrderLifecycle!Spec` | before the submission nothing but a replacement, which changes no status, is under way (`UntouchedUntilSubmitted`); hence every step is a move, a fill or a stutter |
| `...!JournalReplays` | `JournalReplaysOrder` | the journal is behind only by the pending status of a call under way (`JournalKeepsUp`) |
| `...!OverfillExplained`, `SettledOrdersAgree` | `OverfillHasACause`, `SettledOrderAgrees` | while none of the named causes was seen, fills made plus notices in the feed are what the exchange executed, and no more than it was asked for (`BooksBalance`); while nothing at all was seen, what the status does not say yet of the exchange's order is the business of a call under way (`StatusAgrees`) |
| `LiveProofs!LiveTypeCorrect`, `NothingLate` | `LiveTypeOK`, `NothingAfterStop` | until a `start()` doubles, at most one run lives, its readers are known to it, and a stopped runtime's tasks are all cancelled or over (`LiveOrderly`) |
| `LiveProofs!TypeCorrect` | `MCLive!TypeOK` | the invariants of the runtime and of the session, each kept by the steps of either |
| `SessionProofs!SessionTypeCorrect`, `SessionTruth` | `SessionTypeOK`, `SessionTellsTheTruth` | monitors are numbered by the starts (`StartsCounted`); without the named causes one coroutine is busy at a time, the others find health and connection in agreement, and there is one watcher (`SessionOrderly`) |
| `RecoveryProofs!RegistryTypeCorrect` | `RegistryTypeOK` | calls are numbered by their marks (`CallsNumbered`) |
| `...!LoadsOnlySettle` | `LoadsSettle` | what a process is about to save, and the file once one has saved, is settled: a migrated copy, perhaps with one upsert (`FilesSettle`) |
| `...!NoUpsertIsLostSilently` | `LostUpsertsHaveACause` | the copy of a process nobody has overtaken is what its call makes of the file that is there (`CopiesCurrent`), so that its save keeps what was completed (`UpsertsKept`) |
| `...!RecoveryTypeCorrect`, `BlockedForACause` | `RecoveryTypeOK`, `BlockedRecoveryHasACause` | an open line and a torn file have a cut behind them, a line that cannot be applied a cut or an incomplete event (`CutsExplain`) |
| `...!RecoveryExplained` | `RecoveryIsExplained` | of a readable log: time stamps follow the order of appends, an opening is before its closing, `truth` and the checkpoint say nothing no logged event is about, and every set of logged events has a last one in the order of the sort (`LogFaithful`) |
| `...!TypeCorrect` | `MCRecovery!TypeOK` | the invariants of log, registry file and session, each kept by the steps of any |
| `DeskProofs!AccountTypeCorrect`, `PaperHasNoEdge` | `AccountTypeOK`, `NoEdgeOnPaper` | positions at the better of average and quote are covered by the cash put in, less fees, plus the edge so far (`SoundSession`); rounding is on the side of the account |
| `...!EvolutionTypeCorrect`, `CyclesDealWithAll` | `EvolutionTypeOK`, `CyclesAddUp` | `_chunk` divides the positions (`ChunksDivide`); each row says what the registry was told of its candidate, a batch is taken once and complete when collected (`AddUpInv`); collected batches are then a permutation, so that the flattened results hold each candidate once |
| `...!BasketStaysNovel` | `PromotionsAreNovel` | rows are done in the order of the candidates, and each promoted one brings a symbol or family the earlier ones of the basket have not (`EvolveInv`), because novelty of 30 needs one and of 45 needs a symbol |
| `...!OptimizerTypeCorrect`, `BasketsAcceptable` | `OptimizerTypeOK`, and of `BasketChoice` everything but that the capital is used up (`BasketMade`) | rows still to come are no better than those considered (`IsNext`), so that a row is passed over for its symbol, its score or a full basket only (`SelectInv`); no weight is above its cap once clipped, and caps of rows of a symbol or family share its limit (`WeightInv`) |
| `...!ImplementsChoice`, if `FewAlike` | `ChoiceMade`: `BasketOptimizer` implements `BasketChoice` | steps before the last map to stutters, the last one to `Decide`. A round of clipping hands out what it takes, up to one unit of rounding per position, or leaves every share at its cap (`Settled`) |
| `...!BacktestTypeCorrect` | `BacktestTypeOK` | the capital is the last point of the curve, a trade adds one point, a candidate one record (`BacktestTyped`) |
| `...!NoDrawdownUnderstated`, if `UsualFrame` | `DrawdownNotUnderstated` | the curve stays above ground, since a trade stakes a fiftieth of the capital (`CurvesStay`), so that a fall in parts of its own peak is no more than the reported one (`SmallerFall`) |
| `...!NoWindowLeaks` | `WindowsAreApart` | the k-th window starts at `TrainSize + StepSize * (k - 1)` and ends within the frame (`WindowsSound`) |
| `...!TypeCorrect` | `MCDesk!TypeOK` | a behaviour of the desk is a behaviour of each of its four parts (`DeskIsItsParts`), so that every theorem above holds in the run |

`StrategyRulesProofs` has the lemmas on the pure operators. Each property
was checked by TLC before it was proved, on the instances of section 3, and so were the
larger auxiliary invariants (`RecoveryInv`, `AddUpInv`).

`NobodyEvolves` (no process makes the call `evolve`) is what those two properties are
about: they say that the calls of the state file carry the registry along, and `evolve`
writes whatever status its validation gave without looking at the state file. The run
`store_serial` has it too; the side-by-side run, which does evolve, does not check them.

**Hypotheses.** `FewAlike`: the tolerance allows two hundredths of a percent for each
position, and a portfolio has at most three positions, or no offer has more than three rows
of a family. The three positions of `portfolio.py`'s defaults satisfy it. The run `desk`
goes further, with four positions of one family, where the floor of 18 percent already
raises the caps of a family to 72; `ChoiceMade` holds there too. It does not hold for
baskets of six rows of which five are of one family: a round hands a family's overflow out
again in proportion to rooms that contain it (`ver9/basket_optimizer.py:310-331`), next to
what clipping the other rows freed, and ends, after ten rounds, with shares that add up to
more than the capital. `_build_weights` itself returns 1.03 for six such rows and up to 1.09
for seven. The defaults of `portfolio.py` choose three; a larger basket has to be asked for.

`UsualFrame` is: risk, slippage and fees no higher than the defaults of the portfolio engine
(`portfolio_engine.py:65-67`), and no close above the twentyfold of the one a holding period
before. Beyond it a short position can lose more than there is, and a fall is then no share
of a peak. The run's frame and costs satisfy it.

**Folds, sums and concatenations.** The library computes them by a function that is
recursive on the subsets of a finite set, or on an interval. What they compute cannot be
proved with the induction theorems of the library, which take an operator; it is proved in
`DeskProofs` by taking a smallest subset (`SmallestSubset`) or a least number (`Least`)
for which the claim would fail, from well-foundedness as a statement about relations.
`FoldExists`, `SumWithout`, `FlattenHolds`, `FiniteMax` are the facts to
build on.

**Only model-checked:**

* All liveness (`StopIsHonoured`, `LadderDrains`, `CallsEnd`, `CancellationsResolve`,
  `StoppedComesToRest`, `StreamComesBack`, `DivergenceHalts`, `SilentSessionsReconnect`):
  fairness and ENABLED are outside what TLAPS proves here.
* `ChoiceMade` beyond `FewAlike`, on the instance of `desk`: with four positions the limits
  hold after ten rounds up to `Tolerance`, for the numbers of the instance.
* The runs that find a violation need no proof: each is one behaviour.

## 5. What is not modelled

* Prices, scores, slippage, statistics and every other figure that no decision of
  the modelled code depends on; where one does, its outcome is left open.
* JSON text: a file is its contents, empty, or garbled.
* `load_all` and the ranker of `ver9/research/experiments/`: they read the stored records,
  change nothing, and nothing in the repository acts on what they return.
* Commands that only report; `build_status`, summaries and logging.
* `ver9/validation.py`, the features, metrics, strategies and regimes of `ver9/research/`:
  numeric; their outcomes are inputs. The regime classifier takes its quantiles over the
  whole series, so a label depends on later candles: a property of real numbers.
* Supervision, state store, candle aggregation, message bus, queue, rate limiter,
  `ProtectionEngine`: nothing calls them, and each operation is one assignment.
* Cancellation of a call of the order engine: nothing in the repository cancels one. That of the
  runtime's tasks is modelled.

## 6. Plan

Done: the files and the daemon, the orders, the live runtime with recovery,
reconciliation and stream, the exchange session, and the algorithms; every invariant of a
passing run and both refinements are theorems. Left, in order:

1. A ledger above `RuntimeStore`: an append-only abstract specification that the store
   implements while calls take turns.
2. `UsesCapital` for families of four and five positions, where clipping is a matter of
   several rounds.
3. The parts listed as partly modelled in `PROJECT.json`.

New modules with theorems use no RECURSIVE operator.
