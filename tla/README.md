# Verification of the PocketOption trading engine

TLA+ models of the trading engine in `src/` (a FastAPI program, one asyncio event loop per process,
SQLAlchemy for its tables, an external HTTP API for the broker), model-checked with TLC, and theorems
about them checked with TLAPS. The code is the reference: every definition was translated from
`src/app/`, and `PROJECT.json` ("map") gives the lines each one stands for.

- `tlc -workers 2 -config MCX_safety.cfg MCX.tla` runs a check; the runs are listed under [Runs](#runs).
- `tlapm XProofs.tla` checks the proofs; they are described under [Proofs](#proofs).

## 1. The system

The program receives HTTP requests, keeps everything but its log tables in memory, and runs one
`TradingWorker` task for each engine. All tasks and handlers share one event loop: **control changes
hands only at an `await`** (of the database, the external API, an event, a timer or a lock). This is
the unit of atomicity of every model here: an action is the code from one await to the next.

### 1.1 Inventory

| Component | State it keeps | Operations | What makes it correct |
|---|---|---|---|
| Status automaton (`models/engine_state.py`) | none: the table `TRANSITIONS` | `ensure_transition` | every status change goes through the table |
| `EngineManager` (`services/engine_manager.py`) | `engines`, `by_session`, `lock`; of each engine status, events, risk state, config, confirmations, signatures, active order, failures | `start`, `stop`, `pause`, `resume`, `unlock_risk`, `update_config`, `shutdown` | one engine for a session; STOPPED is final and quiet; stops end; the lock is given back; the risk lock cannot be bypassed |
| `TradingWorker` (`workers/trading_worker.py`) | program position; locals of `iteration()` | `run`, `_wait`, `iteration` | stop and pause take effect; three lost probes or an exception end trading; orders are confirmed, for the asset, direction and signature computed |
| `OrderService` and `order_records` (`services/order_service.py`, `repositories/order_repository.py`, `models/db.py`) | rows with a unique `idempotency_key` | `place` | one POST for a signature whoever races; recorded before sent; an answer settles it, and REJECTED is no trade |
| `RiskService` (`services/risk_service.py`) | `RiskState`: order times, losses, lock | `validate`, `record_order`, `unlock`; `record_result`, which nothing calls | hourly limit, cooldown |
| `ConnectionService` and `engine_sessions` (`services/connection_service.py`, `repositories/engine_repository.py`) | `_sessions`, `_lock`; rows by SSID hash | `create`, `disconnect`, `healthy`, `upsert_session`, `update_session_state` | one id for an SSID, in all replicas; the mode that is read is that of the own account |
| `SecurityLimitsMiddleware` (`main.py`) | one deque of times per client | `dispatch` | at most N sensitive requests in a window; nobody is refused without cause |
| `lifespan` (`main.py`) | the services | start-up, shutdown | shutdown stops every engine |
| `PocketOptionClient` (`services/pocketoption_client.py`) | `last_latency_ms`, one field for all tasks | `_request` with retries, `place_order` and `disconnect` without | an order is never repeated; no attempt is given away; which exception a failure becomes, and so what ends an engine; the latency validated is that of the own call |
| `ConfluenceService`, `SignalService` | none | `evaluate`, `choose`, `classify`, `signature` | CALL and PUT are scored alike; no readings and their mirror image give the same signal; no CALL without buyers |
| Zigzag, market structure (`indicators/zigzag.py`, `market_structure.py`) | none: the candles of one poll | `calculate_zigzag`, `detect_market_structure` | a pivot is not taken back; the structure waits for candles to end |
| `MarketDataService` (`services/market_data_service.py`) | none | `candles` | an answer it cannot use ends the engine, and is no latency of somebody else |
| The other indicators (`indicators/adx.py`, `bollinger.py`, `momentum.py`, `supertrend.py`) | none | floating point series | numeric; only the signs of the readings are modelled |
| Settings, logging, schemas, read-only routes, migrations | none that control depends on | | not modelled |

How they interact: routes call `EngineManager` and `ConnectionService` directly; `DELETE
/connection/session/{id}` calls `EngineManager.stop` and then `ConnectionService.disconnect`; a worker
calls back into `EngineManager.transition` and shares its `EngineRuntime` object with every handler;
workers and handlers share the `SessionContext` that `healthy()` writes after an await; all sessions
share one `PocketOptionClient`, and so one account of the external API; replicas share the database, and, since
every process has the same `POCKETOPTION_BASE_URL`, that account too.

### 1.2 What is hard

`PROJECT.json` ("hazards") lists each place at its line. In groups:

- **Interleaving on the event loop.** `stop()` spans three awaits without a lock; a start, a second
  stop, a pause, a reconnection or the worker's own transition may fall between any two. An iteration
  decides at its beginning and orders several awaits later, with a config object PATCH may mutate
  meanwhile.
- **Partial failure.** `transition()` sets the status *before* it commits the event; a commit that
  raises leaves the caller half-way. The worker's exception handler can raise itself.
- **Unreliable answers and crashes.** The answer to an order may be lost, and the order executed after
  nobody waits for it; the process may die between the row, the POST and the final commit; two
  replicas may race for the same row. Any other call is tried three times, with a back-off in between.
- **Boundaries.** Hour, cooldown and rate window end exactly at a tick; limits are checked before the
  order and recorded after it. A spread of zero is counted for the sellers.
- **One client for everybody.** `last_latency_ms` is overwritten by every call of every task, and one of
  them is read as that of the iteration's candles.
- **Data that moves.** Each poll sees the newest candle differently, and the oldest one gone: what was
  found in the candles before must not depend on that.

## 2. Modules

| Module | Models | Depends on |
|---|---|---|
| `EngineState` | statuses, transition table, `CanTransition` (with the `force` used by unlock) | |
| `EngineContract` | abstract specification: in which order statuses follow each other, and which orders may come while one is shown | `EngineState` |
| `EngineLifecycle` | handlers of `EngineManager` and the session routes, `TradingWorker.run` and the skeleton of `iteration`, `healthy()` | refines `EngineContract` |
| `EngineLifecycleProofs` | its inductive invariant and 9 theorems, the refinement among them | `EngineLifecycle`, `TLAPS` |
| `OrderBook` | abstract specification: claim once, trade once, close once, and no trade after an answer | |
| `OrderSubmission` | `OrderService.place` by several workers and replicas, the broker, failures | refines `OrderBook` |
| `OrderSubmissionProofs` | its inductive invariant, 6 theorems, the refinement among them | `OrderSubmission`, `TLAPS` |
| `TradingDecision` | what `iteration` decides, against PATCH `/config` | |
| `TradingDecisionProofs` | its inductive invariant and 6 theorems | `TradingDecision`, `TLAPS` |
| `RiskLimits` | `RiskService` against the clock and the worker's orders | |
| `RiskLimitsProofs` | its inductive invariant and 4 theorems | `RiskLimits`, `TLAPS` |
| `SlidingWindow` | abstract specification: admitted if and only if fewer than the limit in the last window | |
| `RateLimiter` | `SecurityLimitsMiddleware.dispatch` | refines `SlidingWindow` |
| `RateLimiterProofs` | its inductive invariant and 4 theorems, the refinement among them | `RateLimiter`, `TLAPS` |
| `ConnectionSessions` | `ConnectionService` of several replicas, `engine_sessions`, the shared account | |
| `ConnectionSessionsProofs` | its inductive invariant and 5 theorems | `ConnectionSessions`, `TLAPS` |
| `ExternalClient` | `PocketOptionClient._request` and the calls of workers and routes that share it | |
| `ExternalClientProofs` | its inductive invariant and 5 theorems | `ExternalClient`, `TLAPS` |
| `Confluence` | the scores of `ConfluenceService.evaluate` and `SignalService.choose` | |
| `SwingStructure` | `calculate_zigzag` and `detect_market_structure` over moving candles | |
| `AnalysisProofs` | 7 theorems about these two, what the analysis of a poll computes: the lemmas on windows, and the inductive invariant of the scores | `Confluence`, `SwingStructure`, `TLAPS` |
| `MC*` | the symmetry sets for TLC | the module of that name |

Some definitions are preceded by a variant whose comment begins with "Mutant:". It is the definition
with a plausible bug (a dropped guard, a missing reset, a lost unique key). Nothing uses it;
`PROJECT.json` ("mutants") names the property that breaks when it takes the definition's place, which
shows that the property depends on that line of the code.

### 2.1 `EngineLifecycle`

State and code: `status`, `stopEvent`, `finished`, `riskLocked`, `activeOrder`, `failures` are the
fields of `EngineRuntime`; `bySession` is `EngineManager.by_session`; `session` is the dictionary of
contexts with its `connected` flags; `call` holds the requests in flight and what they await; `worker`
names what each task awaits; `adrift` are the callers of `healthy()` whose captured context was removed
meanwhile, so that their answer is written to an object nobody sees. `late` is a history variable.

| Code | Actions |
|---|---|
| `start` (holds `manager.lock`) | `StartRequest` (checks, probe) → `StartProbed` → `StartCreates` (assets are there: the engine is registered, STARTING is being committed) → `StartRuns` → `StartLaunches` (task created, lock given back); `StartRaises` at any of these awaits |
| `stop` | `BeginStop` (STOPPING) → `StopSignals` (sets `stop_event`) → `StopWaited` (worker finished, or cancelled on time-out; STOPPED) → `StopReturns` (`by_session` popped); `StopRaises` |
| `DELETE /connection/session` | `DeleteStops` or `DeleteDisconnects` → `Disconnected` |
| `pause`, `resume`, `unlock_risk` | `Pause`; `ResumeRequest` → `ResumeProbed` or `ResumeRaises`; `UnlockRisk` |
| `shutdown` | `Shutdown`, then one `ShutdownStops` for each engine that was not STOPPED |
| `run` | `WorkerLeaves`, `WorkerProbes`, `WorkerFindsNoConnection`, `WorkerProbeFails`, `WorkerLost`, `WorkerGivesUp`, `WorkerProbeSucceeds`, `WorkerRecovered` |
| `iteration` | `WorkerEvaluates` → `WorkerChecksPayout` → `WorkerLocked` → `WorkerRechecks` → `WorkerPosts` → `WorkerPlaced` → `WorkerRecorded` |
| exceptions | `WorkerRaises` (with the handler's own transition, which may raise), `WorkerEnds` (`finally`: `finished_event`) |

Abstractions: whether a signal comes out of the scores and blocks is one boolean (`armed`); the
RiskState meets a loss limit or not (`LossLimited`, the engines for which it does); `place()` is the
steps before and after the POST (`OrderSubmission` has the detail). A stop by the shutdown uses a
request slot, so the number of slots bounds how many stops run at the same time.

`EngineContract` is the engine as those see it who read its status and count its orders: no tasks, no requests, no
sessions. Its state is the status shown, the risk lock, whether an order is under way, and an `allowance`: "any" orders,
the "last" one, or "none". `ImplementsContract` is its specification under `shown <- status`, `locked <- riskLocked`,
`ordering <- worker = "ordering"` and `allowance <- Allowance(e)`, which `EngineLifecycle` computes from the status,
`stop_event` and `late`, and from whether the task is at its end (`Doomed`). What it says, and no property of a single
status does:

- RUNNING is reached only without a lock, from STARTING, PAUSED, CONNECTION_LOST, or by clearing the lock;
- an order is sent only in RUNNING, in PAUSED (one) or in STOPPING, one at a time and never while locked;
- what a status allows is taken away for good when a stop is signalled, an order has used it, or the task ends;
- a connection is found lost, and a limit met, only while no order is under way.

Writing it showed one thing the status does not say. `stop()` shows STOPPING, awaits the commit of the event, and only
then sets `stop_event` (`engine_manager.py:97-98`), while `run` rests for PAUSED and RISK_LOCKED only
(`trading_worker.py:25-27`). So until that commit is over, and for as long as nobody stops it again when the commit
raises, an engine shown as STOPPING trades on, one that was PAUSED too (`BeginsToStop` may raise the allowance to "any").
The contract says so; no document of the repository says otherwise.

### 2.2 `OrderSubmission` and `OrderBook`

`pc` follows `place()`: `selecting` (`signature_used`), `inserting` (the SUBMITTING row), `posting`, `storing` (the
final commit). `memory` is `rt.signatures`. The broker is external: a request that was sent is executed or refused at
any time; when its worker gave up, was cancelled or died, the request is `stray` and may still be executed, or lost.
`Answered` is a JSON object: an executed order is ACCEPTED, a refused one REJECTED or, when the object has no
`success`, ACCEPTED (`order_service.py:26` takes `True` for a missing key). Hence `AnswersSettle` says of ACCEPTED
that nothing is left to be executed, but not that there was a trade. `Breaks` is every failure at any await: a
database call that raises (with its commit effective or not), the cancellation by `stop()`, the death of the process.
`Starts` is a new engine with an empty memory, in this process or another.

`OrderBook` says what this is for, in three actions over `record` and `trades`: `Claim`, `Trade`,
`Close`. `ImplementsOrderBook` is its specification under `record <- orders, trades <- executed`.

### 2.3 `TradingDecision`

One engine: the iteration reads the patched config field by field (`Begins`, `Chooses`, `Checks`,
`Places`, `FindsUnhealthy`, `Placed`, `Recorded`), and `Patch` may come at any of its awaits but those of
`place()`. Scores are abstracted to the direction `SignalService.choose` draws from them, an amount to whether
it is `within` the maximum or `beyond` it: `update_config` repeats that check of `start`, and an iteration reads
the amount twice, for `validate` and for the order. `readings`, `order`, `ordered` and `autoOff` are history.

### 2.4 `RiskLimits`

`Validate` (the reasons to block in `Blocked`: `LossLimitMet`, the hour in `Recent`, `Cooling`), then
`Posts`, then `Accepted` (`record_order`) or `NotAccepted` (refused, UNKNOWN, FAILED), either of them with or without
a trade. `orderTimes` is a set of order and time, of which only the number of members is asked: `Recent` keeps
what is younger than an hour. The clock ticks between any two steps. `record_result` is called nowhere in `app/`, so
`consecutive_losses` and `daily_profit_loss` are 0 for good and are no variables; `LossLimitMet` compares 0 with the
`settings` the process was started with, and locks under a limit of 0.

### 2.5 `RateLimiter` and `SlidingWindow`

`dispatch` decides without an await, so a request is one action: `TooLarge`, `PassesOther` (a route that
is not sensitive), `Passes` or `Refuses`. `Expires` is the loop that drops times from the head of the deque
until one is inside the window. `admitted` is a history of all admissions, `refusals` the client the last
step refused.

`SlidingWindow` says what a client may count on: it remembers every admission, and admits a request if and only
if fewer than `Limit` are not older than the window. `ImplementsWindow` is its specification for the variables
`now`, `admitted` and `refusals` of `RateLimiter`: the deque forgets nothing that still counts, keeps nothing
that does not, and one client never pays for another. (Requests of clients behind one address are one client to
the program; `Client` are addresses. The table of clients only grows; its size is not modelled.)

### 2.6 `ConnectionSessions`

For each replica its contexts, and what all replicas share: the table (`rows`) and the external API (`api`: the one
account that the last init named, whether it is connected, and as a history `by`, the replica that named it). `_lock`
is of one process. `create` is `CreateNew` (gets the lock, calls init) → `InitAnswers` → `StatsAnswer` →
`BalanceAnswers` → `Selects` → `Inserts` or `Updates`, or `InsertConflicts` → `Updates` when another
replica won; `ApiRaises` and `DatabaseRaises` (then `Cleaned`) end it. `disconnect`, which takes no
lock, is `DisconnectRequest` → `LoggedOut` → `Marked`. `Restart` is a new process. Assumed of the API:
a call that raises may have had its effect, but has none later; a balance is answered only when
connected, with the mode of the account that is connected then, or with none (`DefaultMode`,
`connection_service.py:54`).

### 2.7 `Confluence`

`evaluate` adds up one reading after the other, and so does the module: `ScoresAdx` three times, then
`ScoresBollinger`, `ScoresMomentum`, `ScoresTrend`, `ScoresStructure` and `Closes` (the point for the
provisional zigzag, the cut at zero). A reading is the signs and comparisons that `evaluate` makes of it.
Those of an ADX are derived from the signs of the last three spreads as `calculate_adx` does it: `Crosses`,
`Persistence`, and in `Adx` what a spread of zero or of nothing keeps from growing. Otherwise any
combination of readings may come. `minimum` is the score a signal needs, drawn from the set `Minimum` when the
computation begins. `mirror` is a history: the scores of the same readings with up and
down changed places. That is a statement about readings, not about markets: `calculate_supertrend` begins with an
upward trend whatever the market (`supertrend.py:11`). `Choose` is `SignalService.choose`.

Its state and specification have names of their own (`scoreVars`, `ScoreSpec`, `ScoreTypeOK`), so that
`AnalysisProofs` can extend `SwingStructure` beside it.

### 2.8 `SwingStructure`

`frame` holds high and low of the candles, `close` that of the newest. The operators are the two functions,
position by position; `Moves` (the newest candle follows its price) and `Begins` (a new candle, and the
oldest leaves a full window) are what the market does between two polls. A poll that misses steps sees the
state after several of them.

### 2.9 `ExternalClient`

`_request` is `Sends`, then for each attempt `Returns`, `BacksOff` (and later `Resends`) or `Raises`; `Reply` are
the kinds of answer it tells apart. `latency` is the one field of the client. Around it, the calls of an iteration
with what the worker does between them (`Probes`, `Healthy`, `Unhealthy`, `Validates`, `ChecksPayout`, `Unusable`,
`Placed`, `Fails`), and those of routes (`Requests`, `Answered`).

Here the unit of atomicity is smaller than in the other modules: a step ends where `_request` returns, and
`running` says whose turn of the event loop it is, so that nobody else moves before the caller has gone on to its
next await. This makes visible what the program rests on: between the last attempt's `last_latency_ms = ...` and
the `validate` that reads it there is no await. A variant with one (`ReturnsLater`) breaks `LatencyIsOwn`.

An engine that lost its connection probes again at some time (`EngineLifecycle` counts the polls), one whose
iteration has raised is `over`. The database is left out: its awaits lie outside the calls.

## Runs

Every constant of a `.cfg` is a bound; none replaces a definition. `TypeOK` is checked where the
configuration of a run names it (`EngineLifecycle`, `RiskLimits`, `RateLimiter`, `Confluence` as `ScoreTypeOK`); it is proved
of every module.

| Run | Instance | What it shows |
|---|---|---|
| `lifecycle_safety` | 2 engines (the second at its loss limit), 1 session, 2 requests in flight, failing commits, payout check | `StoppedIsQuiet`, `AtMostOneLateOrder`, `ActiveOrderWhilePlacing`, `RiskLockHolds`, `ErrorIsTerminal`, `StoppedIsFinal` in all interleavings, refinement of `EngineContract` |
| `lifecycle_liveness` | 1 engine, 2 requests, commits that work | `StopCompletes`, `StartReleasesLock`, `LostConnectionResolves`, `OrphanNotices`, `ShutdownStopsAll` under `FairSpec` |
| `submission_safety` | 3 workers, 2 signatures, all failures | `AtMostOnePost`, `TradesAreRecorded`, `AnswersSettle`, refinement of `OrderBook` |
| `decision_safety` | 2 assets, 3 profiles, candles 0..1, 3 readings counted; asset, profile, auto mode and amount are patched | `OrdersAreConfirmed`, `OneOrderAfterAutoOff`, `OrdersWithinLimit`, `SignatureOrderedOnce` |
| `limits_safety` | 2 orders an hour of 3 ticks, 6 instants, cooldown 0 or 2, each loss limit 0 or 2, 3 trades | `HourlyLimitHolds`, `CooldownHolds` |
| `rate_safety` | 2 clients, limit 2, window of 2 ticks, 6 instants, 4 admissions each | `WindowIsLimited`, refinement of `SlidingWindow` |
| `sessions_safety` | 2 replicas on one account, 2 SSIDs, 3 ids, 2 requests | `ContextsArePersisted`, `ModeReadIsOwn` |
| `confluence_safety` | all readings, minimum 9 (where sellers alone no longer make a CALL), 14, 16 or 18 (the profiles), difference 4 (the default) | `MirrorImage`, `MirrorIsNoSignalToo`, `CallNeedsBuyers` |
| `swings_safety` | 3 prices, 5 candles, depth 2, backstep 1, deviation 50 % | `PivotsStay`, `StructureWaits` |
| `client_safety` | 2 workers, 1 route, a payout minimum | `AttemptsAreUsed`, `LatencyIsOwn`, `EndsForCause`; `IterationEnds` under `FairSpec` |
| `one_engine`, `running_worker` | | violations, see [Divergences](#divergences) |

Why these bounds are enough to be interesting:

- A second engine on the session is what stop, delete and start can confuse with the first, and two
  requests in flight are what any race of handlers needs (the worker is a third party of its own). The
  third engine of `one_engine` is the one the broken entry lets in.
- Three workers: two that race for a signature, and one more that meets the row of an engine that died.
- An hour of 3 ticks and 6 instants lets the window slide past its first order; the limit is 2, so that
  the first order leaves while the second still counts.
- Three ids for two SSIDs: each has a row, and a third is in flight to conflict with one of them.
- `confluence_safety` is exhaustive over the readings: no bound stands for a larger set. The minimum may be
  patched to any value of 0..100 (`schemas/engine.py:60`); its properties are stated for all of them, and proved.
- Five candles hold three positions with a window of depth 2, of which two are looked at, so that two
  pivots of a kind, a pivot that leaves the window and one that is about to appear occur together.
- Two workers and a route share the client: the one that validates, one that is slow, and one that makes calls no
  worker makes. Four admissions in windows of two let a window be full twice.
- `MaxTime`, `MaxOrders`, `MaxAdmitted`, `MaxCandle`, `MaxReadings` are bounds of the models, not of the
  program. `MaxReadings` is the highest number of readings a profile demands.

Symmetry is used for sets of values the definitions treat alike; engines are not among them, because `LossLimited`
tells them apart. `lifecycle_safety` has a VIEW: states that differ only in what nothing reads any more (the failures
a worker that is over has counted, a signal that has been decided) are explored once. So has `sessions_safety`, for
the mode once it is read and the account while no create depends on it; the two formulas on them under
[Divergences](#divergences) are to be checked without it. `CHECK_DEADLOCK FALSE` stands in the runs of
`EngineLifecycle`, because after the shutdown the program really stops, and of `Confluence`, because a computation
ends.

### Fairness

`FairSpec` of `EngineLifecycle` asks for weak fairness of each request in flight, each worker and each
stop the shutdown has to start. The code justifies it: the event loop runs every ready task; every
`await` has a bound (the HTTP client's time-out, `wait_for` around `finished_event` and the poll
interval, the driver of the database); `gather` starts every coroutine it is given. Nothing is asked of
clients. The liveness run has `DbMayFail = FALSE`, and the properties say so: a commit that raises in
`transition()` does leave a stop unfinished.

`FairSpec` of `ExternalClient` asks for strong fairness of each iteration that has begun and each route's call:
a task that is ready stands in the loop's queue, which serves in order, but while another one has its turn its
step is not enabled, so that weak fairness would say nothing about it. An answer, or a time-out, comes to every
attempt: `httpx` bounds each wait for the network (its read time-out is one of each read), and an answer is assumed not
to trickle in for ever. Nothing is asked of the moment at which an engine polls or a client calls.

## Divergences

What the runs of violations show, and where the code or its documents say otherwise:

1. **Two engines on one session** (`one_engine`). `stop()` shows STOPPED, awaits the commit of the event,
   then pops `by_session[session_id]`, whichever engine that names by then. A start in between registers
   a new engine whose entry is popped, and the next start is accepted beside it. `tests/test_engine.py:12`
   expects 409.
2. **RUNNING without a worker** (`running_worker`). PAUSED has no transition to ERROR, so an exception in
   the iteration that outlives a pause raises again in the handler: the task is gone, the status stays
   PAUSED, `resume` shows RUNNING. After a resume (`tests/test_engine.py:27`) the test asserts
   `status["status"] == "RUNNING"` and `status["last_price"] is not None` (`:31-32`): the engine polls.
   `RunningHasWorker` says so of every engine, one that never got a worker included. Such an engine exists too, after a
   commit that failed in `start` (`engine_manager.py:84-85`), but not in this run, which has `DbMayFail = FALSE`.

TLC also refutes the following, whose formulas stand in the modules under "What the README says" or "What
tests and schemas say", without a run of their own:

- `DeletedSessionHasNoEngine`: `DELETE` answers `engine_running: false` (`schemas/connection.py:36`)
  while a start of the session is under way, and that engine survives.
- `FailedIsNoTrade`: an HTTP 502 or 504 after the order was sent becomes FAILED, not UNKNOWN
  (`README.md:115`).
- `ProfileIsConfirmed`: PATCH of the profile leaves `required_confirmations` as it was (`README.md:115`).
- `OrderMatchesSignature`: a PATCH of the asset during the last probe changes the asset of the order, not its
  direction and signature (`README.md:115`).
- `DemoAutoIsDemo`, `LiveAutoIsAllowed`: mode checks that start makes and PATCH or `iteration` do not
  (`README.md:64-65`).
- `HourlyLimitOfTrades`: trades behind UNKNOWN and FAILED do not count (`README.md:59`).
- `AcceptedIsTrade`: an answer without `success` counts as accepted, and as an executed order, whatever the broker
  did (`order_service.py:26`, `trading_worker.py:96-97`).
- `ModeIsOwn`: the mode of a session may be the default, or that of the account another replica has named since, and
  `start` compares it with what the engine mode asks for (`README.md:64`).
- `OrdersGoToOwnAccount`: the external API has one account, and the init of a second SSID switches it
  under the engines of the first (`README.md:64`).

Without a formula, because it would restate a table: `DELETE` of a session is not rate-limited, although
`README.md:99` lists sessions among the sensitive routes (`Route` of `RateLimiter`); and `schemas/engine.py:27-30`
refuses to start an engine whose orders expire before its timeframe ends, but PATCH may set either value alone.
Three of the limits in `README.md:59` have no effect: nothing calls `record_result` (`risk_service.py:45`), so that
MAX_DAILY_LOSS and MAX_CONSECUTIVE_LOSSES never bite unless they are set to 0 or less, and LOSS_COOLDOWN_SECONDS
(`config.py:32`) is read nowhere.

## Proofs

TLC checks the instances above; the theorems hold for every set of engines, sessions, requests, workers
and signatures, for every limit, window and cooldown, from the assumptions named in the modules and nothing
else. They are about constants only: null values that are no members of the sets they are beside, switches that are
boolean, limits that are natural numbers (`LifecycleAssumption`, `SubmissionAssumption`, `DecisionAssumption`,
`LimitsAssumption`, `LimiterAssumption`, `SessionsAssumption`, `ClientAssumption`, `SwingAssumption`,
`ConfluenceAssumption`). TLC evaluates
them in the runs of these modules. One asks for more than the code does: `LimiterAssumption` has a limit above 0, of which
`config.py:43` says nothing.

**`EngineLifecycleProofs`**: `Spec => []` of `TypeOK`, `StoppedIsQuiet`, `AtMostOneLateOrder`,
`ActiveOrderWhilePlacing`, `RiskLockHolds`, and `Spec => StoppedIsFinal`, `Spec => ErrorIsTerminal`,
`Spec => ImplementsContract`. None of them is inductive alone. `Inv` adds what each position of a task implies:

- `CallInv`: a request that starts an engine names one without a worker; one that stops names one that is
  STOPPING or STOPPED, and after the signal its `stopEvent` is set. Without it `StopWaited` could take an
  engine to STOPPED whose worker never hears of it.
- `LockInv`: one request at a time is in `start`; two could launch a worker for the same engine.
- `ReferenceInv`: `by_session` and the shutdown name engines that exist.
- `WorkerInv`: where a worker can be, by status and events; `finished` exactly when done, cancelled only
  when STOPPED, at the loop's head in ERROR only with `stopEvent` set.
- `FailureInv`: three failures only on the way out, which bounds `failures`.
- `LateInv`: after the one late order the worker is past the point of decision.
- `LockedInv`: a locked state disarms the signal found, and nothing locked is on its way to RUNNING.

`InitInv` and `StepKeepsInv` have one lemma for a group of actions and one step per action; the lemmas `...Outcomes`
say what an action with alternatives can do to a single engine, so that the proof of each step needs the outcome and
not the definition. `FrameKeepsInv` and `WorkerFrame` treat what one worker's or one request's step leaves alone.
`StoppedIsFinal` follows from `Inv` and the `...KeepsStopped` lemmas, `ErrorIsTerminal` from `ErrorEndsWork` (in ERROR
the worker is on its way out), a part of `Inv`, and the `...KeepsEnd` lemmas: who leaves ERROR, and that a worker on
its way out stays so.

The refinement needs `Inv` in the state before a step and in the one after it. `AllowanceByStatus` reads `Allowance`
status by status, which spares the provers its CASE. `Observed` says what a step of one engine does to the four
variables of the contract, whose functions range over all engines; `Unseen` and `Untouched` are the stutters. Then one
lemma for a group of actions says which action of the contract each of them is: `StartRefines`, `StopRefines`
(with `BeginStopRefines`, `SignalRefines`), `RequestsRefine`, `LoopRefines`, `IterationRefines`, `EndRefines`. The
parts of `Inv` that count are `WorkerInv` (a worker that posts is in a status that allows it, one that crashes is not
thought to go on), `LateInv` (the order after a pause or a signal is the one the allowance is for) and `LockedInv`
(nothing locked posts, recovers or is resumed).

**`OrderSubmissionProofs`**: `TypeOK`, `AtMostOnePost`, `TradesAreRecorded`, `AnswersSettle`, and
`Spec => ImplementsOrderBook`. `Inv` ties the row, the request and the trades of a signature to the one
worker that claimed it: `LocalInv` (what a position implies), `ExclusiveInv` (no two submissions share a
signature: the unique key), `BrokerInv` (no trade without a row, at most one; a stray request is not
executed yet), `RequestInv` (what the broker has done for the request a worker waits for). The refinement
maps `Inserts` to `Claim`, the broker's steps to `Trade`, `Stores` to `Close`, `Breaks` to a stutter or,
when an unconfirmed commit took effect, to `Claim` or `Close`, and all others to stutters.

**`AnalysisProofs`**, of `SwingStructure`: `TypeOK`, `PivotsStay` and `StructureWaits` for every set of prices, window,
depth, backstep (at least 1) and deviation. `WindowStays` is the heart: what is said of a candle depends on
the candles of its window alone, none of them is the newest, and `OldCandlesStay` says that the others keep
their values and move down together. `PivotsWait` adds that while the newest candle moves the pivots stay
where they are; `LastPosition` and `LastButOne` (a set of positions has a last one, and with two elements
one before it) then carry this over to the structure. With a backstep of 0, which no caller passes, the
newest candle would be judged and neither would hold.

Of `Confluence`: `ScoreTypeOK`, `MirrorImage`, `MirrorIsNoSignalToo` and `CallNeedsBuyers`, for every minimum and
difference. `ScoreInv` is what is known after each reading. `PairInv` is `MirrorImage` before the end: a spread of
zero gives PUT in both what CALL gets in neither. `CallsInv` and `PutsInv` bound what the readings so far are worth:
at most 9 points to CALL for each ADX with buyers and `MostOther` for the rest, at most `MostPuts` to the PUT of the
readings and that of their mirror image together, of which every ADX gives to one side only or, with a spread of zero,
at most 2 and its weight to both. In the end these are 34, so that both cannot reach 18, and 8 beside the buyers.
`AdxKeepsScores`, `ReadingKeepsScores` and `ClosesKeepsScores` carry the bounds over the three kinds of step;
`AdxFacts`, from `FlippedPersistence` and `GrowingPoints`, and `OtherPoints` say what a reading and its mirror image
are worth.

**`TradingDecisionProofs`**: `TypeOK`, `OrdersAreConfirmed`, `OneOrderAfterAutoOff`, `OrdersWithinLimit` and
`SignatureOrderedOnce`, for every set of assets and whatever may be patched. `CountInv` says what a
confirmation counter means: that many of the last readings are of its direction, with the newest one pending while
the payouts are awaited. `SignedInv` is what an iteration has established once it has chosen a signature,
`OrderedInv` that only the order under way is not in the engine's memory.

**`RiskLimitsProofs`**: `TypeOK`, `HourlyLimitHolds` and `CooldownHolds`. The difficulty is that orders are checked
when validated, sent later and recorded later still. `TimesInv`: every accepted order is in `order_times`, at a time
not before it was sent, or is an hour old. `LastInv`: `last_order_at` is not before the last accepted order.
`CheckedInv`: what `validate` found of hour and cooldown is still so at the time of the POST, because one worker has
one order on its way. For `HourlyLimitHolds` the cardinality theorems count: an order joins only the hour that ends
with it, and `RecentCounts` bounds what that hour had before by what `validate` counted.

**`RateLimiterProofs`**: `TypeOK`, `WindowIsLimited` and `Spec => ImplementsWindow`. `Suffix`: the deque is the
history without a first part, all of which is older than the window; `InOrder`: admissions are in order, which
is why the head may be dropped without looking at the rest. From both, the length of the deque after `Expires` is
the number `SlidingWindow` counts, so that each step is an `Admit`, a `Refuse` or a `Passes` of the abstract one.

**`ConnectionSessionsProofs`**: `TypeOK`, `LockIsExclusive`, `ContextsArePersisted` and `ModeReadIsOwn` for any number
of replicas, SSIDs and requests. `CallsKnow` is what a `create` knows by the time it awaits a call: that the account
it named is still that of the API unless another replica has named one since, that the row it found is there.
`LockIsExclusive` is what this rests on: without it a second `create` of the same process would name another account.
`ContextsKept` ties each context to the row of its SSID, and `RowsHaveIds` says that ids, once stored, stay.

**`ExternalClientProofs`**: `TypeOK`, `AttemptsAreUsed`, `LatencyIsOwn` and `EndsForCause` for any number of workers
and routes. `TurnInv`: a task that goes on with an answer is the running one. `LatencyInv` needs it: candles that
have just come still have their latency in the client. `CallInv` bounds the attempts of a call, `CauseInv` says what
is known of an exception until its caller has dealt with it.

Only model-checked: liveness (`StopCompletes`, `StartReleasesLock`, `LostConnectionResolves`, `OrphanNotices`,
`ShutdownStopsAll`, `IterationEnds`). Liveness under fairness and ENABLED are beyond the backends used, as are induction
over data and RECURSIVE operators; the models have none of the latter.

## Not modelled

- The series of ADX, Bollinger, momentum and Supertrend: floating point over data frames, no control or state. In
  `Confluence` the readings are arbitrary, in `EngineLifecycle` their exceptions are `WorkerRaises`. Supertrend
  smooths over the whole window, so that its early values depend on the candle the window begins with.
- The formats of timestamps in `MarketDataService`; a candle without one is given the time of the poll.
- `classify` and the texts of reasons: nothing depends on them.
- What a second or late `init` does. `_request` repeats POST `/api/init` like a read, so that an attempt that timed
  out may be executed after the one that was answered, or after a later disconnect. That is up to an API of which
  the repository says nothing; `ConnectionSessions` assumes an effect at once or never.
- What is lost where nothing reads it: `state` of an `engine_sessions` row may say "disconnected" while a create
  writes it (`connection_service.py:88`), and no query asks for it; `create` that raises leaves the external API
  connected (`connection_service.py:52`) until the next `init` takes its place.
- Rows that nothing reads (`engine_instances`, `engine_events`, `risk_events`, `signal_records`): their
  commits are awaits that may fail, their content is left out.
- Read-only routes: queries without state. Two things a reader may trip over: `account.py:12-14` answers with the
  balance of the shared external account whatever session is asked for, and `signals.py` filters by date after
  `limit` and `offset`, so that a page may be shorter than what there is.
- Settings and the limits of the schemas, which are CONSTANTS of the modules where control depends on them; logging,
  masking, migrations.

## Plan

Done: 1. `EngineState`, `EngineLifecycle` and its proofs; 2. `OrderBook`, `OrderSubmission` and its proofs;
3. `TradingDecision`; 4. `RiskLimits`; 5. `RateLimiter`; 6. `ConnectionSessions`; 7. `Confluence`;
8. `SwingStructure` and its proofs; 9. `ExternalClient` and its proofs; 10. `SlidingWindow`, implemented by
`RateLimiter`; 11. the proofs of 3 to 6; 12. `EngineContract`, implemented by `EngineLifecycle`; 13. the proofs of 7.

What would come next:

14. Composition: several `RiskLimits` and `TradingDecision` behind one `EngineLifecycle` engine, so that
    `armed` and `LossLimited` become state of theirs.
