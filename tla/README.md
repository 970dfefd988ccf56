# A verification project for l0-worker

l0-worker runs inference tasks. A **worker** (TypeScript, `src/src`, `src/api`)
takes one task per HTTP request, streams events about it to the client and
forgets it; a **supervisor** (Rust, `src/supervisor`) keeps a pool of worker
processes alive on one machine. This directory holds TLA+ models of both, the
TLC configurations that check them, and TLAPS proofs of what they keep.

Paths below are relative to the repository. `PROJECT.json` maps every definition
to the lines it stands for.

## 1. The system

### 1.1 Components, their state and operations

| Component | State | Operations | What makes it correct |
|---|---|---|---|
| Worker instance `src/worker-instance.ts` | one `AbortController` and one drain timer per run | `executeTaskWithEvents`, `updateConfig`, `replay` | every run ends with one terminal event, gives its slot back on every path, and its log and stream agree |
| Standalone server `src/server.ts` | shutdown in progress (`waitForDrained` calls) | `/api/submit`, `/api/status`, `/api/replay`, `/api/config`, `/api/drain`, SIGTERM, SIGINT | a shutdown ends; the last line tells the truth; it refuses what it should, in the right order of checks |
| Serverless handlers `api/*.ts` | none of their own (module-level worker) | the same, without drain | the same status codes as the server, a function deadline |
| State machine `src/state/machine.ts` | `BOOT, READY, ACCEPTING, DRAINING, OFFLINE` | `transition`, `isAccepting` | a draining worker takes nothing, and goes OFFLINE (section 4) |
| Slot manager `src/executor/slots.ts` | map of running task ids, limit | `acquire`, `release`, limit setter | never above the limit in force, never twice for a task |
| Configuration `src/state/config.ts` | limit, caps, flags | `update` and its listener | the limit reaches the slot manager, below 1 is refused before anything changes |
| Event store, replayer `src/store`, `src/replay` | events per task, the order of tasks | `record` with its eviction, `getOutputHash`, `replayWithValidation` | what is kept is the end of what was told, the oldest goes first, a verdict is about the latest output |
| Clock `src/utils/clock.ts` | the last timestamp | `now` | strictly increasing |
| Authentication `src/auth/validate.ts` | none | `validateAuth` | valid means fresh, and signed where a secret is required |
| Environment `src/config.ts` | none | presets and overrides | |
| Executor `src/executor/executor.ts` | none between calls | `executeOrder`: text, JSON, race, fanout | nothing delivered is lost or doubled, JSON is the last stream's where that has an object, a first token is reported once |
| Schemas, hash, providers | none | pure functions | |
| Pool `supervisor/src/pool.rs` | table id -> process, port, state, counters | worker events, health rounds, restarts, spawn/drain/kill/restart, start, shutdown, pool events | one process per port, no process the table does not know, crashes noticed and repaired within a budget of restarts |
| Process handle `supervisor/src/worker.rs` | child process | `spawn`, `wait`, `terminate`, `kill`, readers of stdout and stderr | every line is handed on, and the sends do not wait for ever |
| Health checker `supervisor/src/health.rs` | HTTP client | `check` | |
| Supervisor `supervisor/src/main.rs`, `api.rs` | two bounded channels, one lock, one broadcast | boot, 50 ms event poll, health tick, API, signals | comes up or gives up, goes down, leaves nobody behind |

### 1.2 How they interact

- Client to worker: one HTTP request per run; events go back on its stream. A
  client that leaves is noticed by the worker at its next emit.
- Executor to worker instance: callbacks (`onFirstToken`, `onL0Event`) in the
  middle of a run, and the promise's outcome.
- Executor to the L0 runtime: a stream factory per model of the chain, which the
  runtime calls again for a retry; one loop over the tokens of all of them.
- Endpoints to worker instance: every handler checks in an order of its own and
  then reads or changes the shared limit, hot configuration and event store;
  replay awaits the store between its check and its answer.
- Timers: one drain timer per run when `functionTimeoutMs > drainBufferMs`.
- Worker to supervisor: structured lines on stdout (`worker.ready`,
  `worker.draining`, `worker.drained`), the exit of the process, and the answers
  to `GET /api/status`.
- Supervisor to worker: `POST /api/drain` followed by SIGTERM, or SIGKILL.
- Inside the supervisor: everything that touches the table holds one write
  lock; the readers of the workers' stdout and stderr, one message per line of
  whatever kind, and `Worker::wait` send `WorkerEvent`s on a channel of 100; the
  pool sends `PoolEvent`s on a channel of 32.

### 1.3 What is hard

Emits that throw from inside callbacks; timers against completions; the
limit that moves while slots are held; two requests with one task id; lines
that are read long after the process that printed them is gone; a health round
that sees a process gone before its last words are handled; process ids,
worker ids and ports that outlive each other; bounded channels whose reader
comes late or goes early; requests queued for a lock at exit; a store that
forgets tasks that still run; a system clock that is set back; tokens of a
stream that breaks later; handlers that are dropped halfway. `PROJECT.json`
lists each under `hazards`, at its line, with the property that guards it.

## 2. The modules

| Module | Models | Uses |
|---|---|---|
| `SlotPool` | what the slot manager promises (abstract) | |
| `L0Worker` | one worker process, standalone or serverless | implements `SlotPool` |
| `MonotonicClock` | the clock every event is stamped with | |
| `EventStore` | the store, its eviction, the runs that write to it, what a replay reads | `MonotonicClock` |
| `Auth` | the auth envelope and its validation | |
| `WorkerApi` | every endpoint of both deployments over one instance | `EventStore`, `Auth` |
| `RunView` | what a worker instance may rely on while an order runs (abstract) | |
| `OrderExecution` | the executor, from an order to its output or error class | implements `RunView` |
| `SupervisorPool` | table, processes, lines, health rounds, API | |
| `PoolEvents` | what the pool tells its listeners about each worker | `SupervisorPool` |
| `SupervisorLifecycle` | boot, channels, shutdown, exit | |
| `PortRange` | the port arithmetic of `WorkerPool::new` and `start` | |
| `Backoff` | the wait before a restart, with its 64-bit overflow | |
| `MC*` | instances of these for TLC | |
| `*_proofs` | theorems (section 5) | |

### 2.1 `L0Worker`

JavaScript runs one macrotask at a time. An action is one macrotask and the
microtasks it leaves behind: every `await` inside it waits for a promise that is
already resolved (`eventStore.record` does no I/O). `Accept` is therefore the
whole of `executeTaskWithEvents` up to the executor's first suspension, and
`Settle` the way from the executor's outcome to `[DONE]`, the recording and the
`finally` block included.

| Variable | Code |
|---|---|
| `state`, `cap`, `slots` | `WorkerStateMachine._state`, the limit (configuration and slot manager change it in one macrotask), keys of `SlotManager.slots` |
| `req`, `connected`, `stream` | where each submit request stands, whether its client still reads, what was put on its stream |
| `log` | `MemoryEventStore.events`; an event carries the request whose run it belongs to, as the code's carry a timestamp; `RunLog` picks one run's events out of it |
| `armed`, `aborted` | drain timers that are set, controllers that were aborted |
| `drain`, `stdout`, `proc` | the `waitForDrained` calls, the lines for the supervisor, the process |

Two deployments differ in one place that matters: `controller.enqueue` of the
standalone server throws once the client has cancelled the stream, `res.write`
of the serverless handler does not (`EmitThrows`). An L0 lifecycle event for a
client that is gone either changes nothing (if the L0 runtime swallows what its
listener throws) or fails the run, which is `Fail`.

The L0 runtime and the providers are external: a run may emit a first token at
any moment its kind of order allows, succeed, fail, or never answer.
`TASK_PROGRESS` with stage `FIRST_TOKEN` is called `FIRST_TOKEN`; no other stage
is ever emitted, for the executor never calls `onToolCall`.

### 2.2 `SlotPool`

The slot manager's promise: a slot is handed out only below the limit in force
and never twice, the limit may move anywhere from 1 on, nobody loses a slot by
it. `L0Worker` implements it with `held <- slots, limit <- cap`; TLC checks this
(`SlotPoolSpec`) and TLAPS proves it.

### 2.3 `MonotonicClock`, `EventStore`

`wall` is `Date.now()`, moved anywhere at any time; `last` is `lastTimestamp`.
`keys` is the insertion order of the store's `Map` and `log` its values;
`maxTasks` is the store's option. `told` is a history variable: everything that
was recorded since the process started. `phase` says how far the run of a task
is. Stamping, emitting and recording one event are one turn of the event loop
(`Tell`); a run that loses its client (`Lose`) has stamped an event and recorded
none. `Forget` is a new process: nothing is persisted.

### 2.4 `Auth`, `WorkerApi`

A handler is a sequence of checks whose first failing member decides the answer,
in the code's order (`Outcome`), and an effect if none fails. `Serverless` and
`Standalone` hold the two sequences of every endpoint; `Answer` takes the one of
the deployment. The effects are shared, for the code shares them
(`VercelWorker`). `env` is what `loadConfig` reads; `limit` counts in halves, for
the schema admits a limit of 1.5. `reply` is what the last handler answered and
is no part of the worker. A replay is two actions: `Replay` finds the task
(`canReplay`), `AnswerReplay` reads the log, whatever happened in between.

A signature is the triple it was computed for.

### 2.5 `OrderExecution`, `RunView`

`calls` are the streams built so far (text and JSON), or the operations of a
race or a fanout. A token is the number of the call it belongs to, so `content`
says whose tokens were collected in which order. `object` is the call that
`streamObjectResult` refers to. What a stream's text is like (`form`): the
provider's own object resolves, it does not but the text is JSON, or it is
prose. `Return...` and `GiveUp` are the ends of `executeOrder`; `ClassifyError` is
the worker's reading of what was thrown, a set of words in a message.

`JSON.parse` reads all of `content`. If that is the text of one stream that
ended, `form` says whether it parses; what several streams have said, or one
that broke, may parse or not (`MayParse`, `MayNotParse`: a stream resumed in the
middle of an array, `[1,` and then `2]`, white space before a retry). The JSON
returned is modelled by the set of streams its text comes from.

`RunView` is what `L0Worker` takes for granted of a run: which kinds report a
first token, when, and how often. TLC checks that `OrderExecution` implements it
and TLAPS proves it, so the two models of a run fit together.

### 2.6 `SupervisorPool`

The write lock is held across every await of an operation, so an operation is
one action; processes move between actions. The health round is the exception:
it asks one worker after the other over HTTP and may last for seconds, so it is
split into `HealthBegin`, `HealthOne` per worker, `HealthEnd`, `RestartOne` per
worker and `RestartsDone`; while it lasts (`round # "idle"`) no other operation
starts, and processes go on crashing, answering and printing.

The table is `wstate, pidOf, portOf, failures, unhealthy, due`; an id without an
entry is `"absent"`. `due` is the set of failed workers whose `restart_at` has
passed: its length is in `Backoff` only, that it passes is `TimePasses`.
A process is `os, owner, listen, lines`: `lines` holds the structured lines it
printed and the supervisor has not handled, in the pipe or in the event channel.
`exits` holds the `Exited` events of `Worker::wait`, which only a restart by the
API calls while the pool runs.

A port that another live process holds makes `Bun.serve` throw, so `ProcReady`
waits for it to be free and `ProcCrashes` is the other outcome. SIGTERM kills a
process that has no handler yet. After `terminate()`, 100 ms, and `kill()` a
process has printed none, one or both of its drain lines (`LastWords`).

An API client that disconnects has its handler dropped at the await it stands
at. A drain dropped in `terminate()` is `DrainAbandoned`; a kill or a restart
dropped before it spawns leaves the table as it was and the process draining,
drained or dead, which the process steps do anyway. A restart dropped while it
waits for room on the pool channel would leave two entries with one port; the
model gives that channel room (its reader only logs and broadcasts).

### 2.7 `PoolEvents`

The actions of `SupervisorPool`, each joined with the `PoolEvent`s it sends about
one worker. `spent` is what a listener counts: the restarts it was told of since
the worker was last healthy.

### 2.8 `SupervisorLifecycle`

`main()` from its first spawn to its end, in either of two ways: `"exited"` after
a shutdown, `"aborted"` by an error of the boot (a spawn that fails, an API port
that is taken: `exit(1)`, the workers spawned so far left running) or by a signal
before `main()` listens for it.

A member of `Worker` is one process. `known` is the set of processes the pool's
table has an entry for and `failed` those of them it takes for failed. The two
come apart from what runs: a restart whose spawn fails loses the entry, and an
`Exited` handled late is about whichever process has its id by then, so the
messages in `events` tell the `Exited` of each process apart and `Restart`
renames them. `shutdown()` terminates, kills and reaps `known`, nobody else.

Every line a process prints is a message: those the pool acts on, the mode line
of the boot, whatever else is written to stdout or stderr (`ProcPrints`,
`ProcAsked`, at most `MaxTalk` of a process beside those it is asked for). `pool`
is a number of messages, `owed` what the holder of the lock has yet to send. A
signal drops the main loop, with what it was sending; an API handler that holds
the lock finishes first. `shutdown()` holds the lock until it returns; between
its return and the end of the process (`"leaving"`) a handler that was queued for
the lock gets it. The table's other details are `SupervisorPool`'s: here a
health check or an event may change `failed` in any way the code could.

## 3. The runs

`tlc -workers 2 -config <run>.cfg <module>.tla`

| Run | Module | Expect | Distinct states | What it asks |
|---|---|---|---|---|
| `worker_standalone` | `MCL0Worker` | pass | 285 000 | slots, logs, streams, last line, `SlotPool`, shutdown ends |
| `worker_vercel` | `MCL0Worker` | pass | 254 000 | every run that is over is on record, drain announced once, nothing taken after it, every run ends |
| `worker_disconnect` | `MCL0Worker` | violation | | the outcome of a run whose client left the standalone server |
| `worker_drain_request` | `MCL0Worker` | violation | | tasks after a drain request |
| `worker_api` | `MCWorkerApi` | pass | 135 000 | timestamps, what the store keeps and forgets, output hashes, status codes of both deployments, verdicts of replays |
| `order` | `MCOrderExecution` | pass | 6 500 | what is collected, whose JSON is returned, `RunView` |
| `pool` | `MCSupervisorPool` | pass | 1 325 000 | table and processes agree, when spawns succeed |
| `pool_recovery` | `MCPoolEvents` | pass | 82 000 | crashes noticed, hung workers replaced, failed ones restarted, the budget kept; spawns may fail |
| `pool_orphan` | `MCSupervisorPool` | violation | | two processes on one port after a failed restart |
| `lifecycle` | `MCSupervisorLifecycle` | pass | 245 000 | comes up or gives up, goes down if there is room for the `Exited` events, leaves none of its table's workers running |
| `lifecycle_boot` | `MCSupervisorLifecycle` | violation | | more workers than the pool channel holds |
| `lifecycle_orphan` | `MCSupervisorLifecycle` | violation | | a spawn queued behind the shutdown |

Every property of a passing run has a mutant in `PROJECT.json`: a plausible bug
in one mapped definition with which TLC finds the property violated. The
operators marked "Mutant" in the modules exist for this and are used by no
action.

Nine more configurations are kept beside the runs, one for each further
disagreement of section 4. Each checks one property, written from the line of
the document or the test it quotes, and TLC finds it violated:

| Configuration | Module | Property | What it asks |
|---|---|---|---|
| `worker_replay.cfg` | `MCL0Worker` | `ReplayIsTheStream` | is a replay the stream of the task |
| `worker_offline.cfg` | `MCL0Worker` | `DrainedGoesOffline` | does a drained worker go OFFLINE |
| `worker_status.cfg` | `MCWorkerApi` | `StatusIsAsDocumented` | the fields of a status answer |
| `order_json.cfg` | `MCOrderExecution` | `JsonIsOfOneStream` | JSON made of the text of two streams |
| `pool_stale_line.cfg` | `MCSupervisorPool` | `CrashIsRepaired` | is a crashed worker restarted when a line comes late |
| `pool_lost.cfg` | `MCSupervisorPool` | `RestartsLoseNobody` | a restart whose spawn fails |
| `pool_drained.cfg` | `MCSupervisorPool` | `DrainedIsNotFailed` | a drained worker that a health round finds gone |
| `lifecycle_chatty.cfg` | `MCSupervisorLifecycle` | `ShutdownAlwaysEnds` | workers that fill the event channel during the shutdown |
| `lifecycle_lost.cfg` | `MCSupervisorLifecycle` | `ShutdownStopsAll` | a running worker that is no longer in the table |

### 3.1 Bounds, and why they are enough

- *Requests.* Three, two for one task id: enough for a duplicate, for a
  resubmission after the end, and for two tasks competing for a limit of 1. The
  three kinds of order each occur. A request is sent once; a retry is another
  request for the same task.
- *Limit.* It moves between 1 and 2 while up to two slots are held, so it falls
  below the number in use.
- *Timers.* The passing runs of the worker have drain timers, the serverless
  default and an option of the standalone server (`FUNCTION_TIMEOUT_MS`): a
  timer need not fire before the run ends, so without them there are only
  fewer behaviours (of the liveness properties, `EveryRunEnds` needs them).
- *`MaxL0Events`.* Lifecycle events are forwarded and not recorded: one or none
  per stream shows where they may stand.
- *Store and endpoints* (`worker_api`). Three ids, one of them `""`, against a
  store of two: one eviction, and the id that is never evicted. Four events are
  a run and another of the same task, or two runs that overlap with a third
  task. The clock reads 0 or 2 and an envelope is issued at 0, 1 or 2 with a
  life of 1 and a skew of 1, so it can be early, valid and expired. Each request
  fails one check of its handler, or two, or none; four deployments differ in
  preset, limit, secret and authentication. One replay is open at a time.
- *View of `worker_api`.* Timestamps are only compared: the view keeps their
  ranks, and of the last one whether the system clock can still be ahead of it.
  `reply` is left out: every action sets it and none reads it.
- *Orders* (`order`). Eight orders: each path, with and without fallbacks, with
  a model no provider has, a fanout wider than its `max`. Three calls are a try,
  a retry and a fallback; two tokens per call tell a repeated first token and
  a mixed content from a clean one.
- *Processes and ids.* Slots and ids are used again once nothing refers to the
  previous holder, so the pool's life is unbounded. Two ids and three slots let
  an old process, its successor and another worker be there together.
  `CanSpawn` keeps a slot back for every restart that is due, so the bound
  never stands in the way of a scheduled restart.
- *`MaxLines`.* It only stops *additional* `worker.draining` lines (SIGTERM may
  arrive any number of times); ready and drained lines are never held back.
- *`pool_recovery`* has one worker with two process slots, so that a process
  and its successor are there together, two restarts in its budget and two
  checks it may miss; its properties are about one worker at a time.
- *`MaxFailures`.* `failures` stops counting one above it: the code only asks
  whether it is above.
- *View.* The safety runs of the pool ignore the names of process slots and
  what is left in the fields of an absent id or of a free slot. No action and
  no property tells two such states apart. `pool_recovery` uses no view.
- *`pool_stale_line.cfg`* has one worker, one port and two process slots;
  `pool_lost.cfg` and `pool_drained.cfg` have the pool of the safety runs.
- *Channels and processes of the lifecycle.* `lifecycle` has two processes, one
  of them spawned at the start: a process and the one that replaces it or is
  added to it. `PoolCap` is 1 for one worker at the start (the code: 32, which is
  enough for 32 workers). `EventCap` is 3 and a process may print one line of its
  own beside the ready line and the two or three of its end, so the channel is
  full in some behaviours and has room in others: both sides of `RoomToReap`
  occur. No number of workers makes the real capacity of 100 safe, for a line of
  any kind takes a place; `lifecycle_chatty.cfg` shows it with a single worker, a
  capacity of five and three lines.

### 3.2 Fairness, and why the code justifies it

- `L0Worker`: timers fire; `waitForDrained` keeps polling; the L0 runtime
  rejects a stream whose signal was aborted (it is given the signal for that).
  Nothing is assumed of providers or clients, and no run ends by fairness alone.
- `SupervisorPool`: the main loop ticks and polls; every check has a timeout;
  delays pass. Handling a line and the passing of a delay are strongly fair,
  for a round in progress disables the one and a bound may for a while disable
  the other. Nothing is assumed of the processes: `HungIsReplaced` is about
  what the table says of one that hangs for good. `CrashIsNoticed` and
  `HungIsReplaced` assume `[]NoOrphans`, for a process no entry holds answers the
  checks of the worker whose port it has, and keeps it healthy; `NoOrphans` is
  proved while spawns succeed, and the run lets them fail, so both sides of the
  condition occur. `CrashIsNoticed` says that the entry leaves the states it was
  in, not that a new process comes: that is `FailedIsRestarted`. It assumes
  `[]NoOrphans` because a process no entry holds keeps one of the slots, and two
  conditions more: no line of a process that is gone will make its worker pass
  for draining (`~StaleDraining(w)`), and no scheduled restart whose spawn fails
  takes the entry off the table (`StaysInTable(w)`). Without the one it is false
  (`pool_stale_line.cfg`), without the other too (`pool_lost.cfg`). A restart by
  the API may fail: it counts against the budget, and so a client can use the
  budget up.
- `WorkerApi`, `OrderExecution`: safety only, no fairness.
- `SupervisorLifecycle`: the supervisor's own steps, with their timeouts.
  Nothing is assumed of the workers, the clients, or the signal. `ShutdownEnds`
  has the condition `[]RoomToReap`: whenever `Worker::wait` is about to send an
  `Exited` there is room for it. The code does not see to that, and without the
  condition the property is false (`lifecycle_chatty.cfg`).

### 3.3 Deadlock

The worker and the supervisor may stop (`process.exit`, the end of `main`) and an
order is executed once, so the runs of `MCL0Worker` and of
`MCSupervisorLifecycle` and `order` do not check for deadlock. The pool and the
endpoints never stop, and the runs of `MCSupervisorPool`, `MCPoolEvents` and `MCWorkerApi` do.

## 4. Where the code and the documents differ

Fourteen configurations show that the code does not do what a document, a
comment or a test says. Five of them are runs, and `PROJECT.json` quotes the
lines under `findings`; the other nine (`.cfg` below) are those of the second
table of section 3.

The worker:

1. *The outcome after a disconnect* (`worker_disconnect`). In the standalone
   server the first emit after the client left throws into the run; the error
   path's emit throws as well and nothing terminal is recorded. The replay that
   the whitepaper offers for this case yields an unfinished story.
2. *Replays are not the stream* (`worker_replay.cfg`). Events of the L0 runtime and
   `WORKER_DRAINING` are emitted and never recorded (`worker-instance.ts:187-190`,
   `:154`); the whitepaper says that every event is, and that a replay recovers
   the full event stream (`:81`, `:173`, `:387`, `:396`). What the Vercel handler
   does keep is the outcome (`OutcomeIsRecorded`).
3. *Nobody goes OFFLINE* (`worker_offline.cfg`). The drain timer's transition to
   `DRAINING` is the last one: the sixth step of the whitepaper's drain
   (`WHITEPAPER.md:358`, also `:147` and `:154`) is missing.
4. *Drain requests* (`worker_drain_request`). `/api/drain` and the signals
   leave the state machine alone: new tasks are taken, streams not aborted.
5. *Status answers* (`worker_status.cfg`). The standalone server says `inflight` and
   `uptimeMs` (`server.ts:153`) where the serverless handler (`api/status.ts:26`)
   and the whitepaper (`:425`) say `inflightTasks`.
6. *JSON of two streams* (`order_json.cfg`). `content` is never reset, and resumption
   is turned on for structured orders as well (`executor.ts:165`): what a stream
   that broke has said is parsed together with the text of the one after it.
   The whitepaper says that structured output is retried from scratch (`:329`).

The supervisor:

7. *A second process on one port* (`pool_orphan`). A failed restart by the API
   leaves an `Exited` event for an id that is then restarted; handled against
   the new process it fails a live worker, and the next restart doubles it. It
   takes a failed spawn and a health round longer than the restart delay.
8. *A crash that is not repaired* (`pool_stale_line.cfg`). A `worker.draining` line
   handled after the crash was found makes the entry pass for draining
   (`pool.rs:308`), where nothing looks at it again, against "backoff restart on
   failure" (`WHITEPAPER.md:561`).
9. *A worker that is lost* (`pool_lost.cfg`). A restart whose spawn fails takes the
   entry off the table (`pool.rs:610`), whatever is left of the budget: the same
   promise.
10. *Drained and failed* (`pool_drained.cfg`). A health round may find that a drained
    worker is gone before its last lines are handled and then calls it failed
    (`pool.rs:457`); `tests/integration.rs:1069-1070` rules that out.
11. *Boot* (`lifecycle_boot`). The pool channel's reader is started after
    `start()`, which sends one event per worker: 33 workers never come up.
12. *A shutdown without an end* (`lifecycle_chatty.cfg`). Nobody receives from the
    event channel during the shutdown, every line the workers print goes into
    it (`worker.rs:176`, `:189`), and the last step of `shutdown()` waits for room in
    it, after its deadline (`worker.rs:206`; `main.rs:52`, `WHITEPAPER.md:564`).
13. *A worker the shutdown does not know* (`lifecycle_lost.cfg`). The late `Exited` of
    7., and one more spawn that fails, and the table has no entry for a process
    that runs; `shutdown()` stops what is in the table (`pool.rs:651-690`).
14. *Exit* (`lifecycle_orphan`). A spawn or restart queued for the lock during
    the shutdown runs after it.

Differences that no run is about, met while modelling:

- `WORKER_READY` and `WORKER_OFFLINE` (`WHITEPAPER.md:151`, `:154`) are emitted nowhere.
- When a spawn fails in `start()`, the API's port is taken, or a signal comes
  before `main()` listens for it, the supervisor ends and the workers it has
  spawned go on (`pool.rs:219`, `main.rs:145-148`, `:217-220`). No document speaks
  of it; the model has it (`BootFails`, `SignalAtBoot`).
- `WorkerPool::new` looks at the last 16 bits of `worker_count - 1`
  (`pool.rs:151`): the panic its comment promises for an overflow does not come
  for more than 65536 workers. `StartPortsInRange` proves it right up to there.
- `pool.rs:730` says gaps from killed workers are reused; an entry keeps its
  port as long as it is in the table, and kill and drain leave it there.
- The task id `""` is never evicted and blocks every eviction once it is the
  oldest key (`memory-store.ts:29`).
- A drain timer's abort is classified `aborted`, with `retryable: false`, while
  `WHITEPAPER.md:360` says the orchestrator can retry such a task elsewhere.
- An order's `when` for fallbacks is read by nobody; with `output: "json"` a race
  returns text; a fanout all of whose models failed completes.

## 5. What is proved

TLAPS checks every statement of this section for every value of the constants
that the named assumptions allow. The assumptions are about parameters only, and
TLC evaluates them in every run.

### 5.1 The worker

`L0Worker_proofs` and `L0WorkerStory_proofs`, checked by TLAPS for every value of
the constants that `ConstantsAssumption` allows, infinite sets of requests and
tasks included:

| Theorem | Statement |
|---|---|
| `TypeCorrect` | `Spec => []TypeOK` |
| `SlotsAlwaysRuns` | `Spec => []SlotsAreRuns` |
| `RunsNeverInterleave` | `Spec => []RunsDoNotInterleave` |
| `DrainingTakesNone` | `Spec => DrainingTakesNoTask` |
| `Refinement` | `Spec => SlotPoolSpec` |
| `StoriesStayWellFormed` | `Spec => []RunLogWellFormed` |
| `StreamsMatchTheLog` | `Spec => []StreamMatchesLog` |
| `StayingClientsSeeTheEnd` | `Spec => []StayingClientSeesTheEnd` |
| `DrainsAreAnnouncedOnce` | `Spec => []DrainingAnnouncedOnce` |
| `DrainedLinesAreHonest` | `Spec => []DrainedLineIsHonest` |
| `VercelOutcomesAreRecorded` | `Deployment = "vercel"` implies `Spec => []OutcomeIsRecorded` |

The last needs its hypothesis: in the standalone server the property is false, as
`worker_disconnect` shows.

*Slots and logs* (`L0Worker_proofs`). The inductive invariant is the conjunction of `TypeOK`, that the slots in use
are finitely many, `SlotsAreRuns`, `LogOwned` and `RunsDoNotInterleave`.
`SlotsAreRuns` is inductive given the types: a run starts only with a task that
has no slot, hence with a task of which no run is in progress, and ends only by
`Finish`, which frees the slot of its task and of no other run's, for running
requests have different tasks. `RunsDoNotInterleave` is not inductive: that a
run which appends to a log finds there only ended runs' events and its own
needs both `SlotsAreRuns` (nobody else runs that task) and `LogOwned` (an event
in a log belongs to a request for that task that was accepted). `StepKinds`
reduces every action to one of four effects on slots, requests and logs: a run
starts, a run ends, a run goes on, nothing changes; the invariants are proved
over those four.

The refinement needs that finiteness only because a `Cardinality` below the
limit has no meaning for an infinite set.

*Stories, streams and lines* (`L0WorkerStory_proofs`). `WorkerInv` is the
invariant above with four more parts:

- `StoryInv`: `RunLogWellFormed`, `StreamMatchesLog` and `FirstTokenIsStreamed`. The
  first is not inductive: a race emits a first token together with its end, which
  is well formed only if none was emitted before, and that is `FirstTokenIsStreamed`
  (a run that is not read token by token has told one event so far). For a run
  that is read token by token `BeforeFirstToken` shows that the code's flag
  answers the same question as the log.
- `ClientInv`: a client leaves only after the worker has answered, timers are those
  of runs in progress, the stream of a run in progress holds no terminal event
  and no `[DONE]`, and `StayingClientSeesTheEnd`. The first is why the acceptance,
  which is recorded, is also sent; the third why the end is told once.
- `AnnounceInv`: at most one stream holds the announcement, once, and only if the
  worker is draining; every event on a stream is its own request's. The code
  has no such counter: only the timer that moves the state machine to `DRAINING`
  announces, and nothing moves it back.
- `DrainedLineIsHonest` needs that as many slots are in use as runs are in progress:
  `TaskOf` is a bijection from the one to the other by `SlotsAreRuns`
  (`AsManySlotsAsRuns`), and so the runs are finitely many even if the requests
  are not.

`StoryKinds` reduces the steps to nine kinds by what they send, what they record
and where their request stands then (`Told`); each invariant is proved over
these. `StoryKept` says once what such a step does to the stories, and
`TaleBegins`, `TaleGoes`, `TaleEnds` and `TaleStops` how a story may grow.

A story is picked out of a log that the runs of a task share, by `Only`, which
does what `SelectSeq` does but as a recursive function: a definition the provers
can look into. That it passes concatenation, keeps the order, and takes all or
nothing where it should is proved by induction over sequences (section 6).

### 5.2 The pool

`SupervisorPool_proofs`, for every value of the constants that `PoolAssumption`
allows: any finite set of ids, any set of process slots, any range of ports.

| Theorem | Statement |
|---|---|
| `TypeCorrect` | `Spec => []TypeOK` |
| `PortsAlwaysUnique` | `Spec => []PortsUnique` |
| `NeverOrphans` | `~SpawnMayFail` implies `Spec => []NoOrphans` |
| `AlwaysDownMeansDead` | `~SpawnMayFail` implies `Spec => []DownMeansDead` |
| `AlwaysOneProcessPerPort` | `~SpawnMayFail` implies `Spec => []OneProcessPerPort` |

The last three need `~SpawnMayFail`: with failing spawns they are false, as
`pool_orphan` shows of `OneProcessPerPort`.

- `TypeOK` is not inductive: that a health round leaves no failed-but-due worker
  in another state needs `TodoFits` (while checking, `todo` holds starting or
  healthy workers; while restarting, failed ones). `Base` is both. That
  `NextPort` is a port at all is `LowestPort`, from the well-foundedness of `<`;
  that a spawn has a slot to take is `FreePidExists`, from `CanSpawn`.
- `PortsUnique` is inductive given `Base`: only two actions name a port. A new
  worker takes `NextPort`, which no entry names; a replacement takes the port of
  an entry that goes (`PortsAdded`). All others add no entry (`PortsKept`), and
  a restart that `RestartOne` makes is one of an entry that stayed.
- `Sound` is `NoOrphans`, `DownMeansDead` and `ExitsAreOfGone`, which need one
  another. A restart overwrites the process of an entry, so it orphans one
  unless failed means dead; failed means dead unless an old `Exited` event is
  handled against a live entry; and a queued `Exited` event is for an id without
  an entry, because the restart that queued it removed that entry in the same
  operation, unless its spawn failed. That last clause is exactly what breaks
  when spawns fail. `SoundKept` covers the actions that end processes and begin
  none, `SpawnSound` the two ways of spawning under a new id.
- `OneProcessPerPort` follows: two live processes belong to two entries
  (`NoOrphans`), and two entries have two ports.

### 5.3 What the pool tells

`PoolEvents_proofs` proves `BudgetAlwaysKept`: `EventSpec => []RestartBudgetKept`,
spawns failing or not. The property is about what a listener counts (`spent`);
what bounds it is what the pool counts (`failures`), and the two differ: a
restart by the API is counted and not told. `Accounts` relates them. A listener
never counts more than the pool, and strictly less where a worker is failed, so
one more restart can be told; while due restarts are carried out, none of the
workers on the list has used up its budget.

### 5.4 The store and the endpoints

`WorkerApi_proofs` with the lemmas of `EventStore_proofs`, for
`StoreAssumption`, `ClockAssumption`, `AuthAssumption` and `ApiAssumption`: any
set of task ids, any limits, settings, secrets and clock readings.

| Theorem | Statement |
|---|---|
| `TypesHold` | `Spec => []TypeOK` |
| `StampsAlwaysOrder` | `Spec => []StampsOrderEvents` |
| `LogsAreLatestParts` | `Spec => []LogIsLatestPart` |
| `StoreStaysBounded` | `Spec => []StoreBounded` |
| `OldestAlwaysGoesFirst` | `Spec => OldestGoesFirst` |
| `HashesAlwaysAgree` | `Spec => []HashesAgreeUnlessRerun` |
| `StatusCodesAlwaysAgree` | `Spec => []StatusCodesAgree` |
| `ReplaysJudgeLatest` | `Spec => ReplayJudgesLatestRun` |
| `ValidIsFreshAndSigned` | `validateAuth` answers "valid" only inside the window and, with a secret, for the right signature |

- `StoreInv` is the store's types, `StampsOrderEvents`, `LogIsLatestPart`,
  `StoreBounded` and `KeysInOrder`: the keys stand in the order in which their
  logs began. The last is why evicting the first key is evicting the oldest
  log, and why recording an event, which always carries the latest timestamp,
  keeps the order.
- `ApiInv` adds the types of the endpoints and what an instance that does not
  exist yet looks like: with `StoreInv` it is inductive.
- `HashesAgree` is a lemma about any log that is the last part of what was
  told: two events at different places with one property are one if at most
  one such event was ever told.
- `HandlersDoAgree` needs no state at all: the checks of the two deployments are
  compared for every request. What differs (no instance yet, requests from the
  same machine, the drain endpoint that only one of them has) is excluded by the
  property, which says so. It is about status codes; the bodies of a status
  answer differ (`worker_status.cfg`).

### 5.5 The executor

`OrderExecution_proofs`, for `OrderAssumption`: any set of orders, chains of
fallbacks of any length, any number of models, any bounds on retries and tokens.

| Theorem | Statement |
|---|---|
| `TypesAlwaysHold` | `Spec => []TypeOK` |
| `AllIsCollected` | `Spec => []CollectedIsDelivered` |
| `LastStreamIsPreferred` | `Spec => []JsonPrefersLastStream` |
| `ViewIsImplemented` | `Spec => RunViewSpec` |

`OrderInv` is `TypeOK`, the two properties and `Calling`: in a text or JSON
order every stream but the last is broken, a stream whose text is not prose has
text, the object that is awaited is the last stream's unless that one broke, and
the operations of a race or a fanout stand at their models' places.
`CollectedIsDelivered` rests on `OnlyLastIsOpen`: a token can only be the last
stream's, so the streams' numbers never decrease in `content`, and the last
stream's count is the only one that grows (`TokenCollected`). `JsonPrefersLastStream`
rests on `SaidIsCollected`: what the code parses when no object resolves is all
that was collected, which is the last stream's text exactly if no earlier stream
said anything. What mixed text parses to is left open, so nothing is said of
it but that it takes an earlier stream's text and a last stream without object. `Classified` shows that every set of words a message can contain
gets one of the eight error classes.

### 5.6 The port range and the back-off

`StartPortsInRange` of `SupervisorPool_proofs`, about the operators of `PortRange`: if `WorkerPool::new` accepts a configuration of at
most 65536 workers, `start` gives worker `i` the port `base_port + i`, all of them
different, none above `max_port`, and the 16-bit sum does not wrap. `PoolAssumption`
takes this of `StartPort`.

`RestartDelayDoubles`, about `Backoff`: the wait before a restart
(`pool.rs:625-636`) never exceeds `max_restart_delay`, never shrinks while
failures mount, and is `restart_delay * 2^(failures-1)` cut off at the maximum
as if nothing could overflow. The last holds unless `restart_delay` is zero: then
the wait is zero up to 64 failures and `max_restart_delay` from the 65th on,
because the power alone overflows. `Pow2Unfolds` shows that the recursive
`Pow2` is what its definition says; the rest is arithmetic.

### 5.7 The supervisor's life

`SupervisorLifecycle_proofs`, for `LifecycleAssumption`: any finite set of
processes, any capacities, any number of lines, any faults.

| Theorem | Statement |
|---|---|
| `TypeCorrect` | `Spec => []TypeOK` |
| `ShutdownAlwaysStopsItsWorkers` | `Spec => ShutdownStopsItsWorkers` |
| `UndisturbedShutdownStopsAll` | without failing spawns and restarts dropped for want of room, `Spec => ShutdownStopsAll` |

`LifecycleInv` adds to the types that the holder of the lock owes at most two
events before a signal (`Signal` adds one), and that none of the table's workers
runs while the shutdown reaps: the deadline kills the rest, and a spawn needs the
lock that `shutdown()` holds. The last theorem needs `TableInv` as well: a process
that runs is in the table, an unhandled `Exited` is of no process that runs, and
so none that runs is taken for failed. Its hypothesis `NothingLost` is what
`lifecycle_lost.cfg` lacks. `NoWorkerOutlivesSupervisor` is not provable, for the lock
is released before the process ends (`lifecycle_orphan`).

## 6. What is model-checked only, and what is not modelled

*Liveness* under fairness is outside TLAPS's reach, as `ENABLED` is, and stays
with TLC: `DrainEnds`, `EveryRunEnds`, `CrashIsNoticed`, `FailedIsRestarted`,
`HungIsReplaced`, `BootEnds`, `ShutdownEnds`. Every other property of the passing
runs is stated by a theorem. `RECURSIVE` operators are out of reach too; no module
declares one.

*Induction over data.* The library's induction theorems take the predicate as an
operator, which the installed provers cannot instantiate. `NatSetInduction` and
`SeqSetInduction` of `L0WorkerStory_proofs` take it as a set: a set of sequences
over `S` with the empty one and all one-element extensions of its members holds
them all. The first is proved from the well-foundedness of `<`, the second from
the first. This suffices for recursive functions, as `PickExists` and the lemmas
about `Only` show. `InductionOnSets` of `SupervisorPool_proofs` is the first again, for `Pow2`.

*Not modelled*, with the reason:

- `clearTask`, `clear` of the store and the `onToolCall` callback: nothing calls
  them.
- Mapping of tools, options and providers, the messages built from an order and
  the hash of an output: conversions without state. One consequence is worth
  knowing and is no property of a state: `buildMessages` (`executor.ts:532-542`)
  takes `messages` whenever there is an array, so `messages: []` hides the
  prompt.
- A fallback's `when`: nothing reads it.
- Time: `SupervisorPool` lets a delay pass at any time (`TimePasses`), so no
  property of the pool depends on the length that `Backoff` computes.
- The SSE stream (`api.rs:253`): a listener that lags loses events, which the
  handler skips; `PoolEvents` is about what is sent.
- `all_workers_healthy` (`pool.rs:300`) and the read-only endpoints of the
  supervisor: they report the table and change nothing.
- `WorkerPool::run` and `wait_for_healthy`: the binary calls neither.
- In `SupervisorPool`, a restart dropped while it waits for room on a full pool
  channel (`SupervisorLifecycle` has it, by its effect on the table), and a health
  round dropped halfway by a signal.
- The order in which the results of a fanout arrive: `outputs` is filled by
  place, so it makes no difference to what is returned.
- A worker that hangs while it starts or drains is never counted by
  `pool.rs:508`: the model has the behaviour, and no document promises
  otherwise, so there is no property to state.

## 7. Plan

Done so far, in this order: the worker, the pool, the supervisor's life, the store
with the endpoints, the executor, the pool's events, the port range, the
back-off; and the proofs of each. Left:

1. The pool channel inside `SupervisorPool`, so that a restart can be dropped
   between its two changes of the table.
2. The SSE stream, as a bounded broadcast channel between `PoolEvents` and a
   listener that lags.
