# thread-phase: specification and verification

thread-phase runs pipelines of phases as jobs: a job is a row of a SQLite
table, its events are rows of an append-only log, a runner claims the row and
drives the pipeline, triggers start jobs, and an SSE bridge follows the log of a
job for a client. Phases call agents: programs, services and models behind one
event protocol. This directory holds TLA+ models of its concurrent parts, the
TLC runs that check them and TLAPS proofs of their most important properties.

Paths below are relative to `src/packages/thread-phase/src/` unless they name
another package. `PROJECT.json` maps every definition to its source lines.

## 1. The system

| Component | State | Operations | Interacts with | Hard because |
|---|---|---|---|---|
| job store `session/sqlite-job-store.ts` | the `job` and `event` tables, the schema version | open and migrate, create, acquireExclusive, setRunning, heartbeats, set*/finalize*, stale variants, appendEvent, reads | every process that opens the file | one file, many processes and builds; times in whole seconds |
| job runner `session/job-runner.ts` | inflight runs: termination cause, abort, claim, request, timers | run/start, cancel, heartbeatAsOperator, reconcileAbandoned | store (awaited calls), orchestrator, its listeners | everything may happen at every await; crashes; time-outs |
| SSE bridge `session/sse.ts` | cursor, live buffer, flags | streamToSSE, live listener, poll | store reads, runner's live events, the socket | three sources of the same rows, two writers |
| triggers `triggers/` | inflight map, aborted; generator state | runTrigger, stop, cancel; start/stop of a trigger | runner or orchestrator | backpressure, stop and cancel at any moment |
| hooks and schedules `helpers/` | queued requests and their repliers, the shared HTTP server | hook, schedule | triggers | replies race stop, failure and close |
| command line `thread-phase-cli/src/cli.ts` | handles of the loops | serve, shutdown | triggers | loops block, wait or fail when the signal comes |
| orchestrator `orchestrator.ts` | position in the phases | runPipeline | phases, ctx.signal, the log | abort at phase boundaries, resume by checkpoint |
| patterns `patterns/` | shared index, results, first error; queues and wake-ups of branches | boundedFanout, boundedFanoutOf, parallelPhases, withRetry, whileCondition, match, intentGate, subPipeline | phases, signal | workers, retries, fail-fast |
| pipeline cache `cache.ts` | store and pending maps | getOrFetch, set, clear, namespace | phases that run side by side | fetches outlive what started them |
| agent protocol `agents/` | lazy run, event queue, turn accumulator, memory | events, result, abort, follow-ups, withMemory | adapters, event buses | starts lazily, ends once, whatever fails |
| provider adapters `thread-phase-agents/src/` | one run each | translate a stream or a child's output | services, child processes | error, abort and end meet |
| ACP transport and adapter `.../acp/` | pending requests by id, follow-ups | initialize, session, prompt, cancel | child process, both ways | answers, exit and cancel race |
| child supervision `agents/authoring/supervise-child.ts` | timers, exit promise | kill escalation | operating system | a child that does not die |
| agent runner, compression `agent/`, `context/` | message history, rounds, attempts | tool loop, retry, compression | model provider | messages dropped between call and result |
| agent event bridge `agents/job-store-bridge.ts` | chain of appends, failure batches, barriers | append, flush, close | store, observers | observers that call back into the bridge |

A run's life: `create` or `acquireExclusive` makes the row; `run` claims it
(`setRunning`, an owner id per run), drives `runPipeline` and appends its events;
a heartbeat keeps the row alive; `finalizeJob` writes status and event in one
transaction. `reconcileAbandoned`, in any process, ends rows that went silent.

### What makes each part correct

- store: at most one terminal transition, never undone; an owner is never
  replaced; exclusive rows are alone; the log agrees with the rows; recovered rows
  are not abandoned. However many processes open it, whichever build they are of,
  each gets its own schema or a reason why not.
- runner: a job is executed under one claim; accepted cancellation is honoured;
  resources are drained once and first; the caller's answer agrees with the row;
  `run` settles; a dead process's row is recovered.
- SSE: frames ascend without gap or repetition, none follows the end, and the
  stream of an ended job is closed.
- triggers: the cap is respected and never deadlocks, no event but a last one is
  missed, none is dispatched twice or out of order, `done` comes last, a cancel that
  comes while the job row is being created holds, a hook's request is answered, the
  shared server closes with the last of its hooks, serve can be shut down.
- pipelines: a phase is recorded only when its work was done, a resume runs all
  the rest, ctx.stop halts, a phase ends behind all its branches, a fanout runs
  each item as often as it may and never resolves over an error.
- cache: one fetch per key, shared while it runs, rejections not kept.
- agents: `agent_end` comes once and last, an error end was told of, an aborted
  run ends, no child outlives its run, tool calls are counted to their turn and
  sent with their results, accepted follow-ups are sent, `result` resolves.
- event bridge: a barrier covers what was accepted before it and settles.

`PROJECT.json` lists the hazards behind these, each at its line. Hazards that
are real and no property is about: `setAbandoned` logs no event, so a stream does
not learn of it (`session/sqlite-job-store.ts:525`); while a client is slow every
poll buffers the same rows again (`session/sse.ts:168`); an interval above 2^31-1 ms
makes setTimeout fire at once (`triggers/timer-trigger.ts:134`).

## 2. The modules

| Module | Models | Notes |
|---|---|---|
| `JobSlots` | the abstract promise of the store | names as slots, at most one holder and outcome per job |
| `JobStore` | the two tables and each call | a call is one SQL statement or transaction, hence one action; its WHERE clause is the guard |
| `StoreOpening` | constructor and migrations, several openers of several builds | transactions are steps of their own here, since migration is about who holds the lock when |
| `OpenedStore` | both machines of a database | see below |
| `JobRunner` | runs, cancellation, heartbeats, crashes, reconciler | EXTENDS `JobStore` and uses its actions as the effect of each awaited call |
| `Sse` | one `streamToSSE` call over a log | the job itself is reduced to appends |
| `JobHost` | a process that runs jobs and streams them | EXTENDS `JobRunner` and `Sse` and explores one at a time (`streaming`): a stream only reads, no run waits for one, and `Sse` leaves open what is appended and when |
| `TimerTrigger`, `CronTrigger` | the generators of timer events | |
| `RunTrigger` | `runTrigger` | over `TimerTrigger`; generator and loop hand control to each other |
| `Hook` | a hook's trigger, requests, phase and its share of the servers, beside another hook | over `RunTrigger`; a hook keeps the server it was constructed with, and `shared` may be a newer one |
| `Serve` | any trigger, alone or served by the command line | EXTENDS `Hook` and `CronTrigger` |
| `Batch` | the abstract promise of a fanout | items claimed in order by a bounded number of workers |
| `BoundedFanout`, `FanoutOf` | the two fanouts over shared workers | both implement `Batch` |
| `Pipeline` | `runPipeline`, its consumer, and each pattern as a wrapper of a branch | EXTENDS the fanouts; a life ends with the pipeline or its process, the next resumes from the log |
| `PipelineCache` | the two maps of the cache | a sub-cache is a set of keys |
| `CachedPipeline` | a pipeline and its `ctx.cache` | EXTENDS `Pipeline` and `PipelineCache` and explores one at a time (`caching`): `runPipeline` does not look at the cache, nor the cache at who calls it |
| `AgentRun` | the abstract promise of an adapter's run, as `agents/protocol.ts` states it | what its owner and its consumer see |
| `AgentCall` | lazy start, queue, abort, turn accumulator | the part adapters share |
| `StreamAgents` | anthropic, codex, pi | kinds of one run |
| `ChildAgents` | codex-cli, claude-code, `superviseChild` | |
| `AcpAgent` | the ACP transport and adapter | over `ChildAgents` |
| `AgentRunner` | the inference adapter: tool loop, retries, compression | |
| `Thread` | a thread's messages | pure operators |
| `WithMemory` | recall and remember around any run | |
| `JobStoreBridge` | the bridge that persists a bus | |
| `Agents` | one run of any kind, or a bus with its bridge | composes the seven above; `Conforms` says which adapters keep all of `AgentRun` |
| `JobStoreProofs`, `StoreOpeningProofs`, `JobRunnerProofs`, `RunTriggerProofs`, `SseProofs`, `PipelineCacheProofs`, `PipelineProofs`, `AgentsProofs` | theorems | section 4 |
| `MC...` | instances for TLC | |

Definitions marked "Mutant" in a module are faulty variants of the definition
that follows them, used to see that each checked property can fail; no
specification uses them.

### Granularity

JavaScript runs to the next await without interruption, so the code between two
awaits is one step, and so is an awaited store call with what its caller does on
resuming. Everything else may happen in between. Calls of different processes
interleave freely.

- **JobStore.** One variable per column. `now` counts ticks; `StoredTime` rounds
  down to a second (`TicksPerSecond` ticks), as `datetime()` does. `beatAt` is a
  history variable with the time before rounding. The event log is one sequence,
  a row's id its position.
- **StoreOpening.** `openers[p].pc` is the statement an opener is at; `locked` is the
  version it read inside its transaction and `observed` the one its loop knows. A
  process may die anywhere, and its transaction is rolled back. `slot` says
  whether the exclusivity column and index are there as expected; somebody may
  change it by hand (`MaxEdits`). `OpenedStore` explores one of the two machines at a
  time (`opened`): a call of the store needs a store that is open, and a migration of
  a newer build does not change what the modelled calls do.
- **JobRunner.** `run[r]` holds what `run()` keeps in locals and in its inflight
  entry; `pc` names the await it is at. `faults` bounds the store calls that
  reject; a rejected call has no effect, except that a refresh that timed out may
  be applied later (`LateBeat`); the refresh a phase awaits times out likewise. `scan` is the reconciler. The pipeline is its
  interface: it emits, throws, notices an abort or ends, and phases may ignore
  the signal.
- **Sse.** Each write is two steps (the compare with `lastId` and the assignment
  after backpressure). `here` says which of the runner and the reconciler
  live in the streaming process and so produce live events; `Placements` lists the
  sets it may be.
- **Triggers.** `genPc` is where the generator is, `loopPc` where the loop is.
  `options` are those of the call, one of `Options`; inline and persisted dispatch
  differ in the `creating` state. In `Hook`, a request's event id is its place in the queue,
  `requests` says how it was answered and `phases` where its pipeline's phase is;
  the other hook is the rest of the servers' users. `own[h]` is `this.shared` of a hook and
  `http.shared` the variable of the module: `stop()` counts the routes of the one and
  closes the other. `serve` is where cmdServe is, whose hooks are all constructed before
  any server is closed. `signalled` are the dispatches whose run has an aborted signal:
  a cancel before the run exists reaches it through the signal that is chained.
- **Pipeline.** `pos` is where `runPipeline` is, `branches[b]` where the generator of a
  branch is, with its stack of wrappers; a leaf emits, returns, throws or stops
  at will. `queue` and `suspended` are the events between branches and the
  consumer. `logged` are the `phase_complete` rows that were stored, `full` and `life` history.
- **Fanouts.** `workers[w]` is the await a worker is at and its item, `cursor` the shared
  index. A callback that throws is an outcome of the step that calls it.
- **Agents.** `pc` is the await of the adapter's `runOnce`, `child` the process and
  what it was told, `emitted` a summary of the bus: first and last event, counts
  of starts and ends, tool calls and the turn that claims them. What the outside sends is chosen freely from
  kinds of events. `acp.request` is the request in flight, and `acp.late` counts the follow-ups that handlers of
  `agent_end` make, before the run has set its flag. `loop` holds the
  messages as roles and call ids, so that the pairing of calls and results is kept
  and texts are not.
- **JobStoreBridge.** `bridge` has the queue, the failure states and the barriers of
  the two kinds of failures; an observer is at one await of its invocation, which may be a `flush()` or a `close()` of
  the same bridge.
- **PipelineCache.** A fetch is running, resolved or rejected; a throw before the
  first await runs `finally` before the promise is registered.

## 3. The runs

| Run | Question | Bounds and why they are enough |
|---|---|---|
| `store_calls` | do the store's guards hold up against every call order, does the store implement `JobSlots`, is rounding safe? do racing openers of two builds end with their schema or a reason? | 2 jobs of one name, 2 owners, 1 free log row: every guard relates at most two rows and two owners. 2 ticks a second and a clock of 2 ticks, so that times within one second and across its end are compared; every cutoff. 3 openers, one newer by a version, exclusivity in the second of three migrations, 1 change by hand: before, between and behind |
| `runner_lifecycle` | two runs of one job in two processes | 1 event per pipeline, 1 store fault, crashes; a clock of 2 ticks, the fewest in which a run that has heartbeated is abandoned; behind its first tick a failing store call is the last step that is looked at (`FaultBeforeClock`) |
| `host_liveness` | does `run` settle, is an orphan recovered? is a stream complete and closed, wherever the job runs? | 1 run, clock of 3 ticks, 1 fault; a stream with runner and reconciler both here or both elsewhere, and logs of 4 rows: enough for a row in replay, catch-up, live and poll each, and for appends behind the end |
| `runner_overlap` | violation: overlapping runs are impossible | 2 exclusive jobs, clock of 2 ticks |
| `sse_split` | violation: the stream is closed when the run is here and the reconciler elsewhere | logs of 3 rows |
| `trigger_loop` | cap, order, stop, cancel, no deadlock at a cap of 0, answers of a hook, shutdown of serve | 3 events; a cap of 2 with job rows (two in flight, one waiting) and a cap of 0 with inline pipelines; 2 requests (one dispatched, one queued) and 2 hooks of one server; the proofs take a second server too |
| `hook_stale` | violation: a server that has routes stays open | as above, with a newer server |
| `pipeline_phases` | checkpoints and resume, stop, branches, fanouts, and does a pipeline end? is a key of its cache fetched once? | 3 pipelines of 2 or 3 phases with every pattern, with and without checkpoint keys; 2 lives; fanouts of 0 to 3 items and fewer or more workers than items; 3 callers of the cache, 2 keys, 3 fetches, clears of one key |
| `cache_throw` | violation: rejections are not cached | 2 fetches |
| `agent_calls` | do all adapters keep the protocol, end when aborted, leave no child; turns, follow-ups, pairing of messages; barriers of the bridge | one run of each of 8 kinds and one bus; codex also with memory; 2 tool calls a turn (miscounting shows with 1), 1 follow-up; an empty and a two-call conversation, 2 tool rounds of 2 calls, 1 retry; a bridge of capacity 2 with 2 observers and 2 barriers |
| `acp_abort` | violation: an ACP abort escalates to SIGTERM | as above, the ACP kind with an agent that may hang |
| `agent_result` | violation: `result` never rejects, and an error in it was an event | the kinds anthropic and codex |

All bounds, which stand in guards: `MaxTime` (clock), `MaxEvents` (free log rows in
`JobStore`, events made by a trigger, events emitted on the
bridge's bus), `MaxRows` (log length in `Sse`), `MaxYields`, `MaxFaults`, `MaxBuffer` (the poll of `Sse` pauses; the
code has no such limit), `MaxFetches`, `MaxEdits`, `MaxRequests` (of a hook), `Servers` (made one after the other),
`MaxQueue` (events a pipeline's branches hold), `MaxLives`, `MaxCalls` (tool calls of a
turn), `MaxAttempts` (how often a fanout's `retryItem` asks for more), `MaxFollowUps`
and `MaxBarriers`. `Tries`, `MaxIterations`, `MaxToolRounds`, `MaxRetries`, `Capacity`, `ProtectFirst` and
`ProtectLast` are options of the code; `RoundCalls` is how many tools a model calls in a
round at most. `ProtectLast` is at least 1: see the
list below. `CHECK_DEADLOCK FALSE` stands in every run: jobs end, streams
close, triggers stop and bounds are reached, so all these systems may stop.
Symmetry is used where no liveness is checked: jobs, owners and the openers of one
build, callers of the cache.

### Fairness

- `JobHost` assumes the following of runs and streams together; each half starts idle, so
  what is assumed of the one asks nothing of a behaviour of the other.
- `JobRunner`: awaited promises settle (`Continue`, `LogRequest`), a refresh lands
  or times out because `withTimeout` keeps a timer, the reconciler is called
  again and the clock advances (in `HostSpec`). That a pipeline which keeps getting the chance
  ends or throws is the phases' own contract, so that one is strong fairness:
  manual heartbeats and emitted events disable it in between. Nothing is assumed
  of cancel, abort, crash or the start of runs.
- `Sse`: live events are delivered, writes resume, reads settle, the poll fires.
  Nothing is assumed of the job.
- `Serve`: the loop, the timers, the server's listen and dispatched pipelines go
  on. Nothing is assumed of payload factories, requests or who calls stop.
- `Pipeline`: some enabled step of the pipeline is taken; emitting is bounded, so leaves
  come to an end. Nothing is assumed of aborts, closing or death.
- `Agents`: timers fire, a killed process dies, promises that were given an
  aborted signal settle, and adapters go on behind them (`AdapterFairness`). A memory
  provider answers (`MemoryAnswers`): `withMemory` has no way around one that does
  not. An ACP agent answers its requests (`AgentAnswers`); this is the part the code
  does not guarantee, and `acp_abort` shows what is left without it.
- `JobStoreBridge`: appends settle, observers that do not wait for the bridge return.

### What the violations show

1. `runner_overlap`: abandoning a slow owner frees its exclusive name while its
   pipeline is still in progress.
2. `sse_split`: with the run here and the reconciler elsewhere, a live event moves
   the poll's cursor past the `abandoned` row; the stream never closes.
3. `cache_throw`: the rejection of a fetcher that throws at once stays in `pending`.
4. `acp_abort`: after `session/cancel` nothing else follows; the grace period of the
   comment has no timer, and an agent that ignores it keeps its run open.
5. `hook_stale`: a hook that holds an older, closed server is stopped and closes the
   newer one, to which another hook's route belongs.
6. `agent_result`: without their package the anthropic and codex adapters reject `result`,
   and push no `agent_end`. The same property fails for codex and pi, which may end
   with `error` and no error event.

Other behaviours of the code met on the way, which the properties leave out by a
stated condition, or the models allow, rather than refute in a run of their own.

Jobs and streams:

- the STALE filter of `listJobs` works in whole seconds: `ListedReadsStale` says
  that what it lists reads as STALE, and the converse fails within a second;
- with the run elsewhere and the reconciler here, the live `abandoned` frame
  overtakes rows the poll has not read, and they are never sent. `NoGap` is
  checked for the other placements of the two;
- a client that resumes behind the terminal event of a job that still appends may
  be sent a frame twice, because replay and live drain compare with `lastId`
  before either advances it: the condition `ResumedBehindEnd` of `FramesAscend`;
- a store that an older build has open stays open when a newer one migrates it.

Triggers, hooks and serve:

- an event held at a full cap is dropped by `stop()`: `OnlyLastMissed` allows the
  last one pulled to be missed;
- a cron event may be yielded after `stop()` when the timer fired first; the loop's
  own check catches it;
- an event that is in `createJob` at `stop()` still starts its pipeline;
- the last hook may stop while its server is starting: the close is skipped, the server goes
  on to listen, and the process cannot exit;
- a request whose body is being read at `stop()` is queued on the stopped trigger, is never
  answered, and keeps `server.close()` waiting (`RequestAnswered` speaks of requests
  that were queued before); a pipeline that fails before its phase leaves its
  request unanswered until `stop()`; a hook that was constructed before the last one
  stopped never listens;
- when the `done` of one loop rejects, cmdServe throws and removes its signal handlers
  while the other loops go on (`ShutdownEndsAll` counts the throw as an end); two
  pipelines that name one trigger object start it twice.

Pipelines:

- `onItemDone` is called within the try of its item, so in collect mode what it throws
  counts as the item's error and the call resolves, against the comment at
  `patterns/bounded-fanout.ts:29`: `ResolvesHonestly` excepts it;
- beside a sibling in `parallelPhases`, `withRetry` clears a `ctx.stop` the sibling set
  (the instance of `StopHalts` puts no phase that can stop beside it);
- the `done` and `cancelled` frames of a subPipeline's inner run surface in the outer
  stream.

Agents:

- a turn is lost when `markTurnEnd()` overwrites one that is still pending, after
  two rounds with no text between (`TurnsAddUp` excepts it);
- `ImplementsProtocol` speaks of the results of the adapters that conform: those of
  anthropic, codex and pi break what is promised (violation 6), and with memory a
  run's `result` rejects with the inner one's, or when what was recalled cannot be injected. Their
  events keep their order all the same;
- a handler of `agent_end` is run before `hasEnded` is set: the follow-up it asks for
  is accepted and never sent, against `agents/protocol.ts:279`. The model has it (`acp.late`), and
  `EarlyFollowUpsServed` says that all others are sent;
- a consumer that leaves silences the bus for the rest of the run (`silenced`);
- an ACP abort that comes before the session waits for `initialize`;
- pi's abort before its prompt aborts an idle session, and prompts then;
- an escalation that gave up leaves `exited` of `superviseChild` pending;
- with `protectLast` 0 the compressors' `slice(-0)` keeps every message twice;
- a retry's sleep in the agent runner is not cut short by an abort, and tools that
  were executed are executed again;
- with memory, `recall_failed` may come before `agent_start` and `remember_failed` behind
  `agent_end`; a `recall()` that never answers hangs an aborted run; `return()` of the
  events before there is an inner run has no effect;
- the barrier an observer awaits leaves out the batch it was given and waits for the one
  behind it, if an event accepted before fails too. That one is delivered when the
  observer returns: neither happens, against `agents/job-store-bridge.ts:67`. Two observers
  that wait beside each other wait for one another, and so may the barriers of others wait
  meanwhile: `BarriersSettle` excepts that time;

Cache:

- a fetch older than `clear()` deletes the pending entry of its successor:
  `OneFetchPerKey` speaks of keys no clear reaches.

## 4. The proofs

All theorems hold for every value of the constants that meets the ASSUMEs of the
modules; no instance is fixed.

**Store.** `StoreInv` = `StoreTypeOK`, `ExclusiveSlot`, `TerminalEventAgrees`,
`NotStartedIsBare`, `HeartbeatRounded`. Exclusivity alone is not inductive:
`setRunning` might start a PENDING row that is already exclusive, which
`NotStartedIsBare` excludes; and the staleness theorems need that `hbAt` is `beatAt`
rounded. Proved: type correctness, `ExclusiveSlot`, `TerminalEventAgrees`,
`FirstTerminalWins`, `OwnerNeverStolen`, `RecoveredNeverAbandoned` (from the
monotonicity of rounding, for any `TicksPerSecond`), `ListedReadsStale`, and that
`StoreSpec` implements `Slots!Spec`, step by step.

**Opening.** The argument is about one transaction at a time: only one opener is
behind its BEGIN IMMEDIATE, what it read there is the version until it ends, and no
opener believes more than the version says, which never decreases. So a migration
never finds half of itself done (`ExplainedFailures`) and an opener that reaches
`ready` has its own build's version (`ReadyOnCurrent`); that its index is there
comes from the last verification, not from the version, which `edits` may belie.

**Runner.** Each step of `JobRunner` is a step of the store or leaves it
unchanged (`RunnerImplementsStore`), so every theorem about the store holds of a
system of runners. `RunnerInv` = `StoreInv`, `RunTypeOK`, `ClaimHeld` (who has
claimed is who the owner column names) and `CauseDecides` (the termination cause
decides which terminal transition may be written). Proved: `RunTypeOK`,
`NeverExecutedTwice`, `CancelHonoured`.

**Triggers.** `TriggerInv` = `TriggerTypeOK`, `Handover` (who holds the last event),
`EarlyCancels` (a run of a cancelled dispatch has the signal), `OnlyLastMissed`, `CapRespected`, `DoneAfterPipelines`. `Handover` is what makes
`OnlyLastMissed` inductive: while the generator works on an event, the one
before it is dispatched. `CapRespected` uses the cardinality theorems for finite
sets. The loop needs only a generator that makes one event at a time (`GeneratorMoves`), and
each of the three is one: the cron trigger because a timer that is set has an event
left to make (`SourceOK`), the hook because requests become events in the order they
came (`HookOK`). So all of it holds of `AllSpec`, for every set of options, any trigger, a second
hook, one server or a newer one, and `serve` or not. Proved: these invariants, `EarlyCancelHonoured`,
`AnsweredByPhase`, and `DispatchedOnce`, which follows from `Handover`: the event the loop holds is the
last one pulled, and was not dispatched.

The invariants a theorem alone speaks of (`StoreTypeOK`, `ExclusiveSlot`,
`OwnerNeverStolen`, `ListedReadsStale`, `RunTypeOK`, `DoneAfterPipelines`, `AnsweredByPhase`, the
`TypeOK` of `Serve`, `Sse` and `Agents`) are in no run's configuration: the proofs hold for
the instances too.

**How a run ends.** `OutcomeInv` adds to `RunnerInv` where a run must
have been to be where it is: behind its claim it owns its row, behind its drains they
are done, and the owner of an ended row has returned, resolved exactly if the
row says COMPLETED. Each step ends one row, logs one request or does neither, and
each of the three kinds keeps the invariant by an argument of its own. Proved:
`ResolvedIffCompleted`, `DrainedBeforeEnd`, `RequestPrecedesCancelled`.

**Cache.** `CacheInv`: for a key no clear covers, a running fetch is the pending one, what
succeeded is in the store, and there is only one of either. A caller that misses both
maps therefore finds none. Proved: `OneFetchPerKey`.

**Fanouts.** Every step of a worker of either fanout is a move (to the next await, or to the
next item) with at most one write of a slot. `FanoutInv` says that an active
worker's item was pulled, that a pulled item has a worker or a slot unless the call
is halted or a worker rejected, and that a worker stops pulling only behind an error, an
abort or the last item. A call that settles has no active worker, so its slots are complete.
Proved: `ResolvesHonestly`, and that each step is one of `Batch` or leaves it alone.

**Pipeline.** `PipelineInv` rests on four facts. Nothing is in progress between phases
(`NothingLeft`); a fanout belongs to the only branch of its phase, which waits for it
(`FanoutOwned`); a branch that returned early has an abort or a sibling's error to show for it,
neither of which goes away within a life (`CutHasReason`), so a phase that ends
without them did all of its work; and all phases behind the present one were done, in this
life or in an earlier one that recorded it (`BehindIsDone`). Proved: `CheckpointsTruthful`,
`ResumeCovers`, `QuietAtEnd`, that the fanouts of a pipeline implement `Batch` across
lives and crashes, and `StopHalts` under `RetryAlone`: no withRetry stands beside a phase that
may set ctx.stop in one parallelPhases (see the list in section 3).

**SSE bridge.** `drainLive()` sorts what it has buffered; `Sorted` puts each frame at its rank (how
many are before it), which makes the sort a permutation that ascends for a buffer of any
length, by counting. `SseInv` says what each phase may hold (`PhaseInv`), what the end of
the log is (`EndInv`), where a replay stands (`ReplayInv`) and that everything the
bridge holds is behind its cursor (`BehindInv`); `FramesInv` adds the two writers, whose frames
are each behind what was sent when they compared. Proved: `FramesAscend`, wherever the runner and the
reconciler live. `NoGap` needs that they are both here or both elsewhere, which is the theorem's hypothesis
(`Placements \subseteq Together`) and what the run's configuration says; the other placements
lose rows (section 3). `GapInv`: every row the client lacks is behind the cursor, in the
batch being written, in the buffer, or on its way there as a live event.

**Agents.** The adapters, their wrapper and their owner share `AgentCall`, and most of their
actions change only what is queued and how far the call has come. `CallShape` says so: each
action is of one of eight shapes. `CallsInv` = `CallTypeOK`, `LoopTypeOK`, `RunOK`,
`ChildOK`, `AcpOK`, `MemoryOK` is kept by each shape, and so is the refinement: each step of a
run is one of `AgentRun` or leaves it alone (`StepImplements`), for every kind, whatever fails; of the
kinds that do not conform the abstract result is left pending, so that the theorem speaks of their events.
Proved: `ImplementsProtocol`, `ChildReaped`, `EarlyFollowUpsServed`. `TurnsAddUp` rests on
`TurnsOK`: as long as no turn was lost, the calls counted in the turn are those
the events have not claimed yet, and a turn that is pending began without any. One
assumption is made of the caller (`ConversationAssumption`): a conversation is a finite
sequence of messages with finitely many calls each.

**Tool loop.** `PairedRequests` speaks of sequences that compression and its repair put
together with `FlattenSeq`. `Woven` gives each message of the result the place it comes from,
in ascending order; from it, what compression leaves of a paired conversation is
`Traced` (a result whose call is still there follows it), and what
`sanitizeToolPairs` makes of a traced one is paired. `Sane` (paired, no call made
twice, no call of a later round) is what a round keeps, and `LoopOK` says where it holds.
The theorem's hypothesis is that the conversations given are sane: the loop repairs a conversation
only when it compresses, so one that comes with a call nobody answered, as the thread
of a run that ended between a call and its result does, is sent as it is. Those of
`agent_calls` meet it.

**Event bridge.** `BridgeInv`: events settle in the order they were accepted (`QueueOK`), the fate
of a settled event is a batch that exists (`FatesOK`), observers were told of what the
batches delivered to them count (`KindOK`), and a barrier waits for every batch that holds what had
failed or been refused before it (`BarrierOK`). `Totals` are running sums of the batches' counts,
which never decrease (`BatchesGrow`). Proved: `BarrierCovers`.

**Induction.** The library's induction theorems take an operator, which these provers
cannot instantiate. Where a fold, a sum or `FlattenSeq` is concerned the proofs use the least
element of a set of numbers instead (`Least`, `Induction` in `AgentsProofs`), which states what
a recursive function of a community module returns step by step.

**Model-checked only.** The liveness properties (`RunReturns`, `OrphanRecovered`,
`StreamEnds`, `WaitingGetsSlot`, `ShutdownEndsAll`, `RequestAnswered`, `PipelineEnds`,
`AbortEndsRun`, `BarriersSettle`), which are beyond the prover; every
invariant and action property of a passing run, and every refinement of an abstract specification
in them is a theorem. The violations are TLC's counterexamples.

## 5. Not modelled, and the plan

Left out for good: column contents nothing branches on, wording of errors,
argument validation, the SQLite bindings, public re-exports, provider wire
formats, token estimates and the capping of results, project templates.

Not modelled: structured output (repeated calls of a run `AgentCall` models),
`withThread` (appends what it is handed; two runs that share a thread interleave
their events), `pipeAgentEventsToJobStore` (starts appends and forgets them), the health
server and the loading of extension files (registrations an extension made before it
threw stay), the thread bridge and the injectors.

What would come next: structured output as repeated runs of
`AgentCall`; the safety half of the liveness properties, that is, the invariants that say
which step is enabled in each waiting state.

## 6. Running

`tlc -config <run>.cfg <module>` with the module `PROJECT.json` names for the
run, and `tlapm <module>` for the eight `...Proofs` modules. The longest runs,
`runner_lifecycle`, `host_liveness`, `store_calls` and `trigger_loop`, take one to four minutes.
