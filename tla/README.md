# A verification of the agora-etl runtime

agora-etl runs pipelines: a *source* yields records, a chain of *middlewares*
transforms, drops or rejects them, *sinks* store them, and what cannot be stored
goes to a dead-letter queue (DLQ). While it does so the runtime saves
*checkpoints*, positions of the source from which a later run resumes. The claim
that matters is therefore one about several actors and several runs: whatever
fails and wherever the process dies, a later run starts at a position below which
nothing was forgotten. Around that core are a scheduler that runs pipelines under
leases, components with concurrency of their own (writers, deduplication, process
pool, HTTP and file sources, buffering sinks, AI batches), stores that outlive a run
(state backend, schema store, dead-letter table), and programs that act on those
stores beside a running pipeline.

This directory holds TLA+ modules translated from that code, TLC configurations
that check them on small instances, and TLAPS proofs. Source paths below are
relative to `src/src/agora/`, documents to `src/docs/`. `PROJECT.json` maps every
definition to the lines it models and lists components, runs, hazards, findings
and theorems.

## 1. The system

| component | state it keeps | operations | talks to |
|---|---|---|---|
| executor, session (`core/executor.py`, `core/session/`) | which components are started, the run error, the shutdown error, the live-metrics task | restore, start, open, stream, shut down, raise or return | everything a run owns |
| source adapter (`core/runtime/_source_adapter.py`) | a queue or a buffer between source and lane, a producer task or thread | pull, put, poll, leave, join | source, lane |
| linear lane (`_lanes/_linear.py`, `_delivery_pending.py`) | the write queue, the owner task with its events | pull, queue, flush, wait for capacity, close | chain, delivery engine |
| buffered lane (`_lanes/_buffered.py`) | a deque of futures, the adaptive stage limit | submit, drain, resolve in order, abort | chain stages, delivery engine |
| batch lane (`_lanes/_batch.py`) | a deque of batch futures | pull a batch, pass through or filter, finalize in order | chain, delivery engine |
| delivery engine (`core/runtime/_delivery*.py`) | `CheckpointState` (count, last saved value) | resolve a write result, route to the DLQ, prepare and persist a checkpoint, run the delivery hooks | writer, DLQ, checkpoint store, source |
| run fence (`core/fencing.py`) | the token of the lease | assert before a write | lease store |
| writers (`core/sink/_writers.py`) | which sinks are open | open with rollback, write rows, batches and Arrow batches, flush, close | sinks |
| middleware chain (`core/middleware/`) | which middlewares are started | start, stop, roll back, process | middlewares |
| deduplication (`middlewares/dedup/`) | pending keys, seen keys, the store, success hooks by `id(record)` | look up, reserve, commit, discard | delivery engine, through hooks |
| process pool (`middlewares/process.py`) | the pool, its generation, tasks per generation | submit, time out, recycle, cancel, stop | worker processes |
| scheduler, worker pool (`runner/`) | error count, current run, lease, abort event | acquire, run, abort, back off, stop, force-cancel | lease store, executor |
| HTTP source (`sources/http/`, `sources/_internal/`) | breaker state and counts, last request time, cache | get, admit, throttle, send, retry, store | upstream service |
| execution plan, delivery policy (`core/runtime/_plan*.py`, `core/delivery.py`) | none; a plan and a report are computed twice | explain, enforce, prepare | source, chain, sinks (what they declare) |
| file sources (`sources/file/`, `core/source/_wrappers.py`) | cursor, resume position, open file; the Parquet reader's thread and queue | prepare resume, read, hand out, limit | checkpoint store, file |
| file and webhook sinks (`sinks/file/`, `sinks/http/`) | a buffer, a file handle, header and append flags | write, flush in a thread, post with retries, write Arrow, close | file, endpoint |
| dead-letter table and replay (`core/dlq.py`, `cli/commands/dlq.py`) | rows with an attempt count | capture; read, count, run, delete | sink, operators |
| state backends (`state/`, `cli/commands/checkpoint.py`) | entries with an expiry | get, set, set if absent, prefix delete, reset | checkpoints, deduplication, caches |
| AI middlewares (`middlewares/ai/`, `ai/`) | a queue of futures, a lock, a timer, usage, a response cache | submit, flush, call, charge, stop | provider, buffered lane |
| schema tracking (`schema/`) | the current schema and its version, the stored one | infer, merge, restrict, drop, load, save | schema store |
| plugin registry (`core/registry.py`, `core/discovery.py`) | plugins, factories, lazy loaders, origins, metadata per key | register, scan, look up, create, list | installed distributions |
| order command center (`src/examples/order-command-center/`) | manifest, ledger, current state, cache, repair requests, audit trail | produce, project, commit, verify, repair, reconcile | Kafka, PostgreSQL, Redis |
| configuration parsing, container, health, metrics, tracing, remaining CLI | see `PROJECT.json` | not modelled: section 9 | |

What makes this code hard to test:

* **Crashes between awaits.** Sink write, checkpoint save and source
  acknowledgement are three awaits; the process may die or the task be cancelled
  at each.
* **Outcomes per record, checkpoints per position.** One record of a batch may be
  written, the next refused, a third dropped; the checkpoint is one number.
* **Order.** Futures complete in any order, and records that never enter a queue
  (drops, prefix failures) are committed beside the ones that do.
* **Two tasks, three events.** The pending-write owner and the lane share `notify`,
  `stop` and `flushed`.
* **Cancellation.** `asyncio.CancelledError` passes every `except Exception`, and
  `asyncio.wait` does not hand it on to the tasks it waits for.
* **Leases.** They expire while their holder writes, and the loss is reported late.
* **Half-done opening and closing**, with other failures on top.
* **Two writes without a transaction.** Replay, repair, reset and projection change
  two stores one after the other, and a second operator may be doing the same.
* **What was read is stale.** A file is replaced between two runs, a row expires
  between SELECT and DELETE, a plan is made before the objects are opened.
* **Holes.** In a list, `None` means dropped and failed alike, and positions have to
  survive stages that do not see the holes.

`PROJECT.json` lists forty such hazards, each at its line, with the properties
that would notice it.

## 2. Modules

| module | models | state |
|---|---|---|
| `CheckpointContract` | what any lane promises the store | `handled`, `ckpt` |
| `Delivery` | what the lanes share: the outside world, `CheckpointState`, `DLQWriter`, the failure policies | `conf`, `durable`, `written`, `dead`, `dropped`, `skipped`, `acked` |
| `RowLane` | linear lane, `writer_batch_size <= 1` | cursor, count, last saved value, failure being routed |
| `BatchedLane` | linear lane with a write queue and its three ways of flushing | the lane's task, the flush in progress, the owner task and its events |
| `BufferedLane` | buffered lane with adaptive backpressure | queue, ready futures, limit, the record being committed |
| `BatchLane` | list and Arrow batches, plain and pipelined | queue of batches, the batch being finalized |
| `Scheduler` | `ScheduledPipelineRunner` inside `WorkerPool`, for one pipeline; a run with its two writers, the lane and the pending-write owner, and the steps of its shutdown | the lease store, one record per worker |
| `RunLifecycle` | one call of `PipelineExecutor.execute` | what is open, errors, flags |
| `SourcePrefetch` | read-ahead by task (Python) and by thread (Rust queue) | queue, producer, generator |
| `ProcessPool` | batches that share a process pool | generation, tasks, pools alive |
| `Writers` | `SinkFanOut`, `SinkRouter` | calls per sink, what each sink received |
| `Dedup` | `DedupMiddleware`, its store, the success hooks; records pass it one at a time, or each in a task of its own | keys, hooks, the records in the chain or in flight, history of outcomes |
| `HttpSource` | requests behind cache, breaker, retry and throttle | calls, breaker, clock |
| `FileSource` | CSV, JSONL and Parquet sources, row, list and Arrow; `LimitedSource` | the file and its identity, reader, queue, stored cursor |
| `BufferingSink` | CSV, JSONL, Parquet and webhook sinks | buffer, handles, flush in progress, what the file holds |
| `DlqReplay` | dead-letter table, `agora dlq replay` by two operators | table, one command per operator |
| `OrderCenter` | the order command center: producer, two projections, verifier, repair | topic, manifest, ledger, current state, cache, requests, audit |
| `Chain` | `MiddlewareChain` on a group of records: one by one, in the native executor, as a list | values, holes, hooks, metrics per stage |
| `ExecutionPlan` | plan, delivery report and policy, and what the lane then hands on | the pipeline, the plan, what each stage and sink got |
| `AiBatch` | AI middlewares, single call and batch window, cache and budget | futures, queue, lock, flushers, usage, cache |
| `SchemaTracking` | schema inference, evolution, middleware and store | current and stored schema |
| `StateStore` | memory and SQLite backend with three kinds of user | entries, clock, clients between statements |
| `Registry` | the plugin registry, one key | registrations, lazy loader, origin, metadata |
| `RowLane_proofs`, `BatchedLane_proofs`, `BatchLane_proofs` | theorems about the lane of that name | |
| `Lanes_proofs` | theorems about `BufferedLane`, and about the three lanes of `MCLanes` together | |
| `Delivery_proofs` | lemmas on the operators of `Delivery` that the lanes which hold records back use | |
| `Runtime_proofs` | theorems about `Scheduler`, `RunLifecycle`, `ProcessPool` and `SourcePrefetch` in `MCRuntime` | |
| `Component` | the state `s` of one component and the instances of the seven components that are proved about, shared by `MCComponents` and the proofs | `s` |
| `Parts_proofs` | the inductive invariants of `ExecutionPlan`, `SchemaTracking`, `DlqReplay`, `OrderCenter`, `StateStore` and `HttpSource` | |
| `Components_proofs` | the inductive invariant of `AiBatch`, and what follows from all of them for the behaviours of `MCComponents` | |
| `MC*` | instances for TLC: configurations, unions of parts, properties grouped under one name | |

How they compose: the four lanes extend `Delivery`; `RowLane`, `BatchedLane` and
`BufferedLane`, and `MCLanes` for all lanes that hold records back, instantiate
`CheckpointContract` with `handled <- Handled`, `ckpt <- durable`, the refinement mapping
under which `KeepsContract` says that the lane implements the contract. `MCLanes`,
`MCRuntime` and `MCComponents` put parts that share no state under one specification: a
behaviour moves one of them. In `MCComponents` every component keeps its state in one
record, and the variable `s` stands for the record of the component named by `part`
(`INSTANCE ... WITH`, in `Component` for the components with theorems).

### How code became actions

*Steps.* On one event loop, a step reaches from one `await` to the next. Awaits
that touch the outside (sink, DLQ, store, source) are steps of their own so that a
crash, a cancellation or another task can come between. In `SourcePrefetch` the
producer of the Rust queue is a thread, and every operation on the buffer is a
step.

*Data.* A record is its position in the source, `1..N`; the checkpoint a source
reports after position `i` is `i`. Payloads, names and log lines are left out. A
batch, a queue or a deque that is filled and emptied in source order is the set of
its positions. In `Dedup` a key is a number and two keys are similar when the
numbers are neighbours. In `HttpSource` and `StateStore` time is a small counter. A
row of a file is its number and the generation of the file; a schema value is its
type; a version is the sequence of its numbers; an order event is its rank in
business time.

*Outcomes the code does not decide* (a sink that takes a record, refuses it or
raises; a chain that returns, drops or fails; a store that saves or raises) are
nondeterministic choices, restricted by the configuration: `conf` is chosen in the
initial state and never changes.

*Names.* `durable` is the value in the checkpoint store; `written`, `dead`,
`dropped`, `skipped` are the positions with a terminal outcome, in any run, and
`Handled` is their union. `skipped` are records given up because the policy says so
(`LOG_AND_CONTINUE`), or because without a store there is nothing to protect.
`acked` are the positions whose source delivery hook ran.

*History.* `lastSink` of the lanes, `late`, `ownerLate` and `spill` of `Scheduler`, `late`
of `SourcePrefetch`, `first` and `twice` of `RunLifecycle`, `excused`, `together` and the
outcome sets of `Dedup`, `row`, `good`,
`opens` and `sent` of `HttpSource`, and the fields the other modules mark as history,
exist for the properties only.

*Mutants.* An operator whose comment begins "Mutant of" is a deliberately wrong
variant of the definition it names. It is used by no action. Substituted for
that definition it must make a property fail; this shows that the property
depends on the code.

### Lane by lane

`RowLane`: `StartRun` and `LoadFails` are `restore_checkpoint`; `Pull` is the body
of the loop up to the outcome of the chain; `WriteOne` is one `WriteResult`, with
the partial success of a fan-out; `RouteMiddlewareFailure` is `drop_record`,
`RouteSinkFailure` is `resolve_write_result` with `DLQWriter.write`; `Save` is
`CheckpointManager.save`; `Ack` runs the success hook. `Crash` may fall between any
two, and stands for cancellation too, since the lane holds nothing else.

`BatchedLane`: the lane queues with `Enqueue` and commits drops at once with
`DropRecord`. A flush is `TakeBatch`, one of `WriteAccepted`, `WriteMixed`,
`WriteRaises`, `WriteFenced`, then routing or resolving record by record, then
`PrepareOutcomes` (which stops at the first unrouted failure), `PersistBatch` and
the hooks. It is driven by the lane (`conf.flush = "inline"`), by
`flush_batch_direct` (`"direct"`) or by the owner task (`"owner"`: `OwnerLoop`,
`OwnerNotified`, `OwnerTimeout`). `CheckCapacity` and `AwaitFlushed` are
`wait_for_pending_write_capacity`, `SignalClose` and `OwnerClosed` are
`close_pending_write_owner`.

`BufferedLane`: `Submit`, `CompleteFuture` in any order, `PopHead` always the
oldest, `Resolve`, and the dispatch of the resolved record as in `RowLane`. `Abort`
and `SoftError` are the two ways an exception can be taken: pending work is
cancelled, or the final drain still commits what is in flight.

`BatchLane`: `conf.inflight = 1` is the plain lane, larger values the pipelined
one. A batch is finalized by `write_batch_passthrough`, `write_batch_filtered`,
`write_batch_middleware_failure` or their Arrow counterparts.

### Component by component

`Scheduler`: `StartRun`, `SkipRun` and `HookFails` are the top of the loop, `AbortRun` and
`AbortedRunEnds` the race in `_run_with_abort`, `Stop`, `ForceCancel`, `PoolCancelled`,
`PoolEnds` and `CloseLoop` the worker pool. Inside a run every write is a check of the fence
and then the write, in steps of their own: `Check`, `Write` for the lane, `OwnerCheck`,
`OwnerWrite` for the pending-write owner, `Report` for the DLQ write of `_handle_run_error`.
`Drained` is `close_pending_write_owner`; `FlushDLQ`, `CloseDLQ`, `CheckFlush`, `Flush`,
`CloseWriter` are `shutdown_runtime_components`, of which only the flush of the writer asks
the fence, while the closes write what a file or webhook sink still buffers.

`RunLifecycle`: one action per await of `execute` and of the lifecycle controller; each may
return, raise or be cancelled. `HandleError` is `_handle_run_error`, with the `on_handled` of
a `SourceRecordError`, which may raise and then takes the place of the error it was called for.

`Dedup`: `Take` lets a record into the chain, `Look` is `process()` up to its await,
`Exists` or `StoreRaises` the answer of the store, `Reserve` the reservation and what the
rest of the chain makes of the record. With `conf.tasks`, the buffered lane with several
stages, two records stand between these steps at once. `SinkAccepts` to `CommitReleases`
are the delivery of the oldest record and its hooks.

`FileSource`: `OpenSource` is `prepare_resume` with `_accept_checkpoint_identity`;
`ReadRow` one step of the row readers, `NextChunk` of the Arrow readers; the Parquet
reader is a producer (`ProducerPuts`, `ProducerEnds`, `ProducerTells`) and a consumer
whose wait may expire (`WaitExpires`, `ConsumerWakes`). The lane takes an item and may
save its cursor. `Appended` and `Replaced` change the file at any time.

`BufferingSink`: `Write` fills the buffer, a full one, `flush()` or `close()` starts a
flush: `FlushMaps`, then `ThreadWrites`, `ThreadFails` or `FlushCancelled`, or for the
webhook the posts and their retries. `WriteArrow` goes past the buffer natively, with
pyarrow or row by row.

`DlqReplay`: `Start` reads the table, `Take`, `Mark`, `Run`, `Acknowledge`, `Finish` are
the body of the loop, each statement a step, and `Leave` is the death of the command.

`OrderCenter`: the producer (`Begin`, `Put`, `Send`, `Published` or `PublishFails`), its
reconciliation (`TidyReads`, `TidyUpdates`), two projections with `FlushBeforeAcknowledgeSink`
(`ProjectPg`, `ProjectRd`, `Commit`), the verifier, and repair (`CreateRequest`,
`PublishEvent`, `CompleteRequest`) with its reconciliation. Every process may die
between two of its steps.

`Chain`: `RowStage`, `RustRecord`, or for a list `FastStage` (built-in map and filter),
`RecordStage` (any other, record by record) and `BatchStage` (`BatchMiddleware`).

`ExecutionPlan`: `Explain`, `Enforce`, `Prepare`, then one batch or row through the lane
that the plan names. Every chain of up to two stages, every writer with up to two sinks.

`AiBatch`: `Submit`, the three flushers `timer`, `size` and `drain` on one lock
(`Acquire`, `FlushLoop`, `ProcessBatch`), `OnStart` and on_stop in two steps; the single
calls overlap (`Process`, `Answer`, `Returns`).

`SchemaTracking`: `OnStart`, `Process`, `OnStop`, `Dies`, `StoreCorrupts`. `CanWiden`,
`WidenType`, `MergeType` and `ObserveField` are the type rules; a `SchemaInferrer` fed
the same records runs beside the middleware.

`StateStore`: the SQLite operations are split where a statement ends; `MarkIfNew`,
`Forget`, `Clear` are the membership keys, `Save` the checkpoints of a run, `ResetLoads`
to `FallbackSaves` the command.

`Registry`: `ImportModule` registers built-ins and scans lazily, `DiscoverPlugins` scans
again, `ListPlugins` scans eagerly; `Get` and `Create` resolve what was noted lazily.

## 3. Runs

All runs use N = 3 records where there are records, enough for one before, at and
after a checkpoint or a batch boundary. Two starts cover crash and resume; further
starts repeat them, as the durable state is all that survives a run.

| run | states | what it shows |
|---|---|---|
| `RowLane` | 2.5 M | every combination of sink, DLQ and checkpoint policy, with and without store and DLQ, `checkpoint_every` 1 and 2, two runs |
| `Lanes` | 5.8 M | the three lanes that hold records back, two runs each: inline, direct and owner flush in batches of 2; a concurrent stage whose limit moves between 1 and 2; list and Arrow batches, one or two in the stage; whole-batch and per-record failures, fence loss, cancellation |
| `BatchedLaneLive` | 0.26 M | the owner task with every chain outcome, under fairness |
| `Runtime` | 136 k | under fairness: `Scheduler` with one worker against any number of others, two runs, a lease that goes elsewhere in between, an error budget of two; `RunLifecycle` with two middlewares and two cancellations; `SourcePrefetch` with up to four records and queues of one or two; `ProcessPool` with three batches, two in flight |
| `Components` | 4.0 M | the thirteen components of `MCComponents`, bounds below |
| `DropOvertakesQueue`, `ArrowWithoutDLQ`, `OrphanedRun`, `DedupForgets`, `BatchErrorVanishes`, `NullRedefinesColumn`, `ParquetReadsAgain` | | the findings of section 5 |

What the properties say, in the order of the runs:

* `CheckpointCovers`: no position is stored with an unhandled record at or below
  it. `CompletedRunHandledAll`: a run that reports success has left nothing behind,
  in a queue, a future or an earlier run.
* `AckedIsAccountedFor`: the source is told a delivery is done only for records
  written, captured or dropped, never for a failure that was merely logged.
* `ReplayWindow`: with fail-closed checkpoints fewer than `checkpoint_every`
  handled records are replayed after a crash. `CheckpointMonotone`: the store does
  not move back.
* `KeepsContract`: every step of the lane is a step of `CheckpointContract` or
  changes nothing in it: handled stays handled, and a position is stored only when
  everything up to it is handled. On the lanes of `Lanes` it takes the place of
  `CheckpointCovers`, which it implies.
* `StageInOrder`: records and batches reach the writer in source order although
  futures complete out of order, and the stage limit holds while it moves.
* `Bookkeeping` groups, per lane, the type invariant with `AckedIsAccountedFor` and,
  behind the write queue, `ReplayWindow`.
* `QueueBounded`, `QueuedIsFlushed`, `RunEnds`: the write queue respects
  `writer_batch_size` while the owner writes; a silent source leaves nothing queued
  for ever; lane and owner never wait for one another for ever.
* `LateWritesBounded`: what a run still writes after its lease is gone. Its task makes at
  most one write and its owner at most one, those whose check of the fence had already
  passed; the shutdown makes at most three calls that ask no fence (DLQ flush, DLQ close,
  writer close) and may write what their sink has buffered, none of them while the lane is
  at work. A cancelled call in flight counts as made. Acknowledgements of the source and
  markers of middlewares are not counted; an owner that a cancelled run left behind is not
  followed into the next run. `RunsTakeTurns`: runs of a worker never
  overlap, the error budget stops the loop, between runs the lease is given back.
  `LostRunStops`: a run whose loss was reported stops. `StopEnds`: a stop request
  brings the pool down even if a run hangs.
* `AllReleasedOnce`: what was opened is closed, once. Cancellations during startup and
  shutdown are excepted by name in the module: there the code does leak (section 6).
  `OutcomeIsTrue`: the caller sees the reason of the failure and never an error of the
  cleanup instead, nor success after a failed flush. Three things replace the reason, each
  named in the property: a DLQ that is configured to raise, an `on_handled` that raises
  after the DLQ took the record, a cancellation.
* `StreamIsFaithful`: a record comes with the checkpoint the source had when it
  produced it; a quiet end is the true end; the read-ahead is bounded, also after
  the source was closed.
* `PoolIsCurrent`: no batch succeeds with the result of a torn-down pool, only one
  pool lives, siblings of a timeout fail instead of being cancelled. `LeavingEnds`:
  leaving the prefetch and tearing down a pool leave nobody waiting.
* `WritesAreTrue`: a merged `WriteResult` hides neither a success nor a failure of
  any sink; sinks that need order get it; concurrency stays in its limit; a failed
  open leaves nothing open.
* `MarkersAreTrue`, `WrittenOncePerKey`: a stored marker stands for a handled
  record; a key is written once but for the exceptions the module names: the store
  failed open, evicted or lost the key, the run ended between write and marker, or two
  tasks of the buffered lane asked the store for the key before either had reserved it
  (`together`; without this exception TLC finds the key written twice, section 6).
* `RequestsArePaced`: the breaker opens and closes after the configured number of
  outcomes in a row; requests keep the rate limit (claimed for one caller), nothing
  is admitted by an open breaker, and attempts stay bounded.
* `ResumesAtCursor`: a resume passes over rows only if they were delivered or dropped
  by policy, though the file may have grown or been replaced; the CSV and JSONL sources
  also pass over all that the checkpoint covers (the Parquet source does not, finding 7,
  nor do the Arrow sources for CSV and JSONL, of which nobody says so).
  `QuietEndIsComplete`: a stream that ends quietly was read to its end, in every order of
  the steps of reader thread and consumer but one, named in the property: a batch that
  reaches the queue while the consumer's wait expires.
* `AcceptedIsWritten`: a record a sink accepted is in its output, in its buffer or in
  the flush in progress; after `close()` it is in the output; it is written twice only
  after a failed or cancelled flush; a CSV file begins with its header.
* `ReplayLosesNothing`: a row leaves the table only after its record was written;
  attempts are counted and bounded; a second write has a named cause; exit status 0
  means the rows taken are gone.
* `LedgersTellTruth`: a manifest that says published has its events in the topic,
  the audit trail tells the state of each repair, and the verifier passes only what is
  there. `StoresConverge`: a committed offset covers durable messages, the current
  state is the newest event, and without lag PostgreSQL and Redis agree.
* `ChainKeepsRecords`: the results of a list stay at the positions of their records,
  hooks follow objects that are replaced, a failure is reported as one, and the metrics
  of a stage add up (each within the named limits of the code, section 6).
* `PlanIsTrue`: stages and sinks get the shapes the plan shows, the plan of the run is
  the one explained, and a policy that was required holds of what starts.
* `NobodyForgotten`: whoever awaits a record's future has a task that will answer it.
  `BudgetTellsSpending`: usage stays within the budget and is what the calls of the run paid
  for, less those found too dear once they were made. The latter are not bounded: the code
  rejects their usage, so what is really spent can exceed the budget again and again
  (section 6). No cache entry is out of eviction's reach.
* `SchemaIsTrue`: the schema describes every record sent on, FREEZE holds, and an
  inferred type is the least that holds the values seen.
* `StateIsKept`: a key is new to one client, an entry lasts until it expires or its
  user removes it, and a reset that reports success left no position behind. The races
  of section 6 are named exceptions.
* `KeyHasOneOwner`: lookups of a built-in key are never answered by an installed
  plugin, what answers was imported and is compatible, no two distributions answer for
  one key, user overrides stay, and version ranges compare as numbers do.

### Configurations, and where a property does not hold

`CheckpointCovers` holds of `RowLane` without restriction. On the other lanes the
code breaks it in configurations that are named in section 5 and 6; their runs
leave out exactly those, and each is stated at the definition of the
configurations:

* `MCLanes.QueueConfigs`: the chain neither drops nor fails in front of a write
  queue; on the direct path `checkpoint_every` divides the batch size.
* `MCLanes.BufferedConfigs`: with a store, the prefix keeps every record and the DLQ
  does not raise.
* `MCLanes.PlainConfigs`, `PipelinedConfigs`: no Arrow lane without a DLQ under
  `FAIL_CLOSED` and a store; per-record failures only where the policy goes on; no
  chain failures in the pipelined lane. The buffered lane that goes on after failures
  and the pipelined list lane run without a DLQ; a DLQ with that policy is in the
  plain list and the Arrow configurations.

What is left out for `CheckpointCovers` is still explored where a property can
hold: `BatchedLaneLive` has the chain drop and fail, the buffered configurations
without a store have all prefix outcomes.

### Bounds

`N`, `MaxRuns`: records, and how often the pipeline is started. `MaxErrors`, `MaxLeases`,
`MaxRuns` of `Scheduler`: the error budget is a setting, the others bound counters; two
runs are what it takes for a late report of the first to meet the second, and for the
budget of two to be used up. `MaxCancels` of `RunLifecycle`: the second cancellation hits
the handling of the first. `MaxRecords`, `MaxLimit` of `SourcePrefetch`, `Batches`,
`InFlight` of `ProcessPool`: one more than fits, so that something waits. `NSinks`,
`NRows`, the key sequences (one key twice in a row; one key that comes back after
another), `FuzzyCap = 1` (so that the overflow into the store happens), `MaxRestarts`,
`Ids` (four identities for three records and their replacements, so that one is reused).
`MaxCalls`, `MaxTime` of `HttpSource`: two failures to open the breaker, its timeout, two
probes. `Files`: good rows, a blank row, and rows the mapper drops or refuses; `EmitSize`,
`QueueSize`, `RecordLimit` so that a list is cut by the limit and the queue is full; two
runs. `NRecords`, `FlushEvery`, `MaxSinkFaults`: one flush fails and a later one follows
it, over two sessions. `Captures`, `MaxCommands`: two rows of different kinds, a third
command after two that overlapped. `NEvents`, `MaxOrderFaults`: two events, so that one
can overtake the other, and two crashes, so that the recovery from one can fail. `NGroup`,
`ChainShapes`: every kind of stage before and after one that leaves holes. `MaxStages`,
`MaxSinks`: all pairs. `NPrompts`, `AiBatchSize`, `MaxTokens`, `CacheSize`, `MaxAiRuns`: a
full and a partial batch, a budget one run can exhaust, a cache that evicts. `Settings`
and `AiSettings` are the configurations of `HttpSource` and of the AI middlewares that
`MCComponents` looks at (`Sources`, `Middlewares`): each option with each policy it
meets, not every product of options that do not.
`MaxSchemaRecords`, `MaxSchemaRuns`: three values in one column, then a run on the stored
schema. `Ttl`, `MaxClock`, `MaxSaves`: a key expires and is set again. `MaxRegistryCalls`:
five calls in any order on up to two installed distributions. Deadlock is checked in every
run; where a system may stop, the module says so with a `Finished` step.

### Fairness

`BatchedLane.FairSpec`: weak fairness of the flush, of the lane and of the owner.
Tasks of a live event loop are scheduled, awaited calls of the outside return, the
owner's timer expires. Pulling is *not* fair: a source may stay silent, which is
what `QueuedIsFlushed` is about; `RunEnds` assumes a source that delivers, in the
property itself. `MCRuntime.RuntimeSpec` has one weakly fair `Task(i)` per task of the
part that moves: of the scheduler its loop, the end of a run (the owner's last write, the
report of a failure, the shutdown, all of which awaited calls bring about), the timeout of
the pool's own shutdown and the report of a noticed loss (a factory or a streaming run need
not end); producer
and consumer of the prefetch; the tasks of the pool. Crashes, failures,
cancellations, timeouts of the worker and starts are never fair. Weak fairness is
enough everywhere: every fair action stays enabled until it is taken, since a ready
task stays ready.

## 4. Proofs

TLC checks the instances of section 3; the theorems hold for every value of the constants.
Forty-seven of them are listed in `PROJECT.json`; those with a property there state what a
run checks, word for word (the lanes other than the row lane share a run whose properties
are grouped by `MCLanes`, so the theorems about one of them have no property there, and
those of `Lanes_proofs` about all three have). All are safety properties: each rests on an
inductive invariant, proved of the initial states and kept by every action, with one case
or lemma per action.

### The lanes

Assumed of the constants: `NAssumption`, `ConfigsAssumption`, `MaxRunsAssumption`, and where
there is a buffered lane `LimitAssumption`, which TLC evaluates in the runs. So `N`, the batch
size, the limits, the number of runs and the set of configurations are arbitrary.

`RowLane_proofs`, without any further condition:

| theorem | property | inductive invariant and why it is needed |
|---|---|---|
| `TypeCorrect` | `TypeOK` | `Typed`: adds that the record in hand exists (`next <= N` outside `pull`), without which adding `next` to a set of positions breaks its type |
| `CheckpointIsCovered` | `CheckpointCovers` | `Covered`: a live run has handled everything before its cursor, and the record at the cursor once it is about to be saved |
| `CompletionIsComplete` | `CompletedRunHandledAll` | the same: completion is the cursor behind the last record |
| `KeepsTheContract` | `KeepsContract` | `Covered` makes `Save` a contract `Save`; `HandledGrows` makes every other step a `Handle` or a stutter |
| `AcknowledgedIsAccountedFor` | `AckedIsAccountedFor` | `AckedInv`: a carried hook, and a partial write being routed, belong to a record already accounted for |
| `CheckpointIsMonotone` | `CheckpointMonotone` | `BehindCursor`: with fail-closed checkpoints the store is behind the cursor of a live run |
| `ReplayIsBounded` | `ReplayWindow` | `WindowInv`: the distance from store to cursor equals the count modulo `checkpoint_every`; uses `ModSuccessor`, a lemma on `%` |

`BatchedLane_proofs`, about lane and owner task together:

| theorem | property | inductive invariant and why it is needed |
|---|---|---|
| `TypeCorrect` | `TypeOK` | `Control`: which of the two tasks a flush belongs to, and what each place of the lane, the flush and the owner knows of the others; a step of one task has to fit every place of the other |
| `QueueIsBounded` | `QueueBounded` | `BoundInv`: the lane waits for room *before* it queues, so the queue is below the batch size wherever the lane pulls |
| `AcknowledgedIsAccountedFor` | `AckedIsAccountedFor` | `AckedInv`: the hooks a flush collected, and the records partly written, are accounted for |
| `CheckpointIsCovered`, `CompletionIsComplete` | `CheckpointCovers`, `CompletedRunHandledAll` | `Covered`: behind the cursor a record is handled, queued or in the batch; batch, queue and cursor follow each other in the source; what a flush has dealt with is handled up to the failure it stops at; a checkpoint that is due has nothing unhandled below it |
| `KeepsTheContract` | `KeepsContract` | `Covered` makes `PersistBatch` a contract `Save` |
| `ReplayIsBounded` | `ReplayWindow` | `WindowInv`: while nothing has failed, batch and queue are two intervals `b + 1 .. q` and `q + 1 .. next - 1`, the records up to some `c` are counted, and what is saved or due trails `c` by less than `checkpoint_every`; on the direct path what lies before `b` is a multiple of it, for the cadence is looked at once per batch |

`BatchLane_proofs`, list and Arrow, plain and pipelined:

| theorem | property | inductive invariant and why it is needed |
|---|---|---|
| `TypeCorrect`, `WritesInOrder` | `TypeOK`, `SinkOrder` | `Control`: a batch is current exactly while it is finalized; the batches in the stage are pieces of the source, one before the other, behind what the writer was given and in front of the cursor |
| `InFlightIsBounded` | `InFlightBounded` | `BoundInv`: a full stage is drained before the next batch is pulled; uses that every batch differs from the others |
| `AcknowledgedIsAccountedFor` | `AckedIsAccountedFor` | `AckedInv` with `Routing`: which records of the current batch are still to be routed, which hooks are due, which were partly written |
| `CheckpointIsCovered`, `CompletionIsComplete` | `CheckpointCovers`, `CompletedRunHandledAll` | `Covered`: behind the cursor a record is handled, in the stage or in the current batch; when the batch reaches its save all of it is handled, by write, capture, drop or policy |
| `KeepsTheContract` | `KeepsContract` | `Covered` makes `Persist` and `SaveBatch` contract `Save`s; the outcomes of one batch are one `Handle` or several |

`Lanes_proofs`, about the buffered lane:

| theorem | property | inductive invariant and why it is needed |
|---|---|---|
| `TypeCorrect` | `TypeOK` | `Control`: a record is current exactly while it is dispatched, the source loop has an outcome exactly when it is over |
| `WritesInOrder` | `SinkOrder` | the part `InOrder` of `Control`: what was written, what is dispatched, what is queued and the cursor are in this order |
| `InFlightIsBounded` | `InFlightBounded` | `BoundInv`: the loop submits below the limit of the moment, which never exceeds `MaxLimit`, although the limit may shrink under a full stage |
| `AcknowledgedIsAccountedFor` | `AckedIsAccountedFor` | as above |
| `CheckpointIsCovered`, `CompletionIsComplete`, `KeepsTheContract` | the same three | `Covered`: behind the cursor a record is handled, queued or current, also through the final drain after an error, unless the lease is lost |

and about the lanes of the run `Lanes` together, where a behaviour is that of the lane its
configuration names:

| theorem | property | from |
|---|---|---|
| `StagesStayInOrder` | `StageInOrder` | `WritesInOrder` and `InFlightIsBounded` of the buffered and the batch lane |
| `BookkeepingIsKept` | `Bookkeeping` | the types and `AcknowledgedIsAccountedFor` of the three, `ReplayIsBounded` of the queue |
| `LanesComplete`, `LanesKeepTheContract` | `CompletedRunHandledAll`, `KeepsContract` | the theorems of that name of the three |

The bridge is that `conf`, and so the lane, never changes (`SameLane`), and that with it a
behaviour of `LanesSpec` is one of the lane's own `Spec` (`BT!Spec`, `QL!Spec`, `Spec`).

The theorems on coverage, completion and the contract for these lanes have a hypothesis on
the configuration of the behaviour. It is the condition under which the code keeps the
property at all, and `Fit(conf)` is the one of the lane that `conf` names:

* write queue, `KeepsOrder(conf)`: without a store, or where the chain returns a value for
  every record. A drop overtakes the queue (finding 1). `Paced(conf)`, for the replay
  window, adds that on the direct path `checkpoint_every` divides the batch size.
* buffered lane, `KeepsOrder(conf)`: without a store, or where no prefix drops and no DLQ
  raises (section 6).
* batch lane, `Trusted(conf)`: no batch vanishes under `FAIL_CLOSED` (an Arrow lane has a
  DLQ, finding 2; a list lane with a DLQ has no chain that fails as a whole), and with a
  store single failed records do not stop the run and nothing overtakes a batch in the stage
  (section 6).

They exclude nothing else: without a store the order conditions are vacuous, and every
configuration of the run `Lanes` satisfies `Fit`, so no theorem is empty. Type,
order, bounds and acknowledgement hold without any of them (the last for the batch lane in
a configuration of batches, `Batching(conf)`).

`HandledGrows` (a terminal outcome is never taken back) carries coverage over crashes in
each of the four: a run resumes at `durable + 1`, and `1..durable` was covered by the
run before.

### Around the lanes

| theorem | property | assumed | inductive invariant and why it is needed |
|---|---|---|---|
| `Runtime_proofs.LateWrites` | `LateWritesBounded` | `WorkersAssumption`, `BoundsAssumption` | `LateOnce`, for each of the two writers: one that wrote late is not at a write again, for its next check fails. Needs `LeaseKnown`, that the store and its client agree on the token and none is given out twice, and `TaskKept`. For the shutdown, the calls made after the lease was gone are at most those its place says are done |
| `Runtime_proofs.TakeTurns` | `RunsTakeTurns` | the same | `TaskKept` (only a scheduler on its way out leaves a run behind), `BudgetLeft`, `LeaseReturned` |
| `Runtime_proofs.ReleasesAllOnce`, `OutcomesAreTrue` | `AllReleasedOnce`, `OutcomeIsTrue` | `LifecycleAssumption` | `LifecycleInv`: for every await, the state of each middleware by its place in the chain, of the sinks and of the source, what the flags say, and where the first error, or the one that replaced it, is on its way out |
| `Runtime_proofs.PoolStaysCurrent` | `PoolIsCurrent` | `PoolBounds` | `PoolInv`: every generation before the current one is invalidated, the only live pool is the runner's, whoever is cancelled was cancelled by the lane or belongs to an invalidated generation |
| `Runtime_proofs.StreamStaysFaithful` | `StreamIsFaithful` | `PrefetchBounds` | `PrefetchInv`: what the lane has, what the generator holds, the queue and the producer's hand are consecutive pieces of one stream (`After`, `ItemAt`); their lengths add up to what the source produced, which gives the bound on the read-ahead. One invariant for the task (`TaskInv`), one for the thread (`ThreadInv`) |
| `Components_proofs.PlanStaysTrue` | `PlanIsTrue` | `PlanBounds` | `PlanInv`: plan and report carried by the run are those of its pipeline. The work is in what the lane hands on: `HandedOut`, computed from the lane, is what the plan shows for every chain and writer |
| `Components_proofs.SchemaStaysTrue` | `SchemaIsTrue` | nothing | `SchemaInv`: the schema describes what was sent *and* is at least as wide as the inferrer's; what earlier runs saved is described by the stored schema and by the one of a run that went on from it, unless a run forgot it. Rests on the lattice of types: `MergeType` is an upper bound, `ObserveField` a least one |
| `Components_proofs.ReplayLosesNoRow` | `ReplayLosesNothing` | `DlqBounds` | `DlqInv`: for each command, what it holds is what the table has unless another command held it too (`Fresh`), and a row that was written is about to be deleted by the command that wrote it (`Unwritten`); `SharedIsNoted` between the two |
| `Components_proofs.LedgersStayTrue`, `StoresStayConvergent` | `LedgersTellTruth`, `StoresConverge` | `OrderBounds` | `OrderInv`: the topic holds the producer's events in order, a repair after what it repairs, a doubled event next to itself (`Sends`); PostgreSQL has every good message its consumer has read (`Stored`) and the newest of them (`Newest`), Redis one at least as late (`Serves`); a manifest or request that says published, or is about to, has its messages (`ManifestIs`, `RequestIs`) |
| `Components_proofs.StoreKeepsState` | `StateIsKept` | `StoreBounds` | `StoreInv`: the recorded expiry is the entry's (`UntilIsTrue`), what has to last is there unless a race took it (`Lasts`), a key has one owner |
| `Components_proofs.NobodyIsForgotten`, `BudgetStaysTrue` | `NobodyForgotten`, `BudgetTellsSpending` | `AiBounds` | `AiInv`: the lock is held by the flusher that works, and whoever waits is in the queue or in that flusher's batch (`Desk`); usage and what was found too dear add up to what was carried over and paid (`Purse`); the order of the cache names every entry once (`Reach`) |
| `Components_proofs.RequestsStayPaced` | `RequestsArePaced` (an action property) | `SettingsAssumption`, `MaxTime \in Nat` | `HttpInv`: the breaker's counters are outcomes in a row (`CountsInARow`), a call past the gate carries the epoch in which it was admitted and attempts it has left, a sleeping call wakes at the interval |

All of them are about the specification the run checks, `RuntimeSpec` or
`MCComponents!Spec`: lemmas like `LifecycleRuns`, `PoolRuns`, `PrefetchRuns` and
`SchedulerHolds` show that it moves the part as the part's own module says, so the invariant
of the part holds there. For the components this takes two modules about the same state,
`s` of `Component`. In `Parts_proofs` the component is alone, which keeps the obligations
small: `PlanAlways`, `SchemaAlways`, `DlqAlways`, `OrdersAlways`, `StoreAlways` and
`HttpAlways` say there that its invariant holds, `AiAlways` says so of `AiBatch` in
`Components_proofs`, which adds that a behaviour of `Spec` stays with its part, so it is one
of the component's own specification.

What the bounds say: `PoolBounds`, `PrefetchBounds`, `PlanBounds`, `OrderBounds`,
`StoreBounds` and `LifecycleAssumption` that the numbers are numbers, so chains, writers,
events, messages, batches and lifetimes are of any length; `DlqBounds` that what is captured
is a sequence of rows of the three kinds; `AiBounds` that a batch holds a prompt, a cache
an entry, and `AiSettings` are configurations. `MaxCommands`, `MaxOrderFaults`, `MaxSchemaRuns`
and the like, which bound the runs of TLC, are not restricted at all. `LifecycleAssumption`
also asks for a chain of at least one middleware: an empty
chain is the same machine without its start and stop steps. `StoreBounds` starts the clock
at 1. `SettingsAssumption` says that `Settings` and `AiSettings`, the configurations looked at,
are configurations: `HttpSource.Configs` is the type of all of them, with any thresholds,
intervals, backoff and cache lifetime, and the runs take a few (`MCComponents.Sources`). The
exceptions named inside `AllReleasedOnce` (cancellation), `OutcomeIsTrue` (a raising DLQ, a
raising `on_handled`, cancellation), `StateIsKept` (the two races of section 6),
`ReplayLosesNothing` (rows two commands hold), `NobodyForgotten` (`on_error="raise"`),
`LedgersTellTruth` (the reconciliation by row count, section 5) and `SchemaIsTrue` (a run
that began without what was stored) are part of the theorems too.

### What stays with TLC, and why

* Liveness (`QueuedIsFlushed`, `RunEnds`, `StopEnds`, `LostRunStops`, `LeavingEnds`): it
  needs fairness and `ENABLED`, which the provers do not handle.
* `Chain`: its content is what a fold over the stages and rows of a group computes, which
  is induction over data.
* `Writers`, `Dedup`, `FileSource`, `BufferingSink`, `Registry`: checked, not
  proved. They compute with operators the library states no theorems about (`SelectSeq`,
  `@@`, bags, folds over sinks or rows), so that each would first need a theory of its data.

So `WritesAreTrue`, `MarkersAreTrue`, `WrittenOncePerKey`, `ResumesAtCursor`,
`QuietEndIsComplete`, `AcceptedIsWritten`, `ChainKeepsRecords` and `KeyHasOneOwner` are the
safety properties that are only model-checked.

No module uses `RECURSIVE` operators, so any of them can be proved about later.

## 5. Where documents and code disagree

Each has a run whose property TLC finds violated.

1. **`DropOvertakesQueue`** (`core/runtime/_delivery.py:276`). `drop_record` saves
   the checkpoint of a dropped record at once; records before it may still sit in
   `pending_writes` and be lost by a crash. `guides/runtime-guarantees.md:285`: "The
   source checkpoint advances only through records that were handled under the
   active failure policy."
2. **`ArrowWithoutDLQ`** (`core/runtime/_lanes/_batch.py:150`). `routed` starts as
   `True` and stays so without a DLQ: a failed Arrow write is logged and
   checkpointed under `FAIL_CLOSED`. `guides/runtime-guarantees.md:193`: "The runtime
   never silently skips an unhandled sink failure under `FAIL_CLOSED`."
3. **`OrphanedRun`** (`runner/worker.py:301`, `runner/runtime.py:217`). Cancelling the
   scheduler task does not cancel the run task inside `asyncio.wait`; the pool
   releases the lease and returns while the run goes on. `runner/worker.py:25`: "5.
   Remaining tasks are force-cancelled"; `runner/coordinator.py:85` says the
   coordinator is stopped after the pipelines have.
4. **`DedupForgets`** (`core/runtime/_delivery_results.py:55`, hooks popped at
   `_delivery.py:289`). When a sink fails and the policy goes on, the reservation of
   the key is neither committed nor discarded, and later records with it are dropped
   as duplicates of a record nobody has. `middlewares/dedup/middleware.py:194`
   explains the reservation as what prevents that.
5. **`BatchErrorVanishes`** (`core/middleware/base.py:57`, `_builtins.py:86`). A
   middleware that raises for a record of a list leaves `None` in its place, which the
   lane takes for a drop: no DLQ, no policy, and the checkpoint moves on.
   `guides/runtime-guarantees.md:94` promises DLQ routing, `guides/failure-handling.md:94`
   that "Every failed record — whether from a middleware or a sink — is written to the
   DLQ".
6. **`NullRedefinesColumn`** (`schema/evolution.py:158`). Under `DISCARD_ROW` a null
   passes `record_violates_schema` (`schema/records.py:30`) and is then merged as a type
   conflict, which turns the column into STRING. `schema.md:181`: "the active schema is
   left unchanged".
7. **`ParquetReadsAgain`** (`sources/file/parquet.py:138`, `:225`, `:334`). The three readers
   number the first row of the file after the resume cursor instead of 1, so no row is at or
   below it: a resumed run delivers the whole file again.
   `guides/recovery-matrix.md:15`: "Skips rows `<= resume_row_number` across PyArrow
   batches", `:116`, and `:156`: "Records before the saved position are skipped on the source
   side. They are not delivered to middlewares or sinks."; `guides/checkpointing.md:58` says
   the same of `ParquetSource` by name.

Four more were met and have no run. The first three are excluded by name, or claimed in the
weaker form the code keeps:

* The shutdown of a run that lost its lease flushes and closes the DLQ and closes the writer
  without asking the fence (`core/session/_support.py:207`, `_writer_transport.py:91`), and
  file and webhook sinks write their buffer in `close()`. The comment at
  `runner/coordinator.py:145` has the callback stop a fenced-out worker from writing.
  `LateWritesBounded` counts these calls.
* The row-count reconciliation of the order command center takes a duplicate for a missing
  event, so a partial run can be marked published, where the example's README (269-271) says
  it stays failed. `LedgersTellTruth` excludes a run one of whose messages was sent twice.
* `exists()` and the reservation of `DedupMiddleware` are separated by an await
  (`middlewares/dedup/middleware.py:198`, `:206`), the race of which `stores/base.py:43-49`
  warns callers; two tasks of the buffered lane write one key twice. `WrittenOncePerKey`
  names the case.
* The eager scan of `agora plugins list` passes over a key the lazy scan at import has
  claimed (`core/registry.py:669`), so an incompatible plugin is not shown, where
  `plugins/contract.md:75` says it is "so operators can see why it was excluded"
  (`cli/commands/plugins.py:93` states the same intent). The tests scan eagerly on a fresh
  registry.

## 6. Further observations

Met while translating; no run of their own, most of them excepted by name in a
property or a configuration.

*Lanes.* A prefix drop of the buffered lane overtakes records in the stages
(`_lanes/_buffered.py:112`), a batch that fails before the pipelined stage overtakes
the batches in it (`_lanes/_batch.py:325`). All outcomes of a source batch carry the
same checkpoint, so one committed record commits the batch
(`_delivery_batch_write.py:51`, `:119`; `guides/runtime-guarantees.md:293`, `:298`).
The direct flush looks at the cadence once per batch, so `checkpoint_every` that is
no divisor of the batch size is stepped over (`_delivery_support.py:238`;
`guides/checkpointing.md:141`). A cancelled lane never closes its owner task
(`_lanes/_linear.py:166`). After a raising DLQ the buffered lane's final drain goes
on committing (`_lanes/_buffered.py:310`). DLQ and checkpoint writes under the
logging policies swallow `FenceLostError`; the fence is checked before the await of
the write it guards. The Arrow lane swallows `FenceLostError` too and, when the
chain removed rows, pairs failures with the wrong rows or raises.

*Lifecycle.* A cancellation during startup leaks the middlewares already started
and a half-open writer; during shutdown it skips the closes that remain. A source
whose `open()` failed is not closed, nor is the checkpoint store when restoring
failed. A run ended by `KeyboardInterrupt` returns a normal summary. When the DLQ took the failed
record of a source and `on_handled` then raises (`core/executor.py:139`), the caller sees that
error under any DLQ policy, the reason of the run at most as its context. `writer.flush`
happens once, at shutdown, after the checkpoints were saved.

*Scheduler.* What the shutdown writes asks no fence but for one flush (section 5). A
linear lane that is cancelled leaves its pending-write owner behind, which can still
finish the write it is at, beside the shutdown. The lease is held through the backoff
sleep. The lease-lost callback knows the pipeline only and can abort a later run. A pool
cancelled while the scheduler awaits an aborted run has its `CancelledError` swallowed.

*Writers.* Sequential flush and close stop at the first failing sink; a sink whose
own `open` failed is never closed; `WriteResult(written=False, errors=[])` is a
silent refusal, and the Arrow fallback takes it for success; the semaphore of row
writes is one per sink, so `max_concurrency` bounds sinks and not writes.

*Deduplication.* Two tasks of the buffered lane can both pass the lookup (section 5).
Later stages of that lane are taken to return the record they were given: for a record
they return anew and a later one drops, the hooks stay behind. Hooks are filed under
`id(record)` and can be inherited by an unrelated object; `_seen_keys` outgrows
`max_fuzzy_keys`, because a commit appends after the overflow; fuzzy mode forgets
everything at a restart.

*Process pool.* A dead worker breaks the pool and nothing recycles it; a failed
reopening leaves the closed runner in place; a lane's cancellation is swallowed
when the batch it awaits belongs to an invalidated generation.

*Prefetch.* Lanes never `aclose()` the generator; the thread's last partial batch is
dropped when the source raises; joining the thread blocks the loop for up to five
seconds and the thread may outlive it.

*HTTP.* A half-open breaker admits every request, where its comment speaks of one;
late results of calls from before it opened count as probes; concurrent requests
compute the same wait and go out together; a `ttl` of 0 stores what it never reads.

*File sources.* The Arrow sources for CSV and JSONL have no cursor to resume from. Blank
CSV rows are not counted. The identity is taken when a checkpoint is saved, not when the
file was opened (`_delivery_support.py:174`, `:245`), so a file replaced under a running
reader is resumed with the old cursor. `LimitedSource` trims a list and saves the cursor
behind it. A batch that reaches the Parquet queue while the consumer's wait expires after
the end was announced is left there. All but the first two are named exceptions of
`ResumesAtCursor` and `QuietEndIsComplete`.

*Buffering sinks.* Records are checkpointed when they are buffered, before they are on
disk. One record the mapper refuses fails every later flush and the close. A cancelled
flush leaves its thread writing while the records are put back. A `write()` whose flush
raised leaves its record in the buffer, so it can be both in the DLQ and in the file. A
new session of an overwriting sink truncates. With `append=True` on a new file the row
path writes no header; rows written through a handle opened with `"w"` overwrite bytes
written natively; a reused `CsvSink` opens the native writer without append.

*DLQ replay.* LIMIT is applied before eligibility, so rows out of attempts starve the
others. The engine never sets `max_attempts`. Two commands lose each other's attempt
counts. What is replayed is the redacted payload.

*Order command center.* `reconcile_producer_run` counts rows, so a duplicate can stand
for a missing event; its UPDATE has no condition on the state. Redis keeps the last
delivered event until the lag is gone, PostgreSQL the newest. A repair recorded as failed
may have been delivered, and a repaired run never verifies.

*Chain.* List stages replace objects without transferring their hooks.
`BatchMiddleware` counts holes as input. The native executor counts no metrics.

*Execution plan.* A `LimitedSource` always offers a source identity, also around a source
without one. `require_idempotent_sinks` holds vacuously for a writer that shows no sinks.
With `batch_size > 1` rows are regrouped, so sinks get lists the plan does not show. A
sink with an undeclared `write_arrow_batch` gets Arrow batches. `run()` evaluates the
policy on the source without its limit.

*AI.* With `on_error="raise"` a failed batch sets no future: callers wait for ever and the
timer task dies (exempted by name in `NobodyForgotten`). `AIBatchMiddleware.on_start` does
not call its base, so a run-scoped budget carries over. A call found over budget
afterwards is not recorded, so calls one after the other can each exceed it again. Answers
are cached before they are parsed.

*Schema.* FLOAT then INTEGER becomes STRING, where `widen_type` speaks of both directions
(`types.py:327`). A null is rejected under FREEZE. The version grows with every integer in
a STRING column. A column first seen as null makes `DISCARD_ROW` drop every later value.
`on_start` swallows the error of a strict store, so a frozen schema can drift.

*State stores.* LIKE ignores case, so a prefix delete can reach another namespace
(`state/backend.py:202`, `:219`). The DELETE of an expired row can remove a fresh one
(`:148`). Two resets can leave a `None` sentinel that a fail-closed file source refuses; a
running pipeline saves again after a reset. `clear()` with an empty namespace empties the
shared backend.

*Registry.* A loaded plugin without a MANIFEST conflicts with itself at the next scan. An
eager scan lets a second distribution take the key of an incompatible first one, a lazy
scan reports it as a conflict. A registration over a failed entry point keeps the failed
origin and can be replaced by a later eager scan. A factory registered over a lazy key
makes `get()` and `create()` answer differently.

## 7. What the models do not show

The models say nothing about payloads, serialization, performance, or memory; about a
store or sink that lies (reports success and keeps nothing); about more than one pipeline
per worker; or about the Rust extension, which is external and appears as the buffer
protocol the Python code relies on. Time is order, with a clock only in `HttpSource` and
`StateStore`. In the lanes the chain's effect on a record is a choice among outcomes; that
a particular middleware is deterministic or idempotent is not assumed.

## 8. Plan

Done, in this order, most important first: the checkpoint contract and the row lane
with its proofs; the queued, buffered and batch lanes; the scheduler; the lifecycle
of a run, the prefetch and the process pool; writers, deduplication and the HTTP
source; file sources and buffering sinks; DLQ replay, state stores and the commands
beside a run; the order command center; chain and execution plan; AI batches; schema
tracking; the registry.

Left to model: configuration validation (`config/pipeline.py`), staleness of what health
and metrics report, Arrow stages inside the chain, the codec of the process pool.

Proved: the four lanes and what they have in common, the scheduler, the lifecycle, process
pool and prefetch, execution plan, schema tracking, dead-letter replay, the order command
center, state stores, HTTP source and AI batches (section 4).

Next, to prove:

1. `MarkersAreTrue` of `Dedup`: the invariant relates hooks, reservations and store to the
   queue; an evicting store is cut by `SelectSeq`, of which the library says nothing.
2. `KeyHasOneOwner` of `Registry`, with the cases of lazy and eager scans.
3. `AcceptedIsWritten` of `BufferingSink`.

## 9. Not modelled

The inventory in `PROJECT.json` gives the reason for each. In short: pure assembly or
I/O without state that outlives a call (container, component factory, configuration
parsing, console, scaffolding, the diagnosis of `doctor`, the log and stdout sinks);
rendering (explain output, metrics export, tracing, health); adapters to the Rust
extension; redaction of DLQ payloads; the text of AI prompts and answers and the vector
search of embeddings; the enrich and validate middlewares, which keep no state.

## 10. Running it

In this directory, `tlc -workers 2 -config RowLane.cfg MCRowLane` checks a run (the pairs
of configuration and module are in `PROJECT.json`), `tlapm RowLane_proofs.tla` the proofs
of that module; the eight modules with proofs take about three quarters of an hour in all,
a third of it `Parts_proofs`. The longest runs take about three minutes on two cores.
