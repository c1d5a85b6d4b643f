---------------------------- MODULE BatchedLane ----------------------------
(***************************************************************************)
(* The linear lane with writer_batch_size > 1.  Records that leave the     *)
(* middleware chain are queued in `pending` and written in batches, by the *)
(* lane's own task ("inline", "direct") or by the pending-write owner task *)
(* ("owner"), which also flushes when a timer expires.  Records the chain  *)
(* drops never enter the queue: drop_record commits them at once.          *)
(*                                                                         *)
(* Both tasks run on one event loop, so a step reaches from one await to   *)
(* the next.  `pending` and the batch being flushed are sets of positions: *)
(* the queue is filled and drained in source order.                        *)
(***************************************************************************)
EXTENDS Delivery

VARIABLES
  \* the lane's task
  pc, run, next,
  stage,    \* the dropped record is a middleware failure not yet routed
  pdue,     \* checkpoint prepared for the dropped record (0: none)
  fate,     \* how the source loop ended: "none", "ok", "error"
  \* RunState, shared by the tasks
  pending, count, last,
  \* the flush in progress
  fl,       \* "none", "write", "resolve", "route", "persist", "hooks"
  batch, todo, part, acks, halt, due,
  \* the pending-write owner task and its events
  own, notify, stop, flushed, timed

pump  == <<pc, run, next, stage, pdue, fate>>
ckst  == <<count, last>>
flush == <<fl, batch, todo, part, acks, halt, due>>
owner == <<own, notify, stop, flushed, timed>>
vars  == <<conf, world, pump, pending, ckst, flush, owner>>

Halted == {"idle", "done", "failed", "cancelled"}
Busy   == {"pull", "route", "save", "ack", "flush", "capacity", "await", "close"}
Alive  == {"check", "wait", "flush"}

TypeOK ==
  /\ WorldTypeOK
  /\ pc \in Halted \cup Busy /\ run \in 0..MaxRuns /\ next \in 1..(N + 1)
  /\ stage \in {"none", "middleware"} /\ pdue \in 0..N
  /\ fate \in {"none", "ok", "error"}
  /\ pending \subseteq Position /\ count \in Nat /\ last \in 0..N
  /\ fl \in {"none", "write", "resolve", "route", "persist", "hooks"}
  /\ batch \subseteq Position /\ todo \subseteq batch /\ part \subseteq batch
  /\ acks \subseteq batch /\ halt \in 0..N /\ due \in 0..N
  /\ own \in Alive \cup {"none", "ended", "error"}
  /\ notify \in BOOLEAN /\ stop \in BOOLEAN /\ flushed \in BOOLEAN
  /\ timed \in BOOLEAN

\* Volatile state of a process that has just started.
Fresh ==
  /\ stage' = "none" /\ pdue' = 0 /\ fate' = "none"
  /\ pending' = {} /\ count' = 0 /\ last' = 0
  /\ fl' = "none" /\ batch' = {} /\ todo' = {} /\ part' = {} /\ acks' = {}
  /\ halt' = 0 /\ due' = 0
  /\ own' = "none" /\ notify' = FALSE /\ stop' = FALSE /\ flushed' = FALSE
  /\ timed' = FALSE

Init ==
  /\ WorldInit
  /\ pc = "idle" /\ run = 0 /\ next = 1
  /\ stage = "none" /\ pdue = 0 /\ fate = "none"
  /\ pending = {} /\ count = 0 /\ last = 0
  /\ fl = "none" /\ batch = {} /\ todo = {} /\ part = {} /\ acks = {}
  /\ halt = 0 /\ due = 0
  /\ own = "none" /\ notify = FALSE /\ stop = FALSE /\ flushed = FALSE
  /\ timed = FALSE

-----------------------------------------------------------------------------
(* The flush procedure: _flush_pending_writes_once and flush_batch_direct. *)

\* The queue is taken in one piece; what follows awaits the writer.
TakeBatch ==
  /\ batch' = pending /\ pending' = {}
  /\ fl' = "write"
  /\ todo' = {} /\ part' = {} /\ acks' = {} /\ halt' = 0 /\ due' = 0

\* Whoever flushes sees the exception: the lane's task ends the source loop
\* with it (the queue it took is gone, so the closing flush finds it empty),
\* the owner task records it, wakes a waiting lane and ends.
FlushEndsWith(failed) ==
  /\ fl' = "none" /\ batch' = {} /\ todo' = {} /\ part' = {} /\ acks' = {}
  /\ halt' = 0 /\ due' = 0
  /\ IF own = "flush"
     THEN /\ own' = IF failed THEN "error" ELSE "check"
          /\ flushed' = TRUE
          /\ UNCHANGED <<pc, fate>>
     ELSE /\ pc' = IF failed \/ fate = "error" THEN "failed"
                   ELSE IF fate = "ok" THEN "done" ELSE "pull"
          /\ UNCHANGED <<own, flushed, fate>>
  /\ UNCHANGED <<conf, run, next, stage, pdue, pending, notify, stop, timed>>

\* Every record is ok: _commit_pending_write_success_batch counts them, or
\* save_batch counts the batch on the direct path.
WriteAccepted ==
  /\ fl = "write"
  /\ written' = written \cup batch
  /\ count' = Counted(count, batch)
  /\ due' = IF conf.flush = "direct" THEN BatchEndDue(count, last, batch)
            ELSE LastDue(count, last, batch)
  /\ acks' = batch
  /\ fl' = "persist"
  /\ UNCHANGED <<conf, durable, dead, dropped, skipped, acked, pump, pending, last,
                 batch, todo, part, halt, owner>>

\* Some record is not ok: a fan-out accepted it in part, rejected it, or no
\* sink took it.  The first two are resolved one by one.
WriteMixed ==
  /\ fl = "write"
  /\ \E part1, err1, none1 \in SUBSET batch :
       /\ part1 \cap err1 = {} /\ part1 \cap none1 = {} /\ err1 \cap none1 = {}
       /\ part1 \cup err1 \cup none1 # {}
       /\ written' = written \cup (batch \ (err1 \cup none1))
       /\ dropped' = dropped \cup none1
       /\ part' = part1 /\ todo' = part1 \cup err1
       /\ acks' = batch \ todo'
  /\ fl' = "resolve"
  /\ UNCHANGED <<conf, durable, dead, skipped, acked, pump, pending, ckst,
                 batch, halt, due, owner>>

\* The writer raises: every record of the batch goes through the DLQ.
WriteRaises ==
  /\ fl = "write"
  /\ fl' = "route" /\ todo' = batch
  /\ UNCHANGED <<conf, world, pump, pending, ckst, batch, part, acks, halt, due, owner>>

\* FenceLostError: the run no longer owns its lease.
WriteFenced ==
  /\ fl = "write"
  /\ FlushEndsWith(TRUE)
  /\ UNCHANGED <<world, ckst>>

First(S) == CHOOSE p \in S : \A q \in S : p <= q

\* _resolve_write_result of the first unresolved record.
ResolveOne ==
  /\ fl = "resolve" /\ todo # {}
  /\ LET p == First(todo) IN \E r \in Routes :
       /\ dead' = dead \cup Captured(r, {p})
       /\ \/ /\ Continues(r)
             /\ skipped' = skipped \cup GivenUp(r, {p})
             /\ acks' = acks \cup (IF AckDue(r, p \in part) THEN {p} ELSE {})
             /\ todo' = todo \ {p}
             /\ UNCHANGED <<halt, pump, own, flushed, fl, batch, part, due>>
          \/ /\ r = "unrouted" /\ ~Continues(r)
             /\ halt' = IF halt = 0 THEN p ELSE halt
             /\ todo' = todo \ {p}
             /\ UNCHANGED <<skipped, acks, pump, own, flushed, fl, batch, part, due>>
          \/ /\ r = "raised"
             /\ FlushEndsWith(TRUE)
             /\ UNCHANGED skipped
  /\ UNCHANGED <<conf, durable, written, dropped, acked, pending, ckst,
                 notify, stop, timed>>

\* Mutant of StopAt: a batch committed past its first unrouted failure.
StopAtEnd(S, h) == S

\* commit_outcomes: the records before the first ErroredUnrouted are counted
\* and will be acknowledged.
StopAt(S, h) == IF h = 0 THEN S ELSE {p \in S : p < h}

PrepareOutcomes ==
  /\ fl = "resolve" /\ todo = {}
  /\ LET S == StopAt(batch, halt) IN
       /\ count' = Counted(count, S)
       /\ due' = LastDue(count, last, S)
       /\ acks' = acks \cap S
  /\ fl' = "persist"
  /\ UNCHANGED <<conf, world, pump, pending, last, batch, todo, part, halt, owner>>

\* flush_batch_outcomes: each record is routed and counted before the next.
RouteOne ==
  /\ fl = "route"
  /\ LET p == First(todo) IN \E r \in Routes :
       /\ dead' = dead \cup Captured(r, {p})
       /\ \/ /\ Continues(r)
             /\ skipped' = skipped \cup GivenUp(r, {p})
             /\ count' = Counted(count, {p})
             /\ due' = IF LastDue(count, last, {p}) # 0 THEN p ELSE due
             /\ acks' = acks \cup (IF AckDue(r, FALSE) THEN {p} ELSE {})
             /\ todo' = todo \ {p}
             /\ fl' = IF todo' = {} THEN "persist" ELSE "route"
             /\ UNCHANGED <<halt, pump, own, flushed, batch, part>>
          \/ /\ r = "unrouted" /\ ~Continues(r)
             /\ halt' = p /\ fl' = "persist"
             /\ UNCHANGED <<skipped, todo, acks, count, due, pump, own, flushed, batch, part>>
          \/ /\ r = "raised"
             /\ FlushEndsWith(TRUE)
             /\ UNCHANGED <<skipped, count>>
  /\ UNCHANGED <<conf, durable, written, dropped, acked, pending, last,
                 notify, stop, timed>>

\* persist the last due checkpoint of the batch, if any.
PersistBatch ==
  /\ fl = "persist"
  /\ \/ /\ due = 0
        /\ fl' = "hooks"
        /\ UNCHANGED <<durable, last, pump, own, flushed, batch, todo, part, acks, halt, due>>
     \/ /\ due # 0
        /\ durable' = due /\ last' = due /\ fl' = "hooks"
        /\ UNCHANGED <<pump, own, flushed, batch, todo, part, acks, halt, due>>
     \/ /\ due # 0 /\ conf.ckptPolicy = LOG_AND_CONTINUE
        /\ last' = due /\ fl' = "hooks"
        /\ UNCHANGED <<durable, pump, own, flushed, batch, todo, part, acks, halt, due>>
     \/ /\ due # 0 /\ conf.ckptPolicy = FAIL_CLOSED
        /\ FlushEndsWith(TRUE)
        /\ UNCHANGED <<durable, last>>
  /\ UNCHANGED <<conf, written, dead, dropped, skipped, acked, pending, count,
                 notify, stop, timed>>

\* The delivery hooks run one by one; a raising hook fails the flush.
RunHook ==
  /\ fl = "hooks" /\ acks # {}
  /\ \/ /\ acked' = acked \cup {First(acks)}
        /\ acks' = acks \ {First(acks)}
        /\ UNCHANGED <<pump, own, flushed, fl, batch, todo, part, halt, due>>
     \/ /\ FlushEndsWith(TRUE)
        /\ UNCHANGED acked
  /\ UNCHANGED <<conf, durable, written, dead, dropped, skipped, pending, ckst,
                 notify, stop, timed>>

\* The flush returns, or raises RecordDeliveryError for the record at `halt`.
FlushReturns ==
  /\ fl = "hooks" /\ acks = {}
  /\ FlushEndsWith(halt # 0)
  /\ UNCHANGED <<world, ckst>>

FlushStep ==
  \/ WriteAccepted \/ WriteMixed \/ WriteRaises \/ WriteFenced \/ ResolveOne \/ PrepareOutcomes
  \/ RouteOne \/ PersistBatch \/ RunHook \/ FlushReturns

-----------------------------------------------------------------------------
(* The lane's task. *)

\* Mutant of ResumePosition: resuming one record too far.
ResumeSkipsOne(v) == v + 2

ResumePosition(v) == v + 1

StartRun ==
  /\ pc \in Halted /\ own \notin Alive
  /\ run < MaxRuns
  /\ run' = run + 1 /\ pc' = "pull"
  /\ \E v \in ResumeValues : next' = ResumePosition(v)
  /\ Fresh
  /\ UNCHANGED <<conf, world>>

\* Mutant of SignalClose: stop is set and the owner not woken.
CloseSilently == stop' = TRUE /\ UNCHANGED notify

\* close_pending_write_owner, up to the await of the task.
SignalClose == stop' = TRUE /\ notify' = TRUE

\* LinearLaneStrategy.run after the loop over the source: flush_pending_writes
\* closes the owner task or flushes the queue itself; with nothing to flush
\* the run ends at once.
EndLoop(f) ==
  /\ fate' = f
  /\ IF own # "none"
     THEN /\ pc' = "close"
          /\ SignalClose
          /\ UNCHANGED <<pending, flush>>
     ELSE /\ IF pending # {}
             THEN pc' = "flush" /\ TakeBatch
             ELSE /\ pc' = IF f = "ok" THEN "done" ELSE "failed"
                  /\ UNCHANGED <<pending, flush>>
          /\ UNCHANGED <<stop, notify>>
  /\ UNCHANGED <<conf, ckst, run, next, own, flushed, timed>>

EndOfStream ==
  /\ pc = "pull" /\ next = N + 1
  /\ EndLoop("ok")
  /\ UNCHANGED <<world, stage, pdue>>

SourceFails ==
  /\ pc = "pull"
  /\ EndLoop("error")
  /\ UNCHANGED <<world, stage, pdue>>

\* Mutant of AtCapacity: a limit that admits one more.
OneTooMany(S) == Cardinality(S) > conf.batch

\* wait_for_pending_write_capacity and the inline flush start at this size.
AtCapacity(S) == Cardinality(S) >= conf.batch

\* queue_success_record.  In owner mode the first record creates the task; the
\* append clears `flushed`, sets `notify` and waits when the queue is full.
Enqueue ==
  /\ pc = "pull" /\ next <= N /\ "value" \in conf.mw
  /\ next' = next + 1
  /\ IF conf.flush = "owner"
     THEN /\ pending' = pending \cup {next}
          /\ own' = IF own = "none" THEN "check" ELSE own
          /\ flushed' = FALSE /\ notify' = TRUE
          /\ pc' = IF AtCapacity(pending') THEN "capacity" ELSE "pull"
          /\ UNCHANGED flush
     ELSE /\ IF AtCapacity(pending \cup {next})
             THEN /\ batch' = pending \cup {next} /\ pending' = {} /\ fl' = "write"
                  /\ todo' = {} /\ part' = {} /\ acks' = {} /\ halt' = 0 /\ due' = 0
                  /\ pc' = "flush"
             ELSE /\ pending' = pending \cup {next}
                  /\ UNCHANGED <<pc, flush>>
          /\ UNCHANGED <<own, flushed, notify>>
  /\ UNCHANGED <<conf, world, run, stage, pdue, fate, ckst, stop, timed>>

\* wait_for_pending_write_capacity: the loop condition, then the error of the
\* owner task, then the wait for `flushed`, after which the loop starts again.
CheckCapacity ==
  /\ pc = "capacity"
  /\ \/ /\ ~AtCapacity(pending)
        /\ pc' = "pull"
        /\ UNCHANGED <<conf, run, next, fate, pending, ckst, flush, owner>>
     \/ /\ AtCapacity(pending) /\ own # "error"
        /\ pc' = "await"
        /\ UNCHANGED <<conf, run, next, fate, pending, ckst, flush, owner>>
     \/ /\ AtCapacity(pending) /\ own = "error"
        /\ EndLoop("error")
  /\ UNCHANGED <<world, stage, pdue>>

AwaitFlushed ==
  /\ pc = "await" /\ flushed
  /\ pc' = "capacity"
  /\ UNCHANGED <<conf, world, run, next, stage, pdue, fate, pending, ckst, flush, owner>>

\* drop_record without a failure: prepare runs before the first await.
DropRecord ==
  /\ pc = "pull" /\ next <= N /\ "drop" \in conf.mw
  /\ dropped' = dropped \cup {next}
  /\ count' = Counted(count, {next}) /\ pdue' = LastDue(count, last, {next})
  /\ pc' = "save"
  /\ UNCHANGED <<conf, durable, written, dead, skipped, acked, run, next, stage,
                 fate, pending, last, flush, owner>>

\* drop_record with a MiddlewareFailure: first the DLQ.
MiddlewareFails ==
  /\ pc = "pull" /\ next <= N /\ "fail" \in conf.mw
  /\ pc' = "route" /\ stage' = "middleware"
  /\ UNCHANGED <<conf, world, run, next, pdue, fate, pending, ckst, flush, owner>>

RouteDropped ==
  /\ pc = "route"
  /\ stage' = "none"
  /\ \E r \in Routes :
       /\ dead' = dead \cup Captured(r, {next})
       /\ \/ /\ r = "routed" \/ (r = "unrouted" /\ ~conf.dlq)
             /\ dropped' = IF conf.dlq THEN dropped ELSE dropped \cup {next}
             /\ count' = Counted(count, {next})
             /\ pdue' = LastDue(count, last, {next})
             /\ pc' = "save"
             /\ UNCHANGED <<skipped, next, run, fate, conf, pending, last, flush, owner>>
          \/ /\ r = "unrouted" /\ conf.dlq /\ ~conf.store
             /\ skipped' = skipped \cup {next}
             /\ pc' = "pull" /\ next' = next + 1
             /\ UNCHANGED <<dropped, count, pdue, run, fate, conf, pending, last, flush, owner>>
          \/ /\ r = "raised" \/ (r = "unrouted" /\ conf.dlq /\ conf.store)
             /\ EndLoop("error")
             /\ UNCHANGED <<dropped, skipped, pdue>>
  /\ UNCHANGED <<durable, written, acked>>

\* persist for the dropped record.
PersistDropped ==
  /\ pc = "save"
  /\ pdue' = 0
  /\ \/ /\ pdue = 0
        /\ pc' = "ack"
        /\ UNCHANGED <<conf, durable, ckst, run, next, fate, pending, flush, owner>>
     \/ /\ pdue # 0
        /\ durable' = pdue /\ last' = pdue /\ pc' = "ack"
        /\ UNCHANGED <<conf, count, run, next, fate, pending, flush, owner>>
     \/ /\ pdue # 0 /\ conf.ckptPolicy = LOG_AND_CONTINUE
        /\ last' = pdue /\ pc' = "ack"
        /\ UNCHANGED <<conf, durable, count, run, next, fate, pending, flush, owner>>
     \/ /\ pdue # 0 /\ conf.ckptPolicy = FAIL_CLOSED
        /\ EndLoop("error")
        /\ UNCHANGED durable
  /\ UNCHANGED <<written, dead, dropped, skipped, acked, stage>>

AckDropped ==
  /\ pc = "ack"
  /\ \/ /\ acked' = acked \cup {next}
        /\ next' = next + 1 /\ pc' = "pull"
        /\ UNCHANGED <<conf, ckst, run, fate, pending, flush, owner>>
     \/ /\ EndLoop("error")
        /\ UNCHANGED acked
  /\ UNCHANGED <<durable, written, dead, dropped, skipped, stage, pdue>>

\* close_pending_write_owner returns once the task has ended; the error it
\* left is raised again.
OwnerClosed ==
  /\ pc = "close" /\ own \in {"ended", "error"}
  /\ pc' = IF own = "error" \/ fate = "error" THEN "failed" ELSE "done"
  /\ own' = "none"
  /\ UNCHANGED <<conf, world, run, next, stage, pdue, fate, pending, ckst, flush,
                 notify, stop, flushed, timed>>

-----------------------------------------------------------------------------
(* run_pending_write_owner *)

\* Mutant of WaitIsTimed: an owner that waits for notify alone.
NeverTimed(S) == FALSE

\* The wait has a timeout only if something is queued.
WaitIsTimed(S) == S # {}

\* The top of the loop: return, flush a full queue, or wait for `notify`.
OwnerLoop ==
  /\ own = "check"
  /\ \/ /\ stop /\ pending = {}
        /\ own' = "ended"
        /\ UNCHANGED <<pending, flush, timed>>
     \/ /\ ~(stop /\ pending = {}) /\ AtCapacity(pending)
        /\ own' = "flush" /\ TakeBatch
        /\ UNCHANGED timed
     \/ /\ ~(stop /\ pending = {}) /\ ~AtCapacity(pending)
        /\ own' = "wait" /\ timed' = WaitIsTimed(pending)
        /\ UNCHANGED <<pending, flush>>
  /\ UNCHANGED <<conf, world, pump, ckst, notify, stop, flushed>>

\* `notify` was set: flush only if the run is closing.
OwnerNotified ==
  /\ own = "wait" /\ notify
  /\ notify' = FALSE
  /\ IF stop /\ pending # {}
     THEN own' = "flush" /\ TakeBatch
     ELSE own' = "check" /\ UNCHANGED <<pending, flush>>
  /\ UNCHANGED <<conf, world, pump, ckst, stop, flushed, timed>>

\* The timer expired: flush what is queued.  `notify` is cleared here too.
OwnerTimeout ==
  /\ own = "wait" /\ timed
  /\ notify' = FALSE
  /\ IF pending # {}
     THEN own' = "flush" /\ TakeBatch
     ELSE own' = "check" /\ UNCHANGED <<pending, flush>>
  /\ UNCHANGED <<conf, world, pump, ckst, stop, flushed, timed>>

OwnerStep == OwnerLoop \/ OwnerNotified \/ OwnerTimeout

-----------------------------------------------------------------------------

\* The process dies.
Crash ==
  /\ pc \in Busy
  /\ pc' = "idle" /\ Fresh
  /\ UNCHANGED <<conf, world, run, next>>

\* The run's task is cancelled: CancelledError passes `except Exception`, so
\* nothing is flushed or closed.  An inline flush dies with the task, the owner
\* task only when it is being awaited.
Cancel ==
  /\ pc \in Busy
  /\ pc' = "cancelled"
  /\ IF own \in Alive /\ pc # "close"
     THEN UNCHANGED <<pending, flush, owner>>
     ELSE /\ fl' = "none" /\ batch' = {} /\ todo' = {} /\ part' = {}
          /\ acks' = {} /\ halt' = 0 /\ due' = 0
          /\ own' = "none" /\ pending' = {}
          /\ UNCHANGED <<notify, stop, flushed, timed>>
  /\ UNCHANGED <<conf, world, run, next, stage, pdue, fate, ckst>>

\* Bound: no further start, and none beside an owner task left by Cancel.
Finished ==
  /\ pc \in Halted /\ (run = MaxRuns \/ own \in Alive)
  /\ UNCHANGED vars

PumpStep ==
  \/ CheckCapacity \/ AwaitFlushed \/ RouteDropped \/ PersistDropped
  \/ AckDropped \/ OwnerClosed

Pull == Enqueue \/ DropRecord \/ MiddlewareFails \/ EndOfStream

Next ==
  \/ StartRun \/ Pull \/ SourceFails \/ PumpStep \/ FlushStep \/ OwnerStep
  \/ Crash \/ Cancel \/ Finished

Spec == Init /\ [][Next]_vars

\* Tasks of a live loop get to run, awaited calls return and timers expire; a
\* source may stay silent for ever, and nothing has to be started or to fail.
FairSpec ==
  /\ Spec
  /\ WF_vars(FlushStep) /\ WF_vars(PumpStep) /\ WF_vars(OwnerStep)

-----------------------------------------------------------------------------
(* Properties *)

\* The store never holds a position with an unhandled record at or below it.
\* Holds when the chain neither drops nor fails (see README for the rest).
CheckpointCovers == 1..durable \subseteq Handled

\* No record is forgotten in the queue, in a batch or in the owner task when
\* the run reports success.
CompletedRunHandledAll == pc = "done" => Position \subseteq Handled

\* A source delivery is acknowledged only for a record that was written, sent
\* to the DLQ or dropped; never for one whose sink failure was only logged or
\* that follows the record a failing batch stopped at.
AckedIsAccountedFor == acked \subseteq written \cup dead \cup dropped

\* writer_batch_size bounds the queue although the lane keeps pulling while the
\* owner task writes: wait_for_pending_write_capacity is real backpressure.
QueueBounded == Cardinality(pending) <= conf.batch /\ Cardinality(batch) <= conf.batch

\* `checkpoint_every` bounds what a crash replays: with nothing in flight fewer
\* than `every` handled records lie behind the store.
ReplayWindow ==
  (conf.store /\ conf.ckptPolicy = FAIL_CLOSED /\ pc = "pull" /\ fl = "none"
     /\ pending = {} /\ own # "error")
  => next - 1 - durable < conf.every

\* A queued record leaves the queue although the source stays silent: the owner
\* task never sleeps without a timer on a non-empty queue.
QueuedIsFlushed ==
  \A p \in Position :
    (conf.flush = "owner" /\ p \in pending) ~> (p \notin pending \/ own \notin Alive)

\* A run over a source that delivers until it is exhausted comes to an end: lane
\* and owner task never wait for one another for ever.
RunEnds == WF_vars(Pull) => (pc \in Busy ~> pc \in Halted)

\* The lane keeps the promise of CheckpointContract.
Contract == INSTANCE CheckpointContract WITH handled <- Handled, ckpt <- durable
KeepsContract == Contract!Spec
=============================================================================
