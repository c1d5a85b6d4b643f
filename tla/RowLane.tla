------------------------------- MODULE RowLane -------------------------------
(***************************************************************************)
(* The linear lane with writer_batch_size <= 1: one record at a time is    *)
(* pulled, run through the middleware chain, written, routed to the DLQ if *)
(* that failed, checkpointed and acknowledged.  Every await that has an    *)
(* outside effect is a step of its own, so that a crash can fall between   *)
(* any two of them; after a crash, a failure or completion the pipeline    *)
(* may be started again and resumes from the store.                        *)
(***************************************************************************)
EXTENDS Delivery

VARIABLES
  pc,     \* where the run is; "idle": no process
  run,    \* runs started so far
  next,   \* position being handled, or about to be pulled
  count,  \* CheckpointState.processed_count
  last,   \* CheckpointState.last_saved_value (0: None)
  stage,  \* which failure is being routed
  hook    \* on_success of the commit outcome: "carried" or "none"

lane == <<pc, run, next, count, last, stage, hook>>
vars == <<conf, world, lane>>

Halted == {"idle", "done", "failed"}
Busy   == {"pull", "write", "route", "save", "ack"}

TypeOK ==
  /\ WorldTypeOK
  /\ pc \in Halted \cup Busy
  /\ run \in 0..MaxRuns
  /\ next \in 1..(N + 1)
  /\ count \in Nat
  /\ last \in 0..N
  /\ stage \in {"none", "middleware", "sink", "partial"}
  /\ hook \in {"carried", "none"}

Init ==
  /\ WorldInit
  /\ pc = "idle" /\ run = 0 /\ next = 1
  /\ count = 0 /\ last = 0 /\ stage = "none" /\ hook = "none"

-----------------------------------------------------------------------------
(* Startup: load the checkpoint and position the source after it. *)

\* Mutant of ResumePosition: resuming one record too far.
ResumeSkipsOne(v) == v + 2

\* Mutant of ResumePosition: resuming at the first record.
IgnoreCursor(v) == 1

ResumePosition(v) == v + 1

StartRun ==
  /\ pc \in Halted
  /\ run < MaxRuns
  /\ run' = run + 1
  /\ \E v \in ResumeValues : next' = ResumePosition(v)
  /\ pc' = "pull" /\ count' = 0 /\ last' = 0
  /\ stage' = "none" /\ hook' = "none"
  /\ UNCHANGED <<conf, world>>

LoadFails ==
  /\ pc \in Halted
  /\ run < MaxRuns
  /\ LoadMayAbort
  /\ run' = run + 1
  /\ pc' = "failed"
  /\ UNCHANGED <<conf, world, next, count, last, stage, hook>>

-----------------------------------------------------------------------------
(* LinearLaneStrategy.run: the body of the loop over the source records. *)

\* The next record is pulled and run through the middleware chain.
Pull ==
  /\ pc = "pull" /\ next <= N
  /\ \/ /\ "value" \in conf.mw
        /\ pc' = "write"
        /\ UNCHANGED <<world, stage, hook>>
     \/ /\ "drop" \in conf.mw
        /\ dropped' = dropped \cup {next}
        /\ pc' = "save" /\ hook' = "carried"
        /\ UNCHANGED <<durable, written, dead, skipped, acked, stage>>
     \/ /\ "fail" \in conf.mw
        /\ pc' = "route" /\ stage' = "middleware"
        /\ UNCHANGED <<world, hook>>
  /\ UNCHANGED <<conf, run, next, count, last>>

\* The source is exhausted: the run completes.
EndOfStream ==
  /\ pc = "pull" /\ next = N + 1
  /\ pc' = "done"
  /\ UNCHANGED <<conf, world, run, next, count, last, stage, hook>>

\* The source raises, or the run is cancelled while it waits for a record.
SourceFails ==
  /\ pc = "pull"
  /\ pc' = "failed"
  /\ UNCHANGED <<conf, world, run, next, count, last, stage, hook>>

\* write_processed_record: one WriteResult.  "partial" is a fan-out
\* some sinks of which accepted the record and some failed.
WriteOne ==
  /\ pc = "write"
  /\ \/ /\ written' = written \cup {next}
        /\ pc' = "save" /\ hook' = "carried"
        /\ UNCHANGED <<dropped, stage>>
     \/ /\ dropped' = dropped \cup {next}          \* no sink took the record
        /\ pc' = "save" /\ hook' = "carried"
        /\ UNCHANGED <<written, stage>>
     \/ /\ written' = written \cup {next}
        /\ pc' = "route" /\ stage' = "partial"
        /\ UNCHANGED <<dropped, hook>>
     \/ /\ pc' = "route" /\ stage' = "sink"
        /\ UNCHANGED <<written, dropped, hook>>
     \/ /\ pc' = "failed"                          \* FenceLostError
        /\ UNCHANGED <<written, dropped, stage, hook>>
  /\ UNCHANGED <<conf, durable, dead, skipped, acked, run, next, count, last>>

\* drop_record: a middleware failure.  A configured DLQ that did not take the
\* record stops a checkpointed run; without a store the record is skipped,
\* neither counted nor acknowledged.  Without any DLQ it counts as dropped.
RouteMiddlewareFailure ==
  /\ pc = "route" /\ stage = "middleware"
  /\ \E r \in Routes :
       /\ dead' = dead \cup Captured(r, {next})
       /\ \/ /\ r = "routed" \/ (r = "unrouted" /\ ~conf.dlq)
             /\ dropped' = IF conf.dlq THEN dropped ELSE dropped \cup {next}
             /\ pc' = "save" /\ hook' = "carried"
             /\ UNCHANGED <<skipped, next>>
          \/ /\ r = "unrouted" /\ conf.dlq /\ ~conf.store
             /\ skipped' = skipped \cup {next}
             /\ pc' = "pull" /\ next' = next + 1
             /\ UNCHANGED <<dropped, hook>>
          \/ /\ r = "raised" \/ (r = "unrouted" /\ conf.dlq /\ conf.store)
             /\ pc' = "failed"
             /\ UNCHANGED <<dropped, skipped, next, hook>>
  /\ stage' = "none"
  /\ UNCHANGED <<conf, durable, written, acked, run, count, last>>

\* write_processed_record / resolve_write_result: a sink failure.
RouteSinkFailure ==
  /\ pc = "route" /\ stage \in {"sink", "partial"}
  /\ \E r \in Routes :
       /\ dead' = dead \cup Captured(r, {next})
       /\ \/ /\ Continues(r)
             /\ skipped' = skipped \cup GivenUp(r, {next})
             /\ pc' = "save" /\ hook' = IF AckDue(r, stage = "partial") THEN "carried" ELSE "none"
          \/ /\ ~Continues(r)
             /\ pc' = "failed"
             /\ UNCHANGED <<skipped, hook>>
  /\ stage' = "none"
  /\ UNCHANGED <<conf, durable, written, dropped, acked, run, next, count, last>>

\* CheckpointManager.save: prepare counts the record, persist saves it when
\* due.  A save that failed under LOG_AND_CONTINUE is marked as saved.
Save ==
  /\ pc = "save"
  /\ count' = IF conf.store THEN count + 1 ELSE count
  /\ \/ /\ ~(conf.store /\ ShouldSave(count', last, next))
        /\ pc' = "ack"
        /\ UNCHANGED <<durable, last>>
     \/ /\ conf.store /\ ShouldSave(count', last, next)
        /\ durable' = next /\ last' = next
        /\ pc' = "ack"
     \/ /\ conf.store /\ ShouldSave(count', last, next)
        /\ UNCHANGED durable
        /\ \/ /\ conf.ckptPolicy = LOG_AND_CONTINUE
              /\ last' = next /\ pc' = "ack"
           \/ /\ conf.ckptPolicy = FAIL_CLOSED
              /\ pc' = "failed"
              /\ UNCHANGED last
  /\ UNCHANGED <<conf, written, dead, dropped, skipped, acked, run, next, stage, hook>>

\* The on_success hook of the commit outcome, if it carries one; it may raise.
Ack ==
  /\ pc = "ack"
  /\ \/ /\ hook = "carried"
        /\ acked' = acked \cup {next}
        /\ next' = next + 1 /\ pc' = "pull"
     \/ /\ hook = "none"
        /\ next' = next + 1 /\ pc' = "pull"
        /\ UNCHANGED acked
     \/ /\ hook = "carried"
        /\ pc' = "failed"
        /\ UNCHANGED <<next, acked>>
  /\ UNCHANGED <<conf, durable, written, dead, dropped, skipped,
                 run, count, last, stage, hook>>

\* The process dies, or the run is cancelled, between two awaits.
Crash ==
  /\ pc \in Busy
  /\ pc' = "idle"
  /\ UNCHANGED <<conf, world, run, next, count, last, stage, hook>>

\* No further start within the bound.
Finished == pc \in Halted /\ run = MaxRuns /\ UNCHANGED vars

Next ==
  \/ StartRun \/ LoadFails \/ Pull \/ EndOfStream \/ SourceFails \/ WriteOne
  \/ RouteMiddlewareFailure \/ RouteSinkFailure \/ Save \/ Ack \/ Crash
  \/ Finished

Spec == Init /\ [][Next]_vars

-----------------------------------------------------------------------------
(* Properties *)

\* The store never holds a position with an unhandled record at or below it,
\* over any number of crashes, failed saves and resumes: save_checkpoint runs
\* only after the record reached its terminal outcome.
CheckpointCovers == 1..durable \subseteq Handled

\* A run that completes has left no record behind: resuming skips only what
\* earlier runs handled, and no failure path falls through to the next record.
CompletedRunHandledAll == pc = "done" => Position \subseteq Handled

\* A source delivery is acknowledged only for a record that was written, sent
\* to the DLQ or dropped by the chain; never for a sink failure merely logged.
AckedIsAccountedFor == acked \subseteq written \cup dead \cup dropped

\* With fail-closed checkpoints a crash replays fewer than `every` records that
\* were already handled, plus the one in flight.
ReplayWindow ==
  (conf.store /\ conf.ckptPolicy = FAIL_CLOSED /\ pc = "pull")
     => next - 1 - durable < conf.every

\* The store never moves backwards under fail-closed checkpoints: a run starts
\* after the stored position and only saves positions it went through.
CheckpointMonotone ==
  [][conf.ckptPolicy = FAIL_CLOSED => durable' >= durable]_vars

\* The row lane keeps the promise of CheckpointContract.
Contract == INSTANCE CheckpointContract WITH handled <- Handled, ckpt <- durable
KeepsContract == Contract!Spec
=============================================================================
