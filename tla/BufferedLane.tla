---------------------------- MODULE BufferedLane ----------------------------
(***************************************************************************)
(* The buffered lane, with writer_batch_size <= 1: after a synchronous     *)
(* prefix of the middleware chain a record is submitted to concurrent      *)
(* stages, whose futures complete in any order; the lane resolves them in  *)
(* source order and delivers one record at a time.  In-flight work is      *)
(* limited by a stage limit that may adapt to writer and checkpoint speed. *)
(*                                                                         *)
(* conf.mw is what the prefix can do with a record; the stages and the     *)
(* suffix can return it, drop it or fail.  `queue` is a set of positions:  *)
(* the deque is filled and emptied in source order.                        *)
(***************************************************************************)
EXTENDS Delivery

CONSTANTS MinLimit, MaxLimit      \* range of the stage limit

ASSUME LimitAssumption == /\ MinLimit \in Nat \ {0}
                          /\ MaxLimit \in Nat /\ MinLimit <= MaxLimit

VARIABLES
  pc, run, next,
  queue,     \* submitted, not yet resolved
  ready,     \* their future is done
  limit,     \* stage_limit
  cur,       \* the record being resolved or dispatched (0: none)
  back,      \* where the lane goes on after dispatching it
  stage,     \* which failure of `cur` is being routed
  hook,      \* on_success of its outcome: "carried" or "none"
  fate,      \* how the source loop ended
  fenced,    \* the lease is gone: every fence check fails from now on
  count, last,
  lastSink   \* history: greatest position handed to the writer in this run

lane == <<pc, run, next, queue, ready, limit, cur, back, stage, hook, fate, fenced,
          count, last, lastSink>>
vars == <<conf, world, lane>>

Halted == {"idle", "done", "failed"}
Busy   == {"pull", "loop", "drain", "final", "await", "write", "route", "save", "ack"}

TypeOK ==
  /\ WorldTypeOK
  /\ pc \in Halted \cup Busy /\ run \in 0..MaxRuns /\ next \in 1..(N + 1)
  /\ queue \subseteq Position /\ ready \subseteq queue \cup {cur}
  /\ limit \in MinLimit..MaxLimit /\ cur \in 0..N
  /\ back \in {"pull", "loop", "drain", "final"}
  /\ stage \in {"none", "middleware", "sink", "partial"}
  /\ hook \in {"carried", "none"} /\ fate \in {"none", "ok", "error"}
  /\ fenced \in BOOLEAN /\ count \in Nat /\ last \in 0..N /\ lastSink \in 0..N

Init ==
  /\ WorldInit
  /\ pc = "idle" /\ run = 0 /\ next = 1 /\ queue = {} /\ ready = {}
  /\ limit \in MinLimit..MaxLimit
  /\ cur = 0 /\ back = "pull" /\ stage = "none" /\ hook = "none" /\ fate = "none"
  /\ fenced = FALSE /\ count = 0 /\ last = 0 /\ lastSink = 0

\* Mutant of ResumePosition: resuming one record too far.
ResumeSkipsOne(v) == v + 2

ResumePosition(v) == v + 1

StartRun ==
  /\ pc \in Halted /\ run < MaxRuns
  /\ run' = run + 1 /\ pc' = "pull"
  /\ \E v \in ResumeValues : next' = ResumePosition(v)
  /\ queue' = {} /\ ready' = {} /\ cur' = 0 /\ back' = "pull" /\ stage' = "none"
  /\ hook' = "none" /\ fate' = "none" /\ fenced' = FALSE
  /\ count' = 0 /\ last' = 0 /\ lastSink' = 0
  /\ UNCHANGED <<conf, world, limit>>

-----------------------------------------------------------------------------
(* How a failure ends the source loop or the run. *)

\* _abort_pending_work: pending futures are cancelled and nothing is committed.
Abort ==
  /\ pc' = "failed" /\ queue' = {} /\ ready' = {} /\ cur' = 0
  /\ UNCHANGED <<back, fate>>

\* An exception that is neither a RecordDeliveryError nor a checkpoint error:
\* the source loop ends, but the pending records are still drained; during that
\* final drain it aborts.
SoftError ==
  IF back = "final" THEN Abort
  ELSE /\ pc' = "final" /\ fate' = "error" /\ cur' = 0
       /\ UNCHANGED <<back, queue, ready>>

\* The record is dispatched.
Return == pc' = back /\ cur' = 0 /\ UNCHANGED <<back, fate, queue, ready>>

-----------------------------------------------------------------------------
(* The source loop. *)

\* Mutant of Full: a limit that admits one more.
OneTooMany(q) == Cardinality(q) > limit

Full(q) == Cardinality(q) >= limit

\* The prefix returned a value: submit it.
Submit ==
  /\ pc = "pull" /\ next <= N /\ "value" \in conf.mw
  /\ queue' = queue \cup {next}
  /\ next' = next + 1 /\ pc' = "loop"
  /\ UNCHANGED <<conf, world, run, ready, limit, cur, back, stage, hook, fate, fenced,
                 count, last, lastSink>>

\* The prefix dropped the record, or failed: dispatched at once, ahead of the
\* records still in the queue.
PrefixDrops ==
  /\ pc = "pull" /\ next <= N
  /\ cur' = next /\ next' = next + 1 /\ back' = "pull"
  /\ \/ /\ "drop" \in conf.mw
        /\ dropped' = dropped \cup {next}
        /\ pc' = "save" /\ hook' = "carried"
        /\ UNCHANGED stage
     \/ /\ "fail" \in conf.mw
        /\ pc' = "route" /\ stage' = "middleware"
        /\ UNCHANGED <<dropped, hook>>
  /\ UNCHANGED <<conf, durable, written, dead, skipped, acked, run, queue, ready, limit,
                 fate, fenced, count, last, lastSink>>

SourceEnds ==
  /\ pc = "pull"
  /\ \/ next = N + 1 /\ fate' = "ok"
     \/ fate' = "error"
  /\ pc' = "final"
  /\ UNCHANGED <<conf, world, run, next, queue, ready, limit, cur, back, stage, hook,
                 fenced, count, last, lastSink>>

\* A stage finishes with a record, in any order.
CompleteFuture ==
  /\ pc \in Busy
  /\ \E p \in (queue \cup (IF pc = "await" THEN {cur} ELSE {})) \ ready :
       ready' = ready \cup {p}
  /\ UNCHANGED <<conf, world, pc, run, next, queue, limit, cur, back, stage, hook, fate,
                 fenced, count, last, lastSink>>

\* AdaptiveBackpressureController.observe: one step down when writer or store
\* are slow, one step up when both are fast and the queue is saturated.
NextLimit(full) ==
  {l \in MinLimit..MaxLimit : l = limit \/ l = limit - 1 \/ (full /\ l = limit + 1)}

\* `while len(pending) >= stage_limit`
LoopHead ==
  /\ pc = "loop"
  /\ \/ /\ Full(queue)
        /\ limit' \in NextLimit(Full(queue))
        /\ pc' = "drain"
     \/ /\ ~Full(queue)
        /\ pc' = "pull"
        /\ UNCHANGED limit
  /\ UNCHANGED <<conf, world, run, next, queue, ready, cur, back, stage, hook, fate,
                 fenced, count, last, lastSink>>

\* Mutant of Oldest: committing what was submitted last.
Newest(q) == CHOOSE p \in q : \A x \in q : x <= p

Oldest(q) == CHOOSE p \in q : \A x \in q : p <= x

Popped(q) == q \ {Oldest(q)}

\* _drain_ready: the head is taken while its future is done; when it is not,
\* the lane pulls again or, still at the limit, waits for the head
\* (_commit_next).  The final drain takes every record.
PopHead ==
  /\ pc \in {"drain", "final"} /\ queue # {}
  /\ pc = "drain" => Oldest(queue) \in ready \/ Full(queue)
  /\ cur' = Oldest(queue) /\ queue' = Popped(queue)
  /\ back' = IF pc = "final" THEN "final"
             ELSE IF Oldest(queue) \in ready THEN "drain" ELSE "loop"
  /\ pc' = "await"
  /\ UNCHANGED <<conf, world, run, next, ready, limit, stage, hook, fate, fenced, count,
                 last, lastSink>>

LeaveDrain ==
  /\ pc = "drain" /\ ~Full(queue)
  /\ queue # {} => Oldest(queue) \notin ready
  /\ pc' = "pull"
  /\ UNCHANGED <<conf, world, run, next, queue, ready, limit, cur, back, stage, hook,
                 fate, fenced, count, last, lastSink>>

\* The drain after the loop is over: the run's result is the loop's.
FinalEnd ==
  /\ pc = "final" /\ queue = {}
  /\ pc' = IF fate = "ok" THEN "done" ELSE "failed"
  /\ UNCHANGED <<conf, world, run, next, queue, ready, limit, cur, back, stage, hook,
                 fate, fenced, count, last, lastSink>>

\* The awaited future and the rest of the chain decide the record's outcome.
Resolve ==
  /\ pc = "await" /\ cur \in ready
  /\ ready' = ready \ {cur}
  /\ \/ /\ pc' = "write"
        /\ UNCHANGED <<dropped, stage, hook>>
     \/ /\ dropped' = dropped \cup {cur}
        /\ pc' = "save" /\ hook' = "carried"
        /\ UNCHANGED stage
     \/ /\ pc' = "route" /\ stage' = "middleware"
        /\ UNCHANGED <<dropped, hook>>
  /\ UNCHANGED <<conf, durable, written, dead, skipped, acked, run, next, queue, limit,
                 cur, back, fate, fenced, count, last, lastSink>>

-----------------------------------------------------------------------------
(* dispatch_processed_result of the record `cur`. *)

WriteOne ==
  /\ pc = "write"
  /\ \/ /\ ~fenced
        /\ lastSink' = cur
        /\ \/ /\ written' = written \cup {cur}
              /\ pc' = "save" /\ hook' = "carried"
              /\ UNCHANGED <<dropped, stage>>
           \/ /\ dropped' = dropped \cup {cur}         \* no sink took the record
              /\ pc' = "save" /\ hook' = "carried"
              /\ UNCHANGED <<written, stage>>
           \/ /\ written' = written \cup {cur}
              /\ pc' = "route" /\ stage' = "partial"
              /\ UNCHANGED <<dropped, hook>>
           \/ /\ pc' = "route" /\ stage' = "sink"
              /\ UNCHANGED <<written, dropped, hook>>
        /\ UNCHANGED <<queue, ready, cur, back, fate>>
     \/ /\ fenced                                      \* FenceLostError
        /\ SoftError
        /\ UNCHANGED <<written, dropped, stage, hook, lastSink>>
  /\ UNCHANGED <<conf, durable, dead, skipped, acked, run, next, limit, fenced, count, last>>

\* The DLQ sink is fenced as well: its write fails once the lease is gone.
FencedRoutes == IF fenced THEN Routes \ {"routed"} ELSE Routes

RouteMiddlewareFailure ==
  /\ pc = "route" /\ stage = "middleware"
  /\ \E r \in FencedRoutes :
       /\ dead' = dead \cup Captured(r, {cur})
       /\ \/ /\ r = "routed" \/ (r = "unrouted" /\ ~conf.dlq)
             /\ dropped' = IF conf.dlq THEN dropped ELSE dropped \cup {cur}
             /\ pc' = "save" /\ hook' = "carried"
             /\ UNCHANGED <<skipped, queue, ready, cur, back, fate>>
          \/ /\ r = "unrouted" /\ conf.dlq /\ ~conf.store
             /\ skipped' = skipped \cup {cur}
             /\ Return
             /\ UNCHANGED <<dropped, hook>>
          \/ /\ r = "unrouted" /\ conf.dlq /\ conf.store
             /\ Abort
             /\ UNCHANGED <<dropped, skipped, hook>>
          \/ /\ r = "raised"
             /\ SoftError
             /\ UNCHANGED <<dropped, skipped, hook>>
  /\ stage' = "none"
  /\ UNCHANGED <<conf, durable, written, acked, run, next, limit, fenced, count, last,
                 lastSink>>

RouteSinkFailure ==
  /\ pc = "route" /\ stage \in {"sink", "partial"}
  /\ \E r \in FencedRoutes :
       /\ dead' = dead \cup Captured(r, {cur})
       /\ \/ /\ Continues(r)
             /\ skipped' = skipped \cup GivenUp(r, {cur})
             /\ pc' = "save"
             /\ hook' = IF AckDue(r, stage = "partial") THEN "carried" ELSE "none"
             /\ UNCHANGED <<queue, ready, cur, back, fate>>
          \/ /\ ~Continues(r) /\ r = "unrouted"
             /\ Abort
             /\ UNCHANGED <<skipped, hook>>
          \/ /\ r = "raised"
             /\ SoftError
             /\ UNCHANGED <<skipped, hook>>
  /\ stage' = "none"
  /\ UNCHANGED <<conf, durable, written, dropped, acked, run, next, limit, fenced, count,
                 last, lastSink>>

\* CheckpointManager.save; a failing fence check is a failing save.
Save ==
  /\ pc = "save"
  /\ count' = Counted(count, {cur})
  /\ LET due == LastDue(count, last, {cur}) IN
     \/ /\ due = 0
        /\ pc' = "ack"
        /\ UNCHANGED <<durable, last, queue, ready, cur, back, fate>>
     \/ /\ due # 0 /\ ~fenced
        /\ durable' = due /\ last' = due /\ pc' = "ack"
        /\ UNCHANGED <<queue, ready, cur, back, fate>>
     \/ /\ due # 0 /\ conf.ckptPolicy = LOG_AND_CONTINUE
        /\ last' = due /\ pc' = "ack"
        /\ UNCHANGED <<durable, queue, ready, cur, back, fate>>
     \/ /\ due # 0 /\ conf.ckptPolicy = FAIL_CLOSED
        /\ Abort
        /\ UNCHANGED <<durable, last>>
  /\ UNCHANGED <<conf, written, dead, dropped, skipped, acked, run, next, limit, stage,
                 hook, fenced, lastSink>>

\* The on_success hook; an exception it raises is an ordinary one.
Ack ==
  /\ pc = "ack"
  /\ \/ /\ acked' = IF hook = "carried" THEN acked \cup {cur} ELSE acked
        /\ Return
     \/ /\ hook = "carried"
        /\ SoftError
        /\ UNCHANGED acked
  /\ UNCHANGED <<conf, durable, written, dead, dropped, skipped, run, next, limit, stage,
                 hook, fenced, count, last, lastSink>>

-----------------------------------------------------------------------------

\* Another process takes the lease over.
FenceLost ==
  /\ pc \in Busy /\ ~fenced
  /\ fenced' = TRUE
  /\ UNCHANGED <<conf, world, pc, run, next, queue, ready, limit, cur, back, stage, hook,
                 fate, count, last, lastSink>>

\* CancelledError is caught as a BaseException and aborts.
Cancel ==
  /\ pc \in Busy
  /\ Abort
  /\ UNCHANGED <<conf, world, run, next, limit, stage, hook, fenced, count, last, lastSink>>

\* The process dies.
Crash ==
  /\ pc \in Busy
  /\ pc' = "idle" /\ queue' = {} /\ ready' = {} /\ cur' = 0
  /\ UNCHANGED <<conf, world, run, next, limit, back, stage, hook, fate, fenced, count,
                 last, lastSink>>

\* Bound: no further start.
Finished == pc \in Halted /\ run = MaxRuns /\ UNCHANGED vars

LaneStep ==
  \/ LoopHead \/ PopHead \/ LeaveDrain \/ FinalEnd \/ Resolve \/ WriteOne
  \/ RouteMiddlewareFailure \/ RouteSinkFailure \/ Save \/ Ack

Pull == Submit \/ PrefixDrops \/ SourceEnds

Next ==
  \/ StartRun \/ Pull \/ LaneStep \/ CompleteFuture \/ FenceLost \/ Cancel \/ Crash
  \/ Finished

Spec == Init /\ [][Next]_vars

-----------------------------------------------------------------------------
(* Properties *)

\* The store never holds a position with an unhandled record at or below it,
\* although the stages finish out of order.  Holds when the prefix drops
\* nothing and the DLQ does not raise (see README for the rest).
CheckpointCovers == 1..durable \subseteq Handled

\* Nothing in the queue, in a future or in the drain is lost when the run
\* reports success.
CompletedRunHandledAll == pc = "done" => Position \subseteq Handled

\* Acknowledged means written, sent to the DLQ or dropped.
AckedIsAccountedFor == acked \subseteq written \cup dead \cup dropped

\* Records reach the writer in source order, whatever the stages' order.
SinkOrder == pc = "write" => cur > lastSink

\* Backpressure: never more than the greatest stage limit in flight, however
\* the limit adapts.
InFlightBounded == Cardinality(queue) <= MaxLimit

\* The lane keeps the promise of CheckpointContract.
Contract == INSTANCE CheckpointContract WITH handled <- Handled, ckpt <- durable
KeepsContract == Contract!Spec
=============================================================================
