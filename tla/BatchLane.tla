------------------------------ MODULE BatchLane ------------------------------
(***************************************************************************)
(* The batch lane: the source delivers batches, the chain processes them   *)
(* as lists of records or as Arrow batches, and the checkpoint of a batch  *)
(* is the position of its last record.  With a pipelined stage up to       *)
(* conf.inflight batches are processed concurrently and finalized in source*)
(* order; the plain lane, which finalizes each batch before it pulls the   *)
(* next, is the case conf.inflight = 1.                                    *)
(*                                                                         *)
(* A batch is the set of its positions.  conf.batch is the largest batch   *)
(* of the source, conf.flush the kind of lane ("list", "arrow"), conf.mw   *)
(* what the chain, before or after the pipelined stage, can do.            *)
(***************************************************************************)
EXTENDS Delivery

VARIABLES
  pc, run, next,
  queue, ready,   \* submitted batches; those whose future is done
  fate, fenced,   \* how the source loop ended; the lease is gone
  count, last,
  cur,            \* the batch being finalized ({}: none)
  live,           \* its records that left the chain
  back,           \* where the lane goes on after finalizing it
  stage,          \* what failed: the chain or the sink
  todo,           \* records still to be routed or resolved
  routed,         \* `routed and ok`: no record was refused by the DLQ so far
  part, acks, halt, due,
  lastSink        \* history: greatest position handed to the writer

final == <<cur, live, stage, todo, routed, part, acks, halt, due>>
lane  == <<pc, run, next, queue, ready, fate, fenced, count, last, back, lastSink>>
vars  == <<conf, world, lane, final>>

Halted == {"idle", "done", "failed"}
Busy   == {"pull", "loop", "drain", "final", "await", "write", "route", "resolve",
           "persist", "hooks"}

TypeOK ==
  /\ WorldTypeOK
  /\ pc \in Halted \cup Busy /\ run \in 0..MaxRuns /\ next \in 1..(N + 1)
  /\ queue \subseteq SUBSET Position /\ ready \subseteq queue \cup {cur}
  /\ fate \in {"none", "ok", "error"} /\ fenced \in BOOLEAN
  /\ count \in Nat /\ last \in 0..N /\ lastSink \in 0..N
  /\ cur \subseteq Position /\ live \subseteq cur /\ todo \subseteq cur
  /\ part \subseteq live /\ acks \subseteq cur /\ halt \in 0..N /\ due \in 0..N
  /\ back \in {"loop", "drain", "final"} /\ stage \in {"none", "chain", "sink"}
  /\ routed \in {"yes", "no"}

Init ==
  /\ WorldInit
  /\ pc = "idle" /\ run = 0 /\ next = 1 /\ queue = {} /\ ready = {}
  /\ fate = "none" /\ fenced = FALSE /\ count = 0 /\ last = 0 /\ lastSink = 0
  /\ cur = {} /\ live = {} /\ back = "loop" /\ stage = "none" /\ todo = {}
  /\ routed = "yes" /\ part = {} /\ acks = {} /\ halt = 0 /\ due = 0

ClearFinal ==
  /\ cur' = {} /\ live' = {} /\ stage' = "none" /\ todo' = {} /\ routed' = "yes"
  /\ part' = {} /\ acks' = {} /\ halt' = 0 /\ due' = 0

IgnoreCursor(v) == 1

ResumeSkipsOne(v) == v + 2

ResumePosition(v) == v + 1

StartRun ==
  /\ pc \in Halted /\ run < MaxRuns
  /\ run' = run + 1 /\ pc' = "pull"
  /\ \E v \in ResumeValues : next' = ResumePosition(v)
  /\ queue' = {} /\ ready' = {} /\ fate' = "none" /\ fenced' = FALSE
  /\ count' = 0 /\ last' = 0 /\ lastSink' = 0 /\ back' = "loop"
  /\ ClearFinal
  /\ UNCHANGED <<conf, world>>

-----------------------------------------------------------------------------
(* How finalizing a batch ends. *)

\* RecordDeliveryError, a checkpoint error or a cancellation: pending futures
\* are cancelled.
Abort ==
  /\ pc' = "failed" /\ queue' = {} /\ ready' = {}
  /\ ClearFinal
  /\ UNCHANGED <<fate, back>>

\* Any other exception ends the source loop; the batches already submitted are
\* still finalized, unless that is what is going on.
SoftError ==
  IF back = "final" THEN Abort
  ELSE /\ pc' = "final" /\ fate' = "error"
       /\ ClearFinal
       /\ UNCHANGED <<queue, ready, back>>

Return ==
  /\ pc' = back
  /\ ClearFinal
  /\ UNCHANGED <<queue, ready, fate, back>>

-----------------------------------------------------------------------------
(* The source loop and the pipelined stage. *)

First(S) == CHOOSE p \in S : \A q \in S : p <= q

OneTooMany(q) == Cardinality(q) > conf.inflight

Full(q) == Cardinality(q) >= conf.inflight

NextBatches == {next..m : m \in next..(IF next + conf.batch - 1 < N
                                       THEN next + conf.batch - 1 ELSE N)}

\* How a failed batch is routed: every record to the DLQ.  Without a DLQ the
\* Arrow paths count the batch as routed, the list paths do not.
RouteBatch(S, st) ==
  /\ pc' = "route" /\ stage' = st
  /\ todo' = IF conf.dlq THEN S ELSE {}
  /\ routed' = IF conf.dlq \/ conf.flush = "arrow" THEN "yes" ELSE "no"

\* save_batch: one look at the cadence for the whole batch.
SaveBatch(S) ==
  /\ count' = Counted(count, S) /\ due' = BatchEndDue(count, last, S)
  /\ pc' = "persist"

\* The chain before the stage succeeded: submit the batch.
Submit ==
  /\ pc = "pull" /\ next <= N /\ "value" \in conf.mw
  /\ \E b \in NextBatches : /\ queue' = queue \cup {b}
                            /\ next' = Latest(b) + 1
  /\ pc' = "loop"
  /\ UNCHANGED <<conf, world, run, ready, fate, fenced, count, last, back, lastSink, final>>

\* The chain before the stage failed, or left an empty Arrow batch: the batch
\* is finalized at once, ahead of the ones still in the stage.
PrefixFinalizes ==
  /\ pc = "pull" /\ next <= N
  /\ \E b \in NextBatches :
       /\ cur' = b /\ next' = Latest(b) + 1 /\ back' = "loop"
       /\ \/ /\ "fail" \in conf.mw
             /\ RouteBatch(b, "chain")
             /\ UNCHANGED <<dropped, count, due>>
          \/ /\ "drop" \in conf.mw /\ conf.flush = "arrow"
             /\ dropped' = dropped \cup b
             /\ SaveBatch(b)
             /\ UNCHANGED <<stage, todo, routed>>
  /\ UNCHANGED <<conf, durable, written, dead, skipped, acked, run, queue, ready, fate,
                 fenced, last, live, part, acks, halt, lastSink>>

\* The source is exhausted or fails, or submit_batch raises.
SourceEnds ==
  /\ pc = "pull"
  /\ \/ next = N + 1 /\ fate' = "ok"
     \/ fate' = "error"
  /\ pc' = "final"
  /\ UNCHANGED <<conf, world, run, next, queue, ready, fenced, count, last, back,
                 lastSink, final>>

\* The stage finishes with a batch, in any order.
CompleteFuture ==
  /\ pc \in Busy
  /\ \E b \in (queue \cup (IF pc = "await" THEN {cur} ELSE {})) \ ready :
       ready' = ready \cup {b}
  /\ UNCHANGED <<conf, world, pc, run, next, queue, fate, fenced, count, last, back,
                 lastSink, final>>

LoopHead ==
  /\ pc = "loop"
  /\ pc' = IF Full(queue) THEN "drain" ELSE "pull"
  /\ UNCHANGED <<conf, world, run, next, queue, ready, fate, fenced, count, last, back,
                 lastSink, final>>

\* Mutant of OldestBatch: committing what was submitted last.
NewestBatch(q) == CHOOSE b \in q : \A x \in q : First(x) <= First(b)

OldestBatch(q) == CHOOSE b \in q : \A x \in q : First(b) <= First(x)

\* Mutant of Popped: the head is taken and the rest of the deque lost.
PopsAll(q) == {}

Popped(q) == q \ {OldestBatch(q)}

\* _drain_ready_...: the next batch in sequence, while it is done; at the limit
\* and after the source loop also when it has to be waited for.
PopHead ==
  /\ pc \in {"drain", "final"} /\ queue # {}
  /\ LET b == OldestBatch(queue) IN
       /\ pc = "drain" => b \in ready \/ Full(queue)
       /\ cur' = b /\ queue' = Popped(queue)
       /\ back' = IF pc = "final" THEN "final"
                  ELSE IF b \in ready THEN "drain" ELSE "loop"
  /\ pc' = "await"
  /\ UNCHANGED <<conf, world, run, next, ready, fate, fenced, count, last, lastSink,
                 live, stage, todo, routed, part, acks, halt, due>>

LeaveDrain ==
  /\ pc = "drain" /\ ~Full(queue)
  /\ queue # {} => OldestBatch(queue) \notin ready
  /\ pc' = "pull"
  /\ UNCHANGED <<conf, world, run, next, queue, ready, fate, fenced, count, last, back,
                 lastSink, final>>

FinalEnd ==
  /\ pc = "final" /\ queue = {}
  /\ pc' = IF fate = "ok" THEN "done" ELSE "failed"
  /\ UNCHANGED <<conf, world, run, next, queue, ready, fate, fenced, count, last, back,
                 lastSink, final>>

\* The stage's result and the rest of the chain.  A batch that is left empty is
\* checkpointed; only the list lane has hooks to run.
Resolve ==
  /\ pc = "await" /\ cur \in ready
  /\ ready' = ready \ {cur}
  /\ \/ /\ "fail" \in conf.mw
        /\ RouteBatch(cur, "chain")
        /\ UNCHANGED <<dropped, live, count, due, acks>>
     \/ \E keep \in SUBSET cur :
        /\ keep # cur => "drop" \in conf.mw
        /\ live' = keep /\ dropped' = dropped \cup (cur \ keep)
        /\ IF keep = {}
           THEN /\ SaveBatch(cur)
                /\ acks' = IF conf.flush = "list" THEN cur ELSE {}
           ELSE pc' = "write" /\ UNCHANGED <<count, due, acks>>
        /\ UNCHANGED <<stage, todo, routed>>
  /\ UNCHANGED <<conf, durable, written, dead, skipped, acked, run, next, queue, fate,
                 fenced, last, back, lastSink, cur, part, halt>>

-----------------------------------------------------------------------------
(* Finalizing `cur`: write_batch_passthrough, write_batch_filtered,        *)
(* _write_passthrough_arrow_batch, _finalize_arrow_batch_result.           *)

\* commit_outcomes: k outcomes, all with the checkpoint of the batch.
OutcomesDue(k) ==
  IF conf.store /\ \E j \in 1..k : ShouldSave(count + j, last, Latest(cur))
  THEN Latest(cur) ELSE 0

WriteAccepted ==
  /\ pc = "write" /\ ~fenced
  /\ written' = written \cup live /\ lastSink' = Latest(live)
  /\ IF conf.flush = "list"
     THEN /\ count' = Counted(count, cur) /\ due' = OutcomesDue(Cardinality(cur))
          /\ acks' = cur /\ pc' = "persist"
     ELSE SaveBatch(cur) /\ UNCHANGED acks
  /\ UNCHANGED <<conf, durable, dead, dropped, skipped, acked, run, next, queue, ready,
                 fate, fenced, last, back, cur, live, stage, todo, routed, part, halt>>

\* Single records fail, in part or altogether, or no sink takes them.  The list
\* lane resolves them one by one.
WriteMixed ==
  /\ pc = "write" /\ ~fenced /\ conf.flush = "list" /\ "record" \in conf.errors
  /\ \E part1, err1, none1 \in SUBSET live :
       /\ part1 \cap err1 = {} /\ part1 \cap none1 = {} /\ err1 \cap none1 = {}
       /\ part1 \cup err1 \cup none1 # {}
       /\ written' = written \cup (live \ (err1 \cup none1))
       /\ dropped' = dropped \cup none1
       /\ part' = part1 /\ todo' = part1 \cup err1
       /\ acks' = cur \ todo'
  /\ pc' = "resolve" /\ lastSink' = Latest(live)
  /\ UNCHANGED <<conf, durable, dead, skipped, acked, run, next, queue, ready, fate,
                 fenced, count, last, back, cur, live, stage, routed, halt, due>>

\* The raw records the DLQ gets for a failed write.  The Arrow lane zips the
\* rows of the raw batch with those of the filtered one.
FailedRows ==
  IF conf.flush = "list" THEN live
  ELSE {p \in cur : Cardinality({q \in cur : q < p}) < Cardinality(live)}

\* The writer raises; on the row-wise fallback of the Arrow lane a failing
\* record is an exception for the batch, with others already written.
WriteRaises ==
  /\ pc = "write" /\ ~fenced
  /\ \/ "batch" \in conf.errors /\ UNCHANGED written
     \/ /\ "record" \in conf.errors /\ conf.flush = "arrow"
        /\ \E S \in SUBSET live \ {live} : written' = written \cup S
  /\ lastSink' = Latest(live)
  /\ RouteBatch(FailedRows, "sink")
  /\ UNCHANGED <<conf, durable, dead, dropped, skipped, acked, run, next, queue, ready,
                 fate, fenced, count, last, back, cur, live, part, acks, halt, due>>

\* FenceLostError passes through the list lane; the Arrow lane handles it like
\* any failure of the sink.
WriteFenced ==
  /\ pc = "write" /\ fenced
  /\ IF conf.flush = "list" THEN SoftError
     ELSE /\ RouteBatch(FailedRows, "sink")
          /\ UNCHANGED <<queue, ready, fate, back, cur, live, part, acks, halt, due>>
  /\ UNCHANGED <<conf, world, run, next, fenced, count, last, lastSink>>

FencedRoutes == IF fenced THEN Routes \ {"routed"} ELSE Routes

RouteOne ==
  /\ pc = "route" /\ todo # {}
  /\ \E r \in FencedRoutes :
       /\ dead' = dead \cup Captured(r, {First(todo)})
       /\ \/ /\ r # "raised"
             /\ todo' = todo \ {First(todo)}
             /\ routed' = IF r = "routed" THEN routed ELSE "no"
             /\ UNCHANGED <<pc, queue, ready, fate, back, cur, live, stage, part, acks,
                            halt, due>>
          \/ r = "raised" /\ SoftError
  /\ UNCHANGED <<conf, durable, written, dropped, skipped, acked, run, next, fenced,
                 count, last, lastSink>>

\* zip(..., strict=True) raises when the Arrow chain removed rows.
Mispaired == conf.flush = "arrow" /\ conf.dlq /\ stage = "sink" /\ live # cur

\* Mutant of GoesOn: the policy is not looked at.
GoesOnAlways == TRUE

\* routed, or the policy says so
GoesOn == routed = "yes" \/ conf.sinkPolicy = LOG_AND_CONTINUE

\* Mutant of BatchAcks: every hook of the batch is run.
AcksWholeBatch == cur

\* The hooks to run: those of dropped records, and of the others if all of them
\* were routed; the Arrow lane and a chain failure run none.
BatchAcks ==
  IF conf.flush = "arrow" \/ stage = "chain" THEN {}
  ELSE IF routed = "yes" THEN cur ELSE cur \ live

Failed == IF stage = "chain" THEN cur ELSE live

\* All records are routed: checkpoint and hooks, RecordDeliveryError, or, for a
\* batch the chain of the list lane failed on, a silent return.
RouteEnd ==
  /\ pc = "route" /\ todo = {}
  /\ \/ /\ Mispaired
        /\ SoftError
        /\ UNCHANGED <<dropped, skipped, count>>
     \/ /\ ~Mispaired /\ GoesOn
        /\ SaveBatch(cur)
        /\ acks' = BatchAcks
        /\ dropped' = IF stage = "chain" /\ ~conf.dlq THEN dropped \cup cur ELSE dropped
        /\ skipped' = IF conf.sinkPolicy = LOG_AND_CONTINUE
                      THEN skipped \cup (Failed \ dead) ELSE skipped
        /\ UNCHANGED <<queue, ready, fate, back, cur, live, stage, todo, routed, part, halt>>
     \/ /\ ~Mispaired /\ ~GoesOn
        /\ IF conf.flush = "list" /\ stage = "chain" /\ conf.dlq THEN Return ELSE Abort
        /\ UNCHANGED <<dropped, skipped, count>>
  /\ UNCHANGED <<conf, durable, written, dead, acked, run, next, fenced, last, lastSink>>

\* _resolve_write_result of one record.
ResolveOne ==
  /\ pc = "resolve" /\ todo # {}
  /\ LET p == First(todo) IN \E r \in FencedRoutes :
       /\ dead' = dead \cup Captured(r, {p})
       /\ \/ /\ r # "raised"
             /\ todo' = todo \ {p}
             /\ skipped' = skipped \cup GivenUp(r, {p})
             /\ acks' = IF Continues(r) /\ AckDue(r, p \in part)
                        THEN acks \cup {p} ELSE acks
             /\ halt' = IF Continues(r) \/ halt # 0 THEN halt ELSE p
             /\ UNCHANGED <<pc, queue, ready, fate, back, cur, live, stage, routed, part, due>>
          \/ r = "raised" /\ SoftError /\ UNCHANGED skipped
  /\ UNCHANGED <<conf, durable, written, dropped, acked, run, next, fenced, count, last,
                 lastSink>>

\* commit_outcomes: the dropped records come first, then the others up to the
\* first ErroredUnrouted.
CommitOutcomes ==
  /\ pc = "resolve" /\ todo = {}
  /\ LET S == (cur \ live) \cup {p \in live : halt = 0 \/ p < halt} IN
       /\ count' = Counted(count, S)
       /\ due' = OutcomesDue(Cardinality(S))
       /\ acks' = acks \cap S
  /\ pc' = "persist"
  /\ UNCHANGED <<conf, world, run, next, queue, ready, fate, fenced, last, back, lastSink,
                 cur, live, stage, todo, routed, part, halt>>

\* CheckpointManager.persist; a failing fence check is a failing save.
Persist ==
  /\ pc = "persist"
  /\ \/ /\ due = 0
        /\ pc' = "hooks"
        /\ UNCHANGED <<durable, last, queue, ready, fate, back, final>>
     \/ /\ due # 0 /\ ~fenced
        /\ durable' = due /\ last' = due /\ pc' = "hooks"
        /\ UNCHANGED <<queue, ready, fate, back, final>>
     \/ /\ due # 0 /\ conf.ckptPolicy = LOG_AND_CONTINUE
        /\ last' = due /\ pc' = "hooks"
        /\ UNCHANGED <<durable, queue, ready, fate, back, final>>
     \/ /\ due # 0 /\ conf.ckptPolicy = FAIL_CLOSED
        /\ Abort
        /\ UNCHANGED <<durable, last>>
  /\ UNCHANGED <<conf, written, dead, dropped, skipped, acked, run, next, fenced, count,
                 lastSink>>

RunHook ==
  /\ pc = "hooks" /\ acks # {}
  /\ \/ /\ acked' = acked \cup {First(acks)} /\ acks' = acks \ {First(acks)}
        /\ UNCHANGED <<pc, queue, ready, fate, back, cur, live, stage, todo, routed, part,
                       halt, due>>
     \/ SoftError /\ UNCHANGED acked
  /\ UNCHANGED <<conf, durable, written, dead, dropped, skipped, run, next, fenced, count,
                 last, lastSink>>

BatchEnd ==
  /\ pc = "hooks" /\ acks = {}
  /\ IF halt = 0 THEN Return ELSE Abort
  /\ UNCHANGED <<conf, world, run, next, fenced, count, last, lastSink>>

-----------------------------------------------------------------------------

\* Another process takes the lease over.
FenceLost ==
  /\ pc \in Busy /\ ~fenced
  /\ fenced' = TRUE
  /\ UNCHANGED <<conf, world, pc, run, next, queue, ready, fate, count, last, back,
                 lastSink, final>>

Cancel ==
  /\ pc \in Busy
  /\ Abort
  /\ UNCHANGED <<conf, world, run, next, fenced, count, last, lastSink>>

\* The process dies.
Crash ==
  /\ pc \in Busy
  /\ pc' = "idle" /\ queue' = {} /\ ready' = {}
  /\ ClearFinal
  /\ UNCHANGED <<conf, world, run, next, fate, fenced, count, last, back, lastSink>>

\* Bound: no further start.
Finished == pc \in Halted /\ run = MaxRuns /\ UNCHANGED vars

LaneStep ==
  \/ LoopHead \/ PopHead \/ LeaveDrain \/ FinalEnd \/ Resolve \/ WriteAccepted
  \/ WriteMixed \/ WriteRaises \/ WriteFenced \/ RouteOne \/ RouteEnd \/ ResolveOne
  \/ CommitOutcomes \/ Persist \/ RunHook \/ BatchEnd

Pull == Submit \/ PrefixFinalizes \/ SourceEnds

Next ==
  \/ StartRun \/ Pull \/ LaneStep \/ CompleteFuture \/ FenceLost \/ Cancel \/ Crash
  \/ Finished

Spec == Init /\ [][Next]_vars

-----------------------------------------------------------------------------
(* Properties *)

\* The store never holds a position with an unhandled record at or below it,
\* although it only ever holds ends of batches whose records may have fared
\* differently (see README for the configurations where it does).
CheckpointCovers == 1..durable \subseteq Handled

\* A run that reports success has handled every record of every batch.
CompletedRunHandledAll == pc = "done" => Position \subseteq Handled

\* Acknowledged means written, sent to the DLQ or dropped.
AckedIsAccountedFor == acked \subseteq written \cup dead \cup dropped

\* Batches reach the writer in source order, whatever order the stage has.
SinkOrder == pc = "write" => First(live) > lastSink

\* Never more than stage_limit batches in the stage.
InFlightBounded == Cardinality(queue) <= conf.inflight
=============================================================================
