---------------------------- MODULE ProcessPool ----------------------------
(***************************************************************************)
(* The process-pool middlewares (middlewares/process.py over               *)
(* core/runtime/_process.py).  The batch lane submits batches, each in a   *)
(* task of its own, to the pool of the current generation.  A timeout      *)
(* recycles the pool: the generation is invalidated, its other tasks are   *)
(* cancelled, its workers terminated and a new pool opened; a cancelled    *)
(* task aborts the pool for good.  The worker processes are external: they *)
(* return, raise or die, and a death breaks the whole pool.                *)
(***************************************************************************)
EXTENDS Integers, FiniteSets

CONSTANTS Batches,      \* number of batches the lane submits
          InFlight      \* max_in_flight_batches

VARIABLE pp

Generations == 0 .. Batches + 1
Ids == 1 .. Batches

(* A task runs until its future is answered (answer) and it resumes.  ok,  *)
(* failed, timedout, invalidated and cancelled are how process_batch ends. *)
Init == pp = [next |-> 1,                                \* _batch_index + 1
              generation |-> 0,                          \* _runner_generation
              runner |-> 0,                              \* generation of _runner, or NoRunner
              invalidated |-> {},                        \* _invalidated_generations
              pools |-> {0},                             \* pools not shut down
              broken |-> {},                             \* pools with a dead worker
              gen |-> [b \in Ids |-> 0],
              task |-> [b \in Ids |-> "new"],
              answer |-> [b \in Ids |-> "none"],
              cancel |-> {},                             \* tasks with a pending cancel()
              awaited |-> 0,                             \* task a cancelled lane waits for
              stale |-> {},                              \* batches that resumed after their pool was replaced
              phase |-> "run"]

NoRunner == -1
Live == pp.runner # NoRunner
Running == {b \in Ids : pp.task[b] = "running"}
Pending(g) == {b \in Running : pp.gen[b] = g}        \* _generation_tasks[g]

-----------------------------------------------------------------------------
(* submit_batch and the first step of process_batch: a middleware without  *)
(* a runner, a closed runner and a broken pool fail the batch at once.     *)
Submit ==
    /\ pp.phase = "run"
    /\ pp.next \in Ids
    /\ Cardinality(Running) < InFlight
    /\ LET b == pp.next
           refused == ~Live \/ pp.runner \notin pp.pools \/ pp.runner \in pp.broken
       IN pp' = [pp EXCEPT !.next = @ + 1,
                           !.gen[b] = pp.generation,
                           !.task[b] = IF refused THEN "failed" ELSE "running"]

(* The worker's answer reaches the future; the task resumes later.         *)
WorkerAnswers(b) ==
    /\ pp.task[b] = "running" /\ pp.answer[b] = "none"
    /\ pp.gen[b] \in pp.pools
    /\ \E a \in {"result", "error"} : pp' = [pp EXCEPT !.answer[b] = a]

(* A worker process dies: every future of the pool fails.                  *)
WorkerDies(g) ==
    /\ g \in pp.pools \ pp.broken
    /\ Pending(g) # {}
    /\ pp' = [pp EXCEPT !.broken = @ \union {g},
                        !.answer = [b \in Ids |-> IF b \in Pending(g) /\ @[b] = "none"
                                                  THEN "error" ELSE @[b]]]

(* asyncio.wait_for gives up on the shielded future.                       *)
TimesOut(b) ==
    /\ pp.task[b] = "running" /\ pp.answer[b] = "none"
    /\ pp' = [pp EXCEPT !.answer[b] = "timeout"]

(* _maybe_raise_invalidated_generation                                     *)
Invalidated(b) == pp.gen[b] \in pp.invalidated

(* Mutant of CancelGeneration: the siblings are left waiting.              *)
CancelsNobody(g, except) == pp.cancel

(* _cancel_generation_tasks                                                *)
CancelGeneration(g, except) == pp.cancel \union (Pending(g) \ except)

(* _recycle_runner: nothing unless the generation is still current.  The   *)
(* new pool may fail to open, which leaves the closed runner in place.     *)
Recycles(b) == Live /\ pp.gen[b] = pp.generation

(* ProcessPoolRunner.close(wait=False, force=True)                         *)
Terminated(s) == s.pools \ {s.runner}

(* Mutant of Recycle: the siblings are not told.                           *)
RecycleQuietly(b) ==
    pp' = [pp EXCEPT !.task[b] = "timedout",
                     !.pools = Terminated(pp) \union {pp.generation + 1},
                     !.runner = pp.generation + 1,
                     !.generation = @ + 1]

Recycle(b) ==
    \E opened \in BOOLEAN :
        pp' = [pp EXCEPT !.task[b] = IF opened THEN "timedout" ELSE "failed",
                         !.invalidated = @ \union {pp.gen[b]},
                         !.cancel = CancelGeneration(pp.gen[b], {b}),
                         !.pools = Terminated(pp) \union
                                   (IF opened THEN {pp.generation + 1} ELSE {}),
                         !.runner = IF opened THEN pp.generation + 1 ELSE @,
                         !.generation = @ + 1]

(* process_batch resumes with the answer of its future.                    *)
Resume(b) ==
    /\ pp.task[b] = "running" /\ pp.answer[b] # "none" /\ b \notin pp.cancel
    /\ \/ /\ pp.answer[b] = "timeout" /\ Recycles(b)
          /\ Recycle(b)
       \/ /\ pp.answer[b] = "timeout" /\ ~Recycles(b)
          /\ pp' = [pp EXCEPT !.task[b] = "timedout"]
       \/ /\ pp.answer[b] = "error"
          /\ pp' = [pp EXCEPT !.task[b] = IF Invalidated(b) THEN "invalidated" ELSE "failed"]
       \/ /\ pp.answer[b] = "result"
          /\ pp' = [pp EXCEPT !.task[b] = IF Invalidated(b) THEN "invalidated" ELSE "ok",
                              !.stale = IF pp.gen[b] # pp.generation
                                        THEN @ \union {b} ELSE @]

(* _abort_runner: the middleware has no runner from here on.               *)
Aborted(s) ==
    IF s.runner = NoRunner THEN s
    ELSE [s EXCEPT !.invalidated = @ \union {s.generation},
                   !.cancel = @ \union {b \in Ids : s.task[b] = "running"
                                                    /\ s.gen[b] = s.generation},
                   !.pools = Terminated(s),
                   !.runner = NoRunner,
                   !.generation = @ + 1]

(* CancelledError in process_batch: an invalidated generation turns it     *)
(* into an error, otherwise the pool is aborted.                           *)
ResumeCancelled(b) ==
    /\ pp.task[b] = "running" /\ b \in pp.cancel
    /\ pp' = IF Invalidated(b)
             THEN [pp EXCEPT !.task[b] = "invalidated", !.cancel = @ \ {b}]
             ELSE Aborted([pp EXCEPT !.task[b] = "cancelled", !.cancel = @ \ {b}])

(* The lane gives up: _cancel_pending_batch_tasks, abort_in_flight_batches.*)
AbortBatches ==
    /\ pp.phase = "run"
    /\ pp' = Aborted([pp EXCEPT !.phase = "stop", !.cancel = @ \union Running])

(* The lane is cancelled while it awaits its oldest task, which passes the *)
(* cancellation on to that task.  The lane gives up when the task ends     *)
(* cancelled; a task that turned it into an error of its invalidated       *)
(* generation is a failed batch to the lane, which goes on.                *)
CancelLane ==
    /\ pp.phase = "run" /\ Running # {}
    /\ LET b == CHOOSE x \in Running : \A y \in Running : x <= y
       IN pp' = [pp EXCEPT !.phase = "cancelling", !.awaited = b, !.cancel = @ \union {b}]
LaneResumes ==
    /\ pp.phase = "cancelling" /\ pp.awaited \notin Running
    /\ pp' = IF pp.task[pp.awaited] = "cancelled"
             THEN Aborted([pp EXCEPT !.phase = "stop", !.cancel = @ \union Running])
             ELSE [pp EXCEPT !.phase = "run"]

(* The lane has drained every batch.                                       *)
LaneEnds ==
    /\ pp.phase = "run" /\ pp.next > Batches /\ Running = {}
    /\ pp' = [pp EXCEPT !.phase = "stop"]

(* on_stop: drain for a while, then close, by force if work is left.       *)
OnStop ==
    /\ pp.phase = "stop"
    /\ pp' = [pp EXCEPT !.phase = "stopped", !.pools = Terminated(pp), !.runner = NoRunner,
                        !.answer = [b \in Ids |-> IF b \in Running /\ @[b] = "none"
                                                  THEN "error" ELSE @[b]]]

Ends == pp.phase = "stopped" /\ Running = {} /\ UNCHANGED pp

Next ==
    \/ Submit \/ AbortBatches \/ CancelLane \/ LaneResumes \/ LaneEnds \/ OnStop \/ Ends
    \/ \E b \in Ids : WorkerAnswers(b) \/ TimesOut(b) \/ Resume(b) \/ ResumeCancelled(b)
    \/ \E g \in Generations : WorkerDies(g)

Spec == Init /\ [][Next]_pp
-----------------------------------------------------------------------------
(* A batch never succeeds with the result of a pool that was recycled or   *)
(* aborted before the task resumed: such results are dropped even when     *)
(* they had already arrived.                                               *)
NoStaleResult == \A b \in pp.stale : pp.task[b] # "ok"

(* One pool at a time: whatever times out, dies or is cancelled, no pool   *)
(* but the current one is left running, and none once the middleware       *)
(* stopped.                                                                *)
OnePool ==
    /\ pp.pools \subseteq {pp.runner}
    /\ pp.phase = "stopped" => pp.pools = {}

(* Batches that fail together with their pool end as failed batches; a     *)
(* task ends cancelled only when the lane itself cancelled it.             *)
SiblingsFailNotCancelled ==
    \A b \in Ids : pp.task[b] = "cancelled" => pp.phase # "run"

(* No batch succeeds with the result of an invalidated pool, no pool but   *)
(* the current one runs, and only the lane's own cancellation ends a batch *)
(* cancelled.                                                              *)
PoolIsCurrent == NoStaleResult /\ OnePool /\ SiblingsFailNotCancelled

(* Recycling leaves no batch behind: a batch of a torn-down pool ends.     *)
OrphansEnd ==
    \A b \in Ids : (pp.task[b] = "running" /\ Invalidated(b)) ~> pp.task[b] # "running"

=============================================================================
