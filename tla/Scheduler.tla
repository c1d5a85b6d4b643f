------------------------------ MODULE Scheduler ------------------------------
(***************************************************************************)
(* Scheduled runs of one pipeline by several worker processes.  In each    *)
(* process a WorkerPool owns a scheduler task (ScheduledPipelineRunner),   *)
(* which starts one run task at a time and fences it with the token of the *)
(* lease it acquired.  A run with batch_flush_interval_ms has a second     *)
(* writer beside its lane, the pending-write owner.  The lease store and   *)
(* its heartbeat are external: a lease may expire at any time, and its     *)
(* loss is reported late.                                                  *)
(***************************************************************************)
EXTENDS Integers

CONSTANTS Workers,
          Elsewhere,   \* stands for the workers that are not modelled
          None,        \* no worker
          MaxErrors,   \* max_consecutive_errors
          MaxRuns,     \* bound: runs started by each worker
          MaxLeases    \* bound: leases given out before Elsewhere gets no more

ASSUME WorkersAssumption == Elsewhere \notin Workers /\ None \notin Workers
ASSUME BoundsAssumption  == MaxErrors \in Nat \ {0} /\ MaxRuns \in Nat /\ MaxLeases \in Nat

VARIABLES
  lease,   \* the lease store: who holds the lease, and the token it was given
  w        \* the state of each worker

vars == <<lease, w>>

\* shutdown_runtime_components, in its order.
ShutdownSteps == {"flushDLQ", "closeDLQ", "check", "flush", "closeWriter"}

(* pc     where the scheduler task is                                      *)
(* task   where the run task is: between writes, writing, waiting for the  *)
(*        owner to end, writing its failure to the DLQ, at one of the      *)
(*        steps of the shutdown, finished                                  *)
(* owner  the pending-write owner: waiting, writing, writing for the last  *)
(*        time, ended by an error                                          *)
(* res    how the run ended, or will end once it has shut down             *)
(* fence  token of the RunFence the last run was given (0: no run yet)     *)
(* local  the lease the coordinator client believes to hold (0: none)      *)
(* lost   the client is about to call the lease-lost callback              *)
(* leave  a CancelledError is on its way out of the scheduler              *)
(* late, ownerLate, spill  history: writes of this run after its lease was *)
(*        gone, by its task and by the owner, and calls of its shutdown    *)
(*        that may write and ask no fence                                  *)
Worker ==
  [pc : {"top", "build", "running", "cancelling", "backoff", "notify", "wait", "ended"},
   task : {"none", "work", "write", "drain", "report", "done"} \cup ShutdownSteps,
   owner : {"none", "idle", "write", "last", "failed"},
   res : {"ok", "error", "cancelled"}, fence : Nat, local : Nat,
   lost : BOOLEAN, abort : BOOLEAN, stop : BOOLEAN, leave : BOOLEAN, repeat : BOOLEAN,
   runs : 0..MaxRuns, errs : 0..MaxErrors, late : Nat, ownerLate : Nat, spill : Nat,
   pool : {"up", "stopping", "gathering", "down"}]

TypeOK ==
  /\ lease \in [holder : Workers \cup {Elsewhere, None}, token : Nat]
  /\ w \in [Workers -> Worker]

Init ==
  /\ lease = [holder |-> None, token |-> 0]
  /\ \E r \in [Workers -> BOOLEAN] :
       w = [x \in Workers |->
              [pc |-> "top", task |-> "none", owner |-> "none", res |-> "ok",
               fence |-> 0, local |-> 0,
               lost |-> FALSE, abort |-> FALSE, stop |-> FALSE, leave |-> FALSE,
               repeat |-> r[x], runs |-> 0, errs |-> 0, late |-> 0, ownerLate |-> 0,
               spill |-> 0, pool |-> "up"]]

\* Worker x moves to state r.
Set(x, r) == w' = [w EXCEPT ![x] = r]

Running == {"work", "write", "drain", "report"} \cup ShutdownSteps

OwnerAlive(x) == w[x].owner \in {"idle", "write", "last"}

-----------------------------------------------------------------------------
(* The lease store and its client (external). *)

Holds(x, t) == t # 0 /\ lease = [holder |-> x, token |-> t]

\* The store gives a free lease out under a new token.
Granted(x) == lease' = [holder |-> x, token |-> lease.token + 1]

\* release_lease: no-op unless this worker still holds the lease.
Released(x) == lease' = IF Holds(x, w[x].local) THEN [lease EXCEPT !.holder = None] ELSE lease

\* The lease expires because its holder did not renew it in time.
Expire == lease.holder # None /\ lease' = [lease EXCEPT !.holder = None] /\ UNCHANGED w

\* A worker that is not modelled gets the free lease.
TakenElsewhere ==
  /\ lease.holder = None /\ lease.token < MaxLeases
  /\ Granted(Elsewhere)
  /\ UNCHANGED w

\* A renewal finds that the lease has gone; some time later the callback runs.
NoticeLoss(x) ==
  /\ w[x].pool # "down" /\ w[x].local # 0 /\ ~Holds(x, w[x].local)
  /\ Set(x, [w[x] EXCEPT !.local = 0, !.lost = TRUE])
  /\ UNCHANGED lease

\* Mutant of LeaseLostCallback: the loss is reported and no run is told.
CallbackForgets(x) ==
  /\ w[x].pool # "down" /\ w[x].lost
  /\ Set(x, [w[x] EXCEPT !.lost = FALSE])
  /\ UNCHANGED lease

\* _on_lease_lost: by then the pipeline may be in a later run.
LeaseLostCallback(x) ==
  /\ w[x].pool # "down" /\ w[x].lost
  /\ Set(x, [w[x] EXCEPT !.lost = FALSE, !.abort = TRUE])
  /\ UNCHANGED lease

-----------------------------------------------------------------------------
(* The two writers of a run.  Every write of the transport, of the DLQ and *)
(* of the checkpoint store is preceded by an awaited check of the fence.   *)
(* A check that fails where a LOG policy swallows the error changes        *)
(* nothing here.  Acknowledgements of the source and markers of            *)
(* middlewares are not counted as writes; they ask no fence.               *)

\* Mutant of FenceActive: the fence is not consulted.
NeverFenced(x) == TRUE

FenceActive(x) == Holds(x, w[x].fence)

Late(x) == IF Holds(x, w[x].fence) THEN 0 ELSE 1

Failed(r) == IF r = "ok" THEN "error" ELSE r

\* What follows the lane: the shutdown, before which _handle_run_error may write
\* the failure to the DLQ, if the fence it asks is still active.
AfterLane(x, r) ==
  {"flushDLQ"} \cup IF r = "error" /\ FenceActive(x) THEN {"report"} ELSE {}

\* The lane is done.  It waits for its owner to end.
Over(x, r) ==
  \E t \in IF w[x].owner = "none" THEN AfterLane(x, r) ELSE {"drain"} :
    Set(x, [w[x] EXCEPT !.res = r, !.task = t])

\* assert_run_fence_active, whose answer is awaited, then the write.
Check(x) ==
  /\ w[x].task = "work"
  /\ IF FenceActive(x) THEN Set(x, [w[x] EXCEPT !.task = "write"]) ELSE Over(x, "error")
  /\ UNCHANGED lease

Write(x) ==
  /\ w[x].task = "write"
  /\ Set(x, [w[x] EXCEPT !.task = "work", !.late = @ + Late(x)])
  /\ UNCHANGED lease

\* The source is exhausted, or something fails, an error of the owner included.
StreamEnds(x) ==
  /\ w[x].task = "work"
  /\ \E r \in {"ok", "error"} : Over(x, r)
  /\ UNCHANGED lease

\* The first record that is queued for a batch with a flush interval.
OwnerStarts(x) ==
  /\ w[x].task = "work" /\ w[x].owner = "none"
  /\ Set(x, [w[x] EXCEPT !.owner = "idle"])
  /\ UNCHANGED lease

\* A batch is full, its interval is over, or the lane is done and what is left is
\* flushed.  The owner ends with an error if the fence is lost.
OwnerCheck(x) ==
  /\ w[x].owner = "idle"
  /\ Set(x, [w[x] EXCEPT !.owner = IF ~FenceActive(x) THEN "failed"
                                   ELSE IF w[x].task = "drain" THEN "last" ELSE "write"])
  /\ UNCHANGED lease

\* The write succeeds or fails; after the last one the owner returns.
OwnerWrite(x) ==
  /\ w[x].owner \in {"write", "last"}
  /\ \E o \in {IF w[x].owner = "last" THEN "none" ELSE "idle", "failed"} :
       Set(x, [w[x] EXCEPT !.owner = o, !.ownerLate = @ + Late(x)])
  /\ UNCHANGED lease

\* close_pending_write_owner: the owner has nothing left, or it failed and its
\* error becomes that of the run.
Drained(x) ==
  /\ w[x].task = "drain" /\ w[x].owner \in {"none", "idle", "failed"}
  /\ LET r == IF w[x].owner = "failed" THEN Failed(w[x].res) ELSE w[x].res
     IN  \E t \in AfterLane(x, r) :
           Set(x, [w[x] EXCEPT !.task = t, !.owner = "none", !.res = r])
  /\ UNCHANGED lease

Report(x) ==
  /\ w[x].task = "report"
  /\ Set(x, [w[x] EXCEPT !.task = "flushDLQ", !.late = @ + Late(x)])
  /\ UNCHANGED lease

\* Steps between the end of the lane and the shutdown.
Drain(x) == Drained(x) \/ Report(x) \/ (w[x].task = "drain" /\ OwnerWrite(x))

\* shutdown_runtime_components: it goes on whatever fails, and an error of a run
\* that was ok so far becomes its error.  Only the flush of the writer asks the
\* fence; the others write what their sink still buffers.
FlushDLQ(x) ==
  /\ w[x].task = "flushDLQ"
  /\ \/ Set(x, [w[x] EXCEPT !.task = "check"])                    \* no DLQ
     \/ \E r \in {w[x].res, Failed(w[x].res)} :
          Set(x, [w[x] EXCEPT !.task = "closeDLQ", !.res = r, !.spill = @ + Late(x)])
  /\ UNCHANGED lease

CloseDLQ(x) ==
  /\ w[x].task = "closeDLQ"
  /\ \E r \in {w[x].res, Failed(w[x].res)} :
       Set(x, [w[x] EXCEPT !.task = "check", !.res = r, !.spill = @ + Late(x)])
  /\ UNCHANGED lease

CheckFlush(x) ==
  /\ w[x].task = "check"
  /\ Set(x, IF FenceActive(x) THEN [w[x] EXCEPT !.task = "flush"]
            ELSE [w[x] EXCEPT !.task = "closeWriter", !.res = Failed(@)])
  /\ UNCHANGED lease

Flush(x) ==
  /\ w[x].task = "flush"
  /\ \E r \in {w[x].res, Failed(w[x].res)} :
       Set(x, [w[x] EXCEPT !.task = "closeWriter", !.res = r, !.late = @ + Late(x)])
  /\ UNCHANGED lease

CloseWriter(x) ==
  /\ w[x].task = "closeWriter"
  /\ \E r \in {w[x].res, Failed(w[x].res)} :
       Set(x, [w[x] EXCEPT !.task = "done", !.res = r, !.spill = @ + Late(x)])
  /\ UNCHANGED lease

Shutdown(x) ==
  FlushDLQ(x) \/ CloseDLQ(x) \/ CheckFlush(x) \/ Flush(x) \/ CloseWriter(x)

\* The owner is cancelled; a write it is at counts as made.
OwnerCancelled(x, r) ==
  [r EXCEPT !.owner = "none",
            !.ownerLate = @ + IF r.owner \in {"write", "last"} THEN Late(x) ELSE 0]

\* task.cancel(), by where the run is; a call in flight counts as made.  It ends
\* the streaming: the buffered lane waits for its owner before it goes on to the
\* shutdown, the linear lane leaves it behind.  A run that waits for its owner
\* hands the cancellation on to it, and during the shutdown it ends the shutdown.
\* The failure of a run that was cancelled is not reported.
Cancelled(x) ==
  LET r == [w[x] EXCEPT !.res = "cancelled"]
  IN  CASE w[x].task \in {"work", "write"} ->
             {[r EXCEPT !.late = @ + IF w[x].task = "write" THEN Late(x) ELSE 0, !.task = t] :
                t \in IF w[x].owner = "none" THEN {"flushDLQ"} ELSE {"drain", "flushDLQ"}}
        [] w[x].task = "report" -> {[r EXCEPT !.late = @ + Late(x), !.task = "flushDLQ"]}
        [] w[x].task = "drain" -> {[OwnerCancelled(x, r) EXCEPT !.task = "flushDLQ"]}
        [] w[x].task = "flush" -> {[r EXCEPT !.task = "done", !.late = @ + Late(x)]}
        [] w[x].task \in {"flushDLQ", "closeDLQ", "closeWriter"} ->
             {[r EXCEPT !.task = "done", !.spill = @ + Late(x)]}
        [] OTHER -> {[r EXCEPT !.task = "done"]}

-----------------------------------------------------------------------------
(* ScheduledPipelineRunner: the scheduler task. *)

\* The top of the loop: stop_event, then the pre-run hook.  An exception of the
\* hook (the store is unreachable) is outside the try block and ends the task.
LoopEnds(x) ==
  /\ w[x].pc = "top" /\ w[x].stop
  /\ Set(x, [w[x] EXCEPT !.pc = "ended"])
  /\ UNCHANGED lease

\* An owner that a cancelled run left behind is not followed into the next run:
\* its token has gone, so that all it can still do is the write it is at.
StartRun(x) ==
  /\ w[x].pc = "top" /\ ~w[x].stop /\ w[x].runs < MaxRuns
  /\ lease.holder = None /\ Granted(x)
  /\ Set(x, [w[x] EXCEPT !.pc = "build", !.runs = @ + 1, !.abort = FALSE, !.res = "ok",
                         !.late = 0, !.ownerLate = 0, !.spill = 0,
                         !.task = "none", !.owner = "none",
                         !.local = lease.token + 1, !.fence = lease.token + 1])

ShouldContinue(r) == r.repeat /\ r.errs < MaxErrors

SkipRun(x) ==
  /\ w[x].pc = "top" /\ ~w[x].stop /\ lease.holder # None
  /\ Set(x, [w[x] EXCEPT !.pc = IF ShouldContinue(w[x]) THEN "wait" ELSE "ended"])
  /\ UNCHANGED lease

HookFails(x) ==
  /\ w[x].pc = "top" /\ ~w[x].stop
  /\ Set(x, [w[x] EXCEPT !.pc = "ended"])
  /\ UNCHANGED lease

\* The factory builds the pipeline and the run task is created, or it raises.
Build(x) ==
  /\ w[x].pc = "build"
  /\ \/ Set(x, [w[x] EXCEPT !.pc = "running", !.task = "work"])
     \/ Set(x, [w[x] EXCEPT !.pc = "backoff", !.errs = @ + 1])
  /\ UNCHANGED lease

\* _run_with_abort: the run ended first.  A failure is counted, and the backoff
\* is slept before anybody is notified.
RunEnds(x) ==
  /\ w[x].pc = "running" /\ w[x].task = "done"
  /\ Set(x, IF w[x].res = "ok"
            THEN [w[x] EXCEPT !.pc = "notify", !.errs = 0]
            ELSE [w[x] EXCEPT !.pc = "backoff", !.errs = @ + 1])
  /\ UNCHANGED lease

\* Mutant of CancelsTask: the aborted run is neither cancelled nor awaited.
AbandonsTask(x) == {[w[x] EXCEPT !.pc = "notify"]}

\* _run_with_abort: the lease was lost first.
CancelsTask(x) == {[r EXCEPT !.pc = "cancelling"] : r \in Cancelled(x)}

AbortRun(x) ==
  /\ w[x].pc = "running" /\ w[x].abort /\ w[x].task # "done"
  /\ \E r \in CancelsTask(x) : Set(x, r)
  /\ UNCHANGED lease

\* The cancelled run is awaited whatever it raises; LeaseLost is no error.
AbortedRunEnds(x) ==
  /\ w[x].pc = "cancelling" /\ w[x].task = "done"
  /\ Set(x, [w[x] EXCEPT !.pc = "notify"])
  /\ UNCHANGED lease

\* interruptible_sleep: the delay is over, or stop_event is set.
BackoffEnds(x) ==
  /\ w[x].pc = "backoff"
  /\ Set(x, [w[x] EXCEPT !.pc = "notify"])
  /\ UNCHANGED lease

\* The observers are told; the last one releases the lease.
Notify(x) ==
  /\ w[x].pc = "notify"
  /\ Released(x)
  /\ Set(x, [w[x] EXCEPT !.local = 0, !.leave = FALSE,
                         !.pc = IF w[x].leave \/ ~ShouldContinue(w[x]) THEN "ended" ELSE "wait"])

\* wait_until_next and wait_after_skip.
WaitEnds(x) ==
  /\ w[x].pc = "wait"
  /\ Set(x, [w[x] EXCEPT !.pc = "top"])
  /\ UNCHANGED lease

SchedulerStep(x) ==
  \/ LoopEnds(x) \/ SkipRun(x) \/ RunEnds(x) \/ AbortRun(x)
  \/ AbortedRunEnds(x) \/ BackoffEnds(x) \/ Notify(x) \/ WaitEnds(x)

-----------------------------------------------------------------------------
(* WorkerPool *)

\* SIGINT or SIGTERM: _graceful_stop tells the scheduler to stop and waits.
Stop(x) ==
  /\ w[x].pool = "up"
  /\ Set(x, [w[x] EXCEPT !.pool = "stopping", !.stop = TRUE])
  /\ UNCHANGED lease

\* Mutant of CancelScheduler: asyncio.wait survives the cancellation.
SwallowsCancel(x) == {IF w[x].pc = "running" THEN w[x] ELSE [w[x] EXCEPT !.pc = "ended"]}

\* A CancelledError reaches the scheduler task at its await: asyncio.wait gives
\* up the run task without cancelling it; the await of an aborted run hands it
\* on to the run and swallows it; inside the observers it skips the release.
CancelScheduler(x) ==
  CASE w[x].pc \in {"build", "running", "backoff"} ->
         {[w[x] EXCEPT !.pc = "notify", !.leave = TRUE]}
    [] w[x].pc = "cancelling" -> Cancelled(x)
    [] OTHER -> {[w[x] EXCEPT !.pc = "ended"]}

\* The graceful timeout passed with the scheduler still at work.
ForceCancel(x) ==
  /\ w[x].pool = "stopping" /\ w[x].pc # "ended"
  /\ \E r \in CancelScheduler(x) : Set(x, [r EXCEPT !.pool = "gathering"])
  /\ UNCHANGED lease

\* The pool's own task is cancelled: _force_cancel, without stop_event.
PoolCancelled(x) ==
  /\ w[x].pool \in {"up", "stopping"}
  /\ \E r \in CancelScheduler(x) : Set(x, [r EXCEPT !.pool = "gathering"])
  /\ UNCHANGED lease

\* The scheduler task has ended: coordinator.stop releases what is left.
PoolEnds(x) ==
  /\ w[x].pool # "down" /\ w[x].pc = "ended"
  /\ Released(x)
  /\ Set(x, [w[x] EXCEPT !.pool = "down", !.local = 0])

\* The process dies; the store finds out when the lease expires.
Crash(x) ==
  /\ w[x].pool # "down"
  /\ Set(x, [w[x] EXCEPT !.pool = "down", !.pc = "ended", !.task = "none", !.owner = "none",
                         !.local = 0])
  /\ UNCHANGED lease

\* asyncio.run cancels the tasks that are left once WorkerPool.run has returned.
CloseLoop(x) ==
  /\ w[x].pool = "down"
  /\ \/ w[x].task \in Running /\ w[x].res # "cancelled"
     \/ OwnerAlive(x)
  /\ \E r \in IF w[x].task \in Running THEN Cancelled(x) ELSE {w[x]} :
       Set(x, OwnerCancelled(x, r))
  /\ UNCHANGED lease

\* Bound: no further run.
Finished(x) ==
  /\ w[x].pool = "down" /\ w[x].task \notin Running /\ ~OwnerAlive(x)
  /\ UNCHANGED vars

Next ==
  \/ Expire \/ TakenElsewhere
  \/ \E x \in Workers :
       \/ NoticeLoss(x) \/ LeaseLostCallback(x)
       \/ StartRun(x) \/ HookFails(x) \/ Build(x) \/ SchedulerStep(x)
       \/ Check(x) \/ Write(x) \/ StreamEnds(x) \/ Drained(x) \/ Report(x) \/ Shutdown(x)
       \/ OwnerStarts(x) \/ OwnerCheck(x) \/ OwnerWrite(x)
       \/ Stop(x) \/ ForceCancel(x) \/ PoolCancelled(x) \/ PoolEnds(x)
       \/ Crash(x) \/ CloseLoop(x) \/ Finished(x)

Spec == Init /\ [][Next]_vars

\* The loop runs ready tasks and timers, sinks and observers return, a noticed
\* loss is reported.  Neither a factory nor a run has to come to an end.
FairSpec ==
  /\ Spec
  /\ \A x \in Workers :
       /\ WF_vars(SchedulerStep(x)) /\ WF_vars(Drain(x)) /\ WF_vars(Shutdown(x))
       /\ WF_vars(ForceCancel(x)) /\ WF_vars(PoolEnds(x)) /\ WF_vars(CloseLoop(x))
       /\ WF_vars(LeaseLostCallback(x))

-----------------------------------------------------------------------------
(* Properties *)

\* What a fenced-out run can still do, cancelled and orphaned runs included: one
\* write of its task and one of its owner, those whose check had succeeded when
\* the lease went away, and the calls of the shutdown that ask no fence, each at
\* most once and none before the lane is through with its own and its owner's.
LateWritesBounded ==
  \A x \in Workers :
    /\ w[x].late <= 1 /\ w[x].ownerLate <= 1 /\ w[x].spill <= 3
    /\ w[x].task \in {"work", "write", "drain", "report"} => w[x].spill = 0

\* max_consecutive_errors: no run is started once the budget is used up, and
\* runs given up for a lost lease do not touch it.
ErrorBudget ==
  \A x \in Workers : w[x].pc \in {"top", "build", "running", "cancelling"} =>
                        w[x].errs < MaxErrors

\* The scheduler never goes on to wait, or to the next run, while the run task
\* it started is still alive: an aborted run has shut down before that.
OneRunAtATime ==
  \A x \in Workers : w[x].pc \in {"top", "wait", "build"} => w[x].task \notin Running

\* Whatever way a run ends, its lease is back before the scheduler sleeps or the
\* pool is down, so that other workers can take the pipeline over.
IdleHoldsNoLease ==
  \A x \in Workers : w[x].pc = "wait" \/ (w[x].pool = "down" /\ w[x].task # "none")
                        => ~Holds(x, w[x].fence)

\* What the scheduler keeps between the runs of one worker: they never overlap,
\* the error budget stops the loop, and the lease is given back.
RunsTakeTurns == TypeOK /\ OneRunAtATime /\ ErrorBudget /\ IdleHoldsNoLease

\* A pool asked to stop comes down although a run may hang: what does not stop
\* within the timeout is cancelled, wherever it is.
StopEnds == \A x \in Workers : w[x].pool = "stopping" ~> w[x].pool = "down"

\* A run whose lease loss was noticed stops, although it may never end itself.
LostRunStops ==
  \A x \in Workers : (w[x].lost /\ w[x].task \in Running) ~> w[x].task \notin Running

\* No run is alive when the pool reports that it is down.
PoolStopsLast == \A x \in Workers : w[x].pool = "down" => w[x].task \notin Running
=============================================================================
