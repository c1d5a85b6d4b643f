----------------------------- MODULE MCRuntime -----------------------------
(***************************************************************************)
(* Model checking what must come to an end: the scheduler and its runs     *)
(* (Scheduler), the lifecycle of one run (RunLifecycle), the prefetch that *)
(* feeds its lane (SourcePrefetch) and the process pool behind its batches *)
(* (ProcessPool).  The parts do not share state here; a behaviour moves    *)
(* one of them, named by part, and the others keep an initial state.       *)
(***************************************************************************)
EXTENDS Scheduler, Sequences, FiniteSets

CONSTANTS Chain, MaxCancels,                \* RunLifecycle
          MaxRecords, MaxLimit,             \* SourcePrefetch
          Batches, InFlight                 \* ProcessPool

ASSUME LifecycleAssumption == Chain \in Nat \ {0} /\ MaxCancels \in Nat

VARIABLES part,
          conf, pc, idx, st, twice, started, writerOpened, dlqOpened, interrupted, runErr,
          first, shutErr, esc, cancels, metrics, result,             \* RunLifecycle
          sp, pp

RL == INSTANCE RunLifecycle
SP == INSTANCE SourcePrefetch
PP == INSTANCE ProcessPool

rlvars == <<conf, pc, idx, st, twice, started, writerOpened, dlqOpened, interrupted,
            runErr, first, shutErr, esc, cancels, metrics, result>>
all == <<part, vars, rlvars, sp, pp>>

RuntimeInit ==
  /\ part \in {"scheduler", "lifecycle", "prefetch", "pool"}
  /\ Init /\ RL!Init /\ SP!Init /\ PP!Init
  /\ part # "scheduler" => \A x \in Workers : w[x].repeat
  /\ part # "lifecycle" => conf = [dlq |-> FALSE, raise |-> FALSE]
  /\ part # "prefetch" =>
        sp.conf = [mode |-> "python", limit |-> 1, records |-> 0, fails |-> FALSE]

RuntimeNext ==
  \/ part = "scheduler" /\ Next /\ UNCHANGED <<part, rlvars, sp, pp>>
  \/ part = "lifecycle" /\ RL!Next /\ UNCHANGED <<part, vars, sp, pp>>
  \/ part = "prefetch" /\ SP!Next /\ UNCHANGED <<part, vars, rlvars, pp>>
  \/ part = "pool" /\ PP!Next /\ UNCHANGED <<part, vars, rlvars, sp>>

(* Task i of the part that moves.  The event loop runs every ready task    *)
(* and timer, awaited calls return, the producer thread goes on whenever   *)
(* it is not blocked, a noticed lease loss is reported.  Nothing has to be *)
(* started or to fail, no run and no source has to come to an end.         *)
Task(i) ==
  \/ /\ part = "scheduler"
     /\ \E x \in Workers :
          \/ i = 1 /\ SchedulerStep(x)
          \/ i = 2 /\ Shutdown(x)
          \/ i = 3 /\ ForceCancel(x)
          \/ i = 4 /\ PoolEnds(x)
          \/ i = 5 /\ CloseLoop(x)
          \/ i = 6 /\ LeaseLostCallback(x)
          \/ i = 7 /\ Drain(x)
     /\ UNCHANGED <<part, rlvars, sp, pp>>
  \/ /\ part = "prefetch"
     /\ (i = 1 /\ SP!Producer) \/ (i = 2 /\ SP!Consumer)
     /\ UNCHANGED <<part, vars, rlvars, pp>>
  \/ /\ part = "pool" /\ i \in 1 .. Batches
     /\ PP!Resume(i) \/ PP!ResumeCancelled(i)
     /\ UNCHANGED <<part, vars, rlvars, sp>>

\* The parts exclude one another, so one conjunct serves a task of each (of the
\* one worker there is).
RuntimeFairness == \A i \in 1 .. 7 : WF_all(Task(i))

RuntimeSafety == RuntimeInit /\ [][RuntimeNext]_all
RuntimeSpec   == RuntimeSafety /\ RuntimeFairness

-----------------------------------------------------------------------------
(* RunLifecycle: what was opened is released, and released once, and the   *)
(* live-metrics task ends with the run.                                    *)
AllReleasedOnce == RL!AllReleasedOnce

(* RunLifecycle: the caller sees the reason of the failure, unless a       *)
(* raising DLQ, a raising on_handled or a cancellation replaced it, and    *)
(* success only when everything was flushed and closed.                    *)
OutcomeIsTrue == RL!OutcomeIsTrue

(* SourcePrefetch: records reach the lane in order, each with the          *)
(* checkpoint the source had when it produced that record; a stream that   *)
(* ends quietly delivered everything, a source error comes after the       *)
(* records read before it; how far the source is read ahead, and how much  *)
(* once it was closed, is bounded.                                         *)
StreamIsFaithful == SP!StreamIsFaithful

(* ProcessPool: no batch succeeds with the result of an invalidated pool,  *)
(* no pool but the current one runs, and only the lane's own cancellation  *)
(* ends a batch cancelled.                                                 *)
PoolIsCurrent == PP!PoolIsCurrent

(* SourcePrefetch, ProcessPool: leaving the generator comes to an end, and *)
(* so does every batch of a torn-down pool.                                *)
LeavingEnds == SP!LeavingEnds /\ PP!OrphansEnd

=============================================================================
