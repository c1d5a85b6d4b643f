---------------------------- MODULE RunLifecycle ----------------------------
(***************************************************************************)
(* One execution of a pipeline: PipelineExecutor.execute with the          *)
(* lifecycle controller.  Every await can return, raise, or be interrupted *)
(* by a cancellation of the run's task; `except Exception` does not catch  *)
(* the last.  The resources are the middlewares of the chain, the writer,  *)
(* the DLQ sink and the source.                                            *)
(***************************************************************************)
EXTENDS Integers, FiniteSets

CONSTANTS
  Chain,       \* number of middlewares
  MaxCancels   \* bound: how often the run's task is cancelled


Middleware(i) == <<"middleware", i>>
Writer    == <<"writer", 1>>
DLQ       == <<"dlq", 1>>
Source    == <<"source", 1>>
Resources == {Middleware(i) : i \in 1..Chain} \cup {Writer, DLQ, Source}

VARIABLES
  conf,     \* dlq: a DLQ is configured; raise: dlq_failure_policy is RAISE
  pc, idx,  \* the await the run is at; the middleware it is about
  st,       \* each resource: "new", "half" open, "open", "closed"
  twice,    \* history: resources released more than once
  started, writerOpened, dlqOpened, interrupted,   \* PipelineRunState
  runErr,   \* state.run_error: none, fence, delivery, record (SourceRecordError), other
  first,    \* history: what went wrong first while starting or streaming
  shutErr,  \* first_error of the shutdown
  esc,      \* an exception leaves through the `finally` block
  cancels,
  metrics,  \* the live-metrics task is alive
  result    \* what the caller gets

flags == <<started, writerOpened, dlqOpened, interrupted>>
vars  == <<conf, pc, idx, st, twice, flags, runErr, first, shutErr, esc, cancels,
           metrics, result>>

Awaits == {"restore", "start", "rollback", "openWriter", "openDLQ", "closeDLQback",
           "closeWriterBack", "report", "openSource", "stream", "closeSource", "handle", "join",
           "stop", "flushDLQ", "closeDLQ", "flushWriter", "closeWriter", "closeStore"}

Errors == {"none", "fence", "delivery", "record", "other", "source", "shutdown", "restore",
           "dlq", "handled", "cancelled"}

TypeOK ==
  /\ conf \in [dlq : BOOLEAN, raise : BOOLEAN]
  /\ pc \in Awaits \cup {"ended"} /\ idx \in 0..Chain
  /\ st \in [Resources -> {"new", "half", "open", "closed"}]
  /\ twice \subseteq Resources
  /\ flags \in BOOLEAN \X BOOLEAN \X BOOLEAN \X BOOLEAN
  /\ {runErr, first, shutErr, esc} \subseteq Errors
  /\ cancels \in 0..MaxCancels /\ metrics \in BOOLEAN
  /\ result \in (Errors \ {"none"}) \cup {"running", "ok"}

Init ==
  /\ conf \in [dlq : BOOLEAN, raise : BOOLEAN]
  /\ pc = "restore" /\ idx = 0
  /\ st = [r \in Resources |-> "new"] /\ twice = {}
  /\ started = FALSE /\ writerOpened = FALSE /\ dlqOpened = FALSE /\ interrupted = FALSE
  /\ runErr = "none" /\ first = "none" /\ shutErr = "none" /\ esc = "none"
  /\ cancels = 0 /\ metrics = FALSE /\ result = "running"

-----------------------------------------------------------------------------

Blame(e) == IF first = "none" THEN e ELSE first

Release(S) ==
  /\ st' = [r \in Resources |-> IF r \in S THEN "closed" ELSE st[r]]
  /\ twice' = twice \cup {r \in S : st[r] = "closed"}

\* The finally block of execute: live metrics first, then shutdown_runtime.
Finally == pc' = "join" /\ idx' = 0

\* The exception reaches the handlers of execute: one goes to _handle_run_error,
\* a CancelledError only marks the run as interrupted.
Raises(e) ==
  /\ first' = Blame(e)
  /\ IF e = "cancelled"
     THEN /\ interrupted' = TRUE /\ esc' = e /\ Finally
          /\ UNCHANGED runErr
     ELSE /\ runErr' = e /\ pc' = "handle" /\ idx' = 0
          /\ UNCHANGED <<interrupted, esc>>

Goes(p) == pc' = p /\ UNCHANGED <<first, runErr, interrupted, esc>>

-----------------------------------------------------------------------------
(* Restoring and starting. *)

\* restore_checkpoint, outside the try block.  A foreign checkpoint raises under
\* either checkpoint_failure_policy, a failing load under one of them.
Restore ==
  /\ pc = "restore"
  /\ \/ pc' = "start" /\ idx' = 1 /\ UNCHANGED result
     \/ pc' = "ended" /\ result' = "restore" /\ UNCHANGED idx
  /\ UNCHANGED <<conf, st, twice, flags, runErr, first, shutErr, esc, cancels, metrics>>

\* Mutant of MarksStarted: the flag is set after the first middleware.
MarksEarly(i) == TRUE

\* MiddlewareChain.start_all; middlewares_started is set after the last one.
MarksStarted(i) == i = Chain

StartMiddleware ==
  /\ pc = "start" /\ idx <= Chain
  /\ \/ /\ st' = [st EXCEPT ![Middleware(idx)] = "open"]
        /\ started' = MarksStarted(idx)
        /\ IF idx = Chain THEN pc' = "openWriter" /\ idx' = 0
           ELSE pc' = pc /\ idx' = idx + 1
     \/ /\ st' = [st EXCEPT ![Middleware(idx)] = "half"]
        /\ pc' = "rollback" /\ UNCHANGED <<idx, started>>
  /\ UNCHANGED <<conf, twice, writerOpened, dlqOpened, interrupted, runErr, first, shutErr,
                 esc, cancels, metrics, result>>

\* _rollback_started_middlewares: the failing one, then the others in reverse.
RollbackMiddleware ==
  /\ pc = "rollback"
  /\ Release({Middleware(idx)})
  /\ IF idx = 1 THEN Raises("other")
     ELSE idx' = idx - 1 /\ Goes(pc)
  /\ UNCHANGED <<conf, started, writerOpened, dlqOpened, shutErr, cancels, metrics, result>>

\* open_runtime_sinks.
OpenWriter ==
  /\ pc = "openWriter"
  /\ \/ /\ st' = [st EXCEPT ![Writer] = "open"]
        /\ pc' = IF conf.dlq THEN "openDLQ" ELSE "report"
        /\ writerOpened' = ~conf.dlq
     \/ /\ st' = [st EXCEPT ![Writer] = "half"]
        /\ pc' = "closeWriterBack" /\ UNCHANGED writerOpened
  /\ UNCHANGED <<conf, idx, twice, started, dlqOpened, interrupted, runErr, first, shutErr,
                 esc, cancels, metrics, result>>

OpenDLQ ==
  /\ pc = "openDLQ"
  /\ \/ /\ st' = [st EXCEPT ![DLQ] = "open"]
        /\ pc' = "report" /\ writerOpened' = TRUE /\ dlqOpened' = TRUE
     \/ /\ st' = [st EXCEPT ![DLQ] = "half"]
        /\ pc' = "closeDLQback" /\ UNCHANGED <<writerOpened, dlqOpened>>
  /\ UNCHANGED <<conf, idx, twice, started, interrupted, runErr, first, shutErr, esc,
                 cancels, metrics, result>>

\* rollback_open_failure: close what was attempted; errors are logged.
RollbackTargets == IF pc = "closeDLQback" THEN {DLQ} ELSE {Writer}

RollbackOpen ==
  /\ pc \in {"closeDLQback", "closeWriterBack"}
  /\ Release(RollbackTargets)
  /\ IF pc = "closeDLQback" THEN Goes("closeWriterBack") /\ UNCHANGED idx
     ELSE Raises("other")
  /\ UNCHANGED <<conf, started, writerOpened, dlqOpened, shutErr, cancels, metrics, result>>

\* The first live-metrics callback, then the reporting task.
Report ==
  /\ pc = "report"
  /\ metrics' \in BOOLEAN /\ pc' = "openSource"
  /\ UNCHANGED <<conf, idx, st, twice, flags, runErr, first, shutErr, esc, cancels, result>>

-----------------------------------------------------------------------------
(* _run_stream and _handle_run_error. *)

OpenSource ==
  /\ pc = "openSource"
  /\ \/ /\ st' = [st EXCEPT ![Source] = "open"]
        /\ Goes("stream") /\ UNCHANGED idx
     \/ /\ st' = [st EXCEPT ![Source] = "half"]
        /\ Raises("other")
  /\ UNCHANGED <<conf, twice, started, writerOpened, dlqOpened, shutErr, cancels, metrics, result>>

\* ExecutionCoordinator.run ends: exhausted, failed, or by KeyboardInterrupt.
Stream ==
  /\ pc = "stream"
  /\ \E e \in {"none", "fence", "delivery", "record", "other"} : first' = Blame(e)
  /\ pc' = "closeSource"
  /\ UNCHANGED <<conf, idx, st, twice, flags, runErr, shutErr, esc, cancels, metrics, result>>

KeyboardInterrupts ==
  /\ pc = "stream"
  /\ interrupted' = TRUE /\ pc' = "closeSource"
  /\ UNCHANGED <<conf, idx, st, twice, started, writerOpened, dlqOpened, runErr, first,
                 shutErr, esc, cancels, metrics, result>>

\* source.close: its error counts only if the stream itself did not fail.
CloseSource ==
  /\ pc = "closeSource"
  /\ Release({Source})
  /\ \E bad \in BOOLEAN :
       IF first = "cancelled" THEN Raises("cancelled")
       ELSE IF first # "none" THEN Raises(first)
       ELSE IF bad /\ ~interrupted THEN Raises("source")
       ELSE Finally /\ UNCHANGED <<first, runErr, interrupted, esc>>
  /\ UNCHANGED <<conf, started, writerOpened, dlqOpened, shutErr, cancels, metrics, result>>

\* The failure goes to the DLQ unless the record already took that way or the
\* run is fenced out; a raising DLQ replaces the exception on its way out.  So
\* does on_handled, which a SourceRecordError may bring along (no source of this
\* repository does) and which is awaited once the DLQ has the record.
HandleError ==
  /\ pc = "handle"
  /\ Finally
  /\ \/ UNCHANGED esc
     \/ /\ dlqOpened /\ conf.raise /\ runErr \notin {"fence", "delivery"}
        /\ esc' = "dlq"
     \/ /\ dlqOpened /\ runErr = "record"
        /\ esc' = "handled"
  /\ UNCHANGED <<conf, st, twice, flags, runErr, first, shutErr, cancels, metrics, result>>

-----------------------------------------------------------------------------
(* Shutdown. *)

SinksDown ==
  IF dlqOpened THEN "flushDLQ" ELSE IF writerOpened THEN "flushWriter" ELSE "closeStore"

StopReporting == metrics' = FALSE

Join ==
  /\ pc = "join"
  /\ StopReporting
  /\ idx' = Chain
  /\ pc' = IF started THEN "stop" ELSE SinksDown
  /\ UNCHANGED <<conf, st, twice, flags, runErr, first, shutErr, esc, cancels, result>>

\* stop_all, in reverse; an error of on_stop is logged.
StopMiddleware ==
  /\ pc = "stop"
  /\ Release({Middleware(idx)})
  /\ idx' = idx - 1
  /\ pc' = IF idx > 1 THEN pc ELSE SinksDown
  /\ UNCHANGED <<conf, flags, runErr, first, shutErr, esc, cancels, metrics, result>>

AfterStep ==
  CASE pc = "flushDLQ" -> "closeDLQ"
    [] pc = "closeDLQ" -> IF writerOpened THEN "flushWriter" ELSE "closeStore"
    [] pc = "flushWriter" -> "closeWriter"
    [] pc = "closeWriter" -> "closeStore"

\* _capture: whatever fails, the next step is taken; the first error is kept.
NextStep(bad) == AfterStep

ShutdownStep ==
  /\ pc \in {"flushDLQ", "closeDLQ", "flushWriter", "closeWriter"}
  /\ IF pc = "closeDLQ" THEN Release({DLQ})
     ELSE IF pc = "closeWriter" THEN Release({Writer})
     ELSE UNCHANGED <<st, twice>>
  /\ \E bad \in BOOLEAN :
       /\ pc' = NextStep(bad)
       /\ shutErr' = IF bad /\ shutErr = "none" THEN "shutdown" ELSE shutErr
  /\ UNCHANGED <<conf, idx, flags, runErr, first, esc, cancels, metrics, result>>

\* Mutant of Terminal: a shutdown error replaces it.
ShutdownFirst(s) == IF s # "none" THEN s ELSE IF runErr # "none" THEN runErr ELSE "ok"

\* What execute raises or returns: an exception on its way out, the
\* cancellation, run_error, then an error of the shutdown that is not suppressed.
Terminal(s) ==
  IF runErr # "none" THEN runErr
  ELSE IF interrupted \/ s = "none" THEN "ok" ELSE s

CloseStore ==
  /\ pc = "closeStore"
  /\ pc' = "ended"
  /\ \E bad \in BOOLEAN :
       /\ shutErr' = IF bad /\ shutErr = "none" THEN "shutdown" ELSE shutErr
       /\ result' = IF esc # "none" THEN esc ELSE Terminal(shutErr')
  /\ UNCHANGED <<conf, idx, st, twice, flags, runErr, first, esc, cancels, metrics>>

-----------------------------------------------------------------------------

\* The resource the current await opens or closes.
Touched ==
  CASE pc = "start" -> Middleware(idx) [] pc = "openWriter" -> Writer
    [] pc = "openDLQ" -> DLQ [] OTHER -> Source

\* The run's task is cancelled at its await.  While starting, no rollback
\* catches it; while streaming the source is still closed; in the handler it
\* goes to the finally block; there it ends the shutdown.
Cancel ==
  /\ pc \in Awaits /\ cancels < MaxCancels
  /\ cancels' = cancels + 1
  /\ \/ /\ pc = "restore"
        /\ pc' = "ended" /\ result' = "cancelled"
        /\ UNCHANGED <<idx, st, interrupted, esc, first, metrics>>
     \/ /\ pc \in {"start", "openWriter", "openDLQ", "openSource", "closeSource"}
        /\ st' = [st EXCEPT ![Touched] = "half"]
        /\ interrupted' = TRUE /\ esc' = "cancelled" /\ first' = Blame("cancelled")
        /\ Finally /\ UNCHANGED <<result, metrics>>
     \/ /\ pc \in {"rollback", "closeDLQback", "closeWriterBack", "report"}
        /\ interrupted' = TRUE /\ esc' = "cancelled" /\ first' = Blame("cancelled")
        /\ Finally /\ UNCHANGED <<st, result, metrics>>
     \/ /\ pc = "stream"
        /\ pc' = "closeSource" /\ first' = Blame("cancelled")
        /\ UNCHANGED <<idx, st, interrupted, esc, result, metrics>>
     \/ /\ pc = "handle"
        /\ esc' = "cancelled" /\ Finally
        /\ UNCHANGED <<st, interrupted, first, result, metrics>>
     \/ /\ pc \in {"join", "stop", "flushDLQ", "closeDLQ", "flushWriter", "closeWriter",
                   "closeStore"}
        /\ pc = "join" => metrics
        /\ pc' = "ended" /\ result' = "cancelled" /\ metrics' = FALSE
        /\ UNCHANGED <<idx, st, interrupted, esc, first>>
  /\ UNCHANGED <<conf, twice, started, writerOpened, dlqOpened, runErr, shutErr>>

Step ==
  \/ Restore \/ StartMiddleware \/ RollbackMiddleware \/ OpenWriter \/ OpenDLQ
  \/ RollbackOpen \/ Report \/ OpenSource \/ Stream \/ KeyboardInterrupts \/ CloseSource
  \/ HandleError \/ Join \/ StopMiddleware \/ ShutdownStep \/ CloseStore

Ended == pc = "ended" /\ UNCHANGED vars

Next == Step \/ Cancel \/ Ended

Spec == Init /\ [][Next]_vars

-----------------------------------------------------------------------------
(* Properties *)

\* A run that was not cancelled has released the middlewares and sinks it opened
\* or tried to open, and the source it opened, wherever it failed: rollbacks and
\* shutdown leave no gap.  One cancellation leaves none among middlewares and
\* sinks either, once start_runtime has returned and until shutdown begins.
AllReleased ==
  (pc = "ended" /\ result # "restore")
  => /\ cancels = 0 => st[Source] # "open"
     /\ (cancels = 0 \/ (cancels = 1 /\ writerOpened /\ first = "cancelled"))
        => \A r \in Resources \ {Source} : st[r] \in {"new", "closed"}

\* No resource is released twice: rollback and shutdown never overlap.
ReleasedOnce == twice = {}

\* The caller gets the reason the run failed for, never an error of the cleanup
\* in its place.  What replaces it: a DLQ configured to raise, unless the record
\* had been there or the run was fenced out; an on_handled that raises after the
\* DLQ took the record; a cancellation.
ReasonPreserved ==
  (pc = "ended" /\ first # "none") =>
    \/ result = first
    \/ result = "dlq" /\ conf.dlq /\ conf.raise /\ first \notin {"fence", "delivery"}
    \/ result = "handled" /\ conf.dlq /\ first = "record"
    \/ result = "cancelled" /\ cancels # 0

\* A run reported as completed has flushed and closed without an error, unless
\* it was interrupted from the keyboard.
OkMeansFlushed ==
  (pc = "ended" /\ result = "ok" /\ ~interrupted) =>
    shutErr = "none" /\ runErr = "none" /\ \A r \in Resources \ {DLQ} : st[r] = "closed"

\* The live-metrics task never outlives the run.
MetricsTaskEnds == pc = "ended" => ~metrics

\* What was opened is released, and released once, and the live-metrics task ends
\* with the run.
AllReleasedOnce == TypeOK /\ AllReleased /\ ReleasedOnce /\ MetricsTaskEnds

\* The caller sees the reason of the failure, but for the named replacements, and
\* success only when everything was flushed and closed.
OutcomeIsTrue == ReasonPreserved /\ OkMeansFlushed
=============================================================================
