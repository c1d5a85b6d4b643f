------------------------------ MODULE Writers ------------------------------
(***************************************************************************)
(* The writers between the delivery engine and the sinks                   *)
(* (core/sink/_writers.py): SinkFanOut sends every record to every sink,   *)
(* one sink after the other or concurrently under a semaphore, and         *)
(* SinkRouter sends a record to the sink of the first matching route.      *)
(* One life of a writer is modelled: open, with its rollback, one batch    *)
(* of rows written row-wise (write, write_batch) or as an Arrow batch,     *)
(* flush and close.  The sinks are external: they may accept, reject or    *)
(* silently refuse a row, raise from a native batch call after keeping     *)
(* all of it or nothing, and fail to open, flush or close.                 *)
(***************************************************************************)
EXTENDS Naturals, Sequences, SequencesExt, FiniteSetsExt

CONSTANTS NSinks,     \* largest number of sinks behind the writer
          NRows       \* rows in the batch

VARIABLE wr

Rows == 1 .. NRows
Sinks == 1 .. wr.conf.sinks

(* What sink_capabilities() says of a sink: rows one at a time and in      *)
(* order, rows in parallel, a native write_batch, a native Arrow batch.    *)
Kinds == {"rows", "parallel", "batch", "arrow"}

(* concurrent and limit are SinkFanOut's concurrent_writes and             *)
(* max_concurrency (0: None); chunk is _arrow_fallback_chunk_size; route   *)
(* is the sink of the first route that matches the row, 0 when none does   *)
(* and there is no default.                                                *)
FanOuts == [writer : {"fanout"}, sinks : 1 .. NSinks,
            kind : [1 .. NSinks -> Kinds], concurrent : {TRUE},
            limit : 0 .. 2, chunk : 1 .. NRows, route : {<<>>}]
Serial(c) == [c EXCEPT !.concurrent = FALSE, !.limit = 0]
Routers == [writer : {"router"}, sinks : {NSinks},
            kind : [1 .. NSinks -> Kinds \ {"arrow"}], concurrent : {FALSE},
            limit : {0}, chunk : {NRows}, route : [Rows -> 0 .. NSinks]]
Configs == FanOuts \union {Serial(c) : c \in FanOuts} \union Routers

(* The rows a sink is to be given, in batch order.                         *)
Assigned(s) ==
    SelectSeq([r \in Rows |-> r],
              LAMBDA r : wr.conf.writer = "fanout" \/ wr.conf.route[r] = s)

Init ==
    \E c \in Configs :
        wr = [conf |-> c, op |-> "new",
              call |-> [s \in 1 .. NSinks |-> "none"],
              state |-> [s \in 1 .. NSinks |-> "closed"],
              todo |-> [s \in 1 .. NSinks |-> <<>>],
              out |-> [s \in 1 .. NSinks |-> [r \in Rows |-> "none"]],
              got |-> [s \in 1 .. NSinks |-> <<>>],
              raised |-> FALSE, result |-> <<>>]

-----------------------------------------------------------------------------
(* Calls to the sinks.  A call is queued, then running, then ok or failed. *)

Lifecycle == {"open", "flush", "close"}
Running == {s \in Sinks : wr.call[s] = "running"}
Queued == {s \in Sinks : wr.call[s] = "queued"}
Ended(s) == wr.call[s] \in {"ok", "failed"}

(* _run_sink_calls: with no limit every task starts at once, a limit of 1  *)
(* is a plain loop, otherwise a semaphore admits the tasks in order.       *)
RoomForCall ==
    \/ wr.conf.concurrent /\ wr.conf.limit = 0
    \/ Cardinality(Running) < IF wr.conf.concurrent THEN wr.conf.limit ELSE 1

(* Without concurrency open(), flush() and close() leave their loop at the *)
(* first sink that raises; the later sinks are not called.                 *)
StopsAtFailure == ~wr.conf.concurrent /\ wr.op \in Lifecycle
Cut == StopsAtFailure /\ \E s \in Sinks : wr.call[s] = "failed"

(* The router calls the sinks in the order their first rows come.          *)
Rank(s) ==
    CASE wr.conf.writer = "fanout" \/ wr.op # "write" -> s
      [] wr.todo[s] = <<>> -> NRows + s
      [] OTHER -> Head(wr.todo[s])

StartCall(s) ==
    /\ s \in Queued
    /\ \A t \in Queued : Rank(s) <= Rank(t)
    /\ RoomForCall
    /\ ~Cut
    /\ wr' = [wr EXCEPT !.call[s] = "running"]

Begin(op) ==
    wr' = [wr EXCEPT !.op = op, !.raised = FALSE,
                     !.call = [s \in 1 .. NSinks |-> IF s \in Sinks THEN "queued" ELSE "none"],
                     !.todo = [s \in 1 .. NSinks |->
                               IF op \in {"write", "arrow"} THEN Assigned(s) ELSE <<>>]]

Open == wr.op = "new" /\ Begin("open")
Write == wr.op = "opened" /\ Begin("write")
WriteArrow == wr.op = "opened" /\ wr.conf.writer = "fanout" /\ Begin("arrow")
Flush == wr.op = "written" /\ Begin("flush")
Close == wr.op = "flushed" /\ Begin("close")

(* A sink answers open, flush or close.                                    *)
Answer(s) ==
    /\ wr.op \in Lifecycle
    /\ wr.call[s] = "running"
    /\ \/ wr' = [wr EXCEPT !.call[s] = "ok",
                           !.state[s] = CASE wr.op = "open" -> "open"
                                          [] wr.op = "flush" -> "flushed"
                                          [] OTHER -> "closed"]
       \/ wr' = [wr EXCEPT !.call[s] = "failed",
                           !.state[s] = IF wr.op = "close" THEN "unclosed" ELSE @]

AllEnded == \A s \in Sinks : Ended(s) \/ (Cut /\ s \in Queued)
AnyFailed == \E s \in Sinks : wr.call[s] = "failed"

(* open() succeeded, or _close_opened_sinks() begins.                      *)
OpenReturns ==
    /\ wr.op = "open" /\ AllEnded
    /\ wr' = [wr EXCEPT !.op = IF AnyFailed THEN "rollback" ELSE "opened",
                        !.raised = AnyFailed]

(* _close_opened_sinks: in reverse order, going on past a failing close.   *)
OpenedSinks == {s \in Sinks : wr.state[s] = "open"}
RollbackClose(s) ==
    /\ wr.op = "rollback"
    /\ s \in OpenedSinks /\ \A t \in OpenedSinks : t <= s
    /\ \E st \in {"closed", "unclosed"} : wr' = [wr EXCEPT !.state[s] = st]

RollbackEnds ==
    /\ wr.op = "rollback" /\ OpenedSinks = {}
    /\ wr' = [wr EXCEPT !.op = "rolledback"]

(* flush() and close() raise the first exception; the runtime closes after *)
(* a failed flush as well.                                                 *)
FlushReturns ==
    /\ wr.op = "flush" /\ AllEnded
    /\ wr' = [wr EXCEPT !.op = "flushed", !.raised = AnyFailed]
CloseReturns ==
    /\ wr.op = "close" /\ AllEnded
    /\ wr' = [wr EXCEPT !.op = "end", !.raised = AnyFailed]

-----------------------------------------------------------------------------
(* Writing rows to one sink: _write_batch_to_sink and the chunks of        *)
(* write_arrow_batch.                                                      *)

Errors == {"error", "raised"}

(* The rows of the running native call or loop: everything, or the rows    *)
(* left of the current chunk of the Arrow fallback.                        *)
Chunk(s) ==
    IF wr.op = "write" THEN wr.todo[s]
    ELSE LET done == Len(Assigned(s)) - Len(wr.todo[s])
             end == ((done \div wr.conf.chunk) + 1) * wr.conf.chunk
         IN SubSeq(wr.todo[s], 1, Min({end - done, Len(wr.todo[s])}))

(* Mutant of Window: rows are awaited together for every sink.             *)
AlwaysTogether(s) == NRows

(* Rows of a sink declared parallel and unordered are awaited together,    *)
(* in SinkFanOut under a semaphore of their own; other rows one by one.    *)
Window(s) ==
    CASE wr.conf.kind[s] # "parallel" -> 1
      [] wr.conf.writer = "router" -> NRows
      [] ~wr.conf.concurrent -> 1
      [] wr.conf.limit = 0 -> NRows
      [] OTHER -> wr.conf.limit

Native(s) == \/ wr.conf.kind[s] = "batch"
             \/ wr.conf.kind[s] = "arrow" /\ wr.op = "arrow"

(* An error ends the chunked fallback after its chunk.                     *)
ChunkDone(s) ==
    (Len(Assigned(s)) - Len(wr.todo[s])) % wr.conf.chunk = 0 \/ wr.todo[s] = <<>>
ChunkFailed(s) == \E r \in Rows : wr.out[s][r] \in Errors

GivesUp(s) == wr.op = "arrow" /\ ChunkDone(s) /\ ChunkFailed(s)

WriteRow(s) ==
    /\ wr.op \in {"write", "arrow"}
    /\ wr.call[s] = "running" /\ ~Native(s) /\ ~GivesUp(s)
    /\ \E i \in 1 .. Min({Window(s), Len(Chunk(s))}), o \in {"ok", "error"} :
          LET r == Chunk(s)[i]
          IN wr' = [wr EXCEPT !.todo[s] = RemoveAt(@, i),
                              !.out[s][r] = o,
                              !.got[s] = IF o = "ok" THEN Append(@, r) ELSE @]

(* _normalize_batch_write_results: None is success for every row, a list   *)
(* holds one WriteResult per row, anything else raises, as the sink may.   *)
ReturnsResults(s, rows) ==
    \E res \in [ToSet(rows) -> IF wr.conf.kind[s] = "arrow" THEN {"ok"}
                               ELSE {"ok", "error", "refused"}] :
        wr' = [wr EXCEPT !.todo[s] = SubSeq(@, Len(rows) + 1, Len(@)),
                         !.out[s] = res @@ @,
                         !.got[s] = @ \o SelectSeq(rows, LAMBDA r : res[r] = "ok")]
BatchRaises(s, rows) ==
    \E kept \in {rows, <<>>} :
        wr' = [wr EXCEPT !.todo[s] = SubSeq(@, Len(rows) + 1, Len(@)),
                         !.out[s] = [r \in ToSet(rows) |-> "raised"] @@ @,
                         !.got[s] = @ \o kept]

WriteNative(s) ==
    /\ wr.op \in {"write", "arrow"}
    /\ wr.call[s] = "running" /\ Native(s) /\ ~GivesUp(s)
    /\ wr.todo[s] # <<>>
    /\ LET rows == IF wr.conf.kind[s] = "arrow" THEN wr.todo[s] ELSE Chunk(s)
       IN ReturnsResults(s, rows) \/ BatchRaises(s, rows)

CallReturns(s) ==
    /\ wr.op \in {"write", "arrow"}
    /\ wr.call[s] = "running"
    /\ wr.todo[s] = <<>> \/ GivesUp(s)
    /\ wr' = [wr EXCEPT !.call[s] = "ok"]

(* Mutant of WriteResult: the result of the last sink stands for all.      *)
LastSinkOnly(r) == [written |-> wr.out[wr.conf.sinks][r] = "ok",
                    errors |-> wr.out[wr.conf.sinks][r] \in Errors]

(* The merge of the per-sink results into one WriteResult per row.         *)
WriteResult(r) == [written |-> \E s \in Sinks : wr.out[s][r] = "ok",
                   errors |-> \E s \in Sinks : wr.out[s][r] \in Errors]

WriteReturns ==
    /\ wr.op = "write" /\ AllEnded
    /\ wr' = [wr EXCEPT !.op = "written", !.result = [r \in Rows |-> WriteResult(r)]]

(* write_arrow_batch raises the first error of any sink or returns None.   *)
ArrowRaises == \E s \in Sinks : ChunkFailed(s)
ArrowReturns ==
    /\ wr.op = "arrow" /\ AllEnded
    /\ wr' = [wr EXCEPT !.op = "written", !.result = <<>>, !.raised = ArrowRaises]

Ends == wr.op \in {"end", "rolledback"} /\ UNCHANGED wr

Next ==
    \/ Open \/ Write \/ WriteArrow \/ Flush \/ Close
    \/ \E s \in Sinks : \/ StartCall(s) \/ Answer(s) \/ RollbackClose(s)
                        \/ WriteRow(s) \/ WriteNative(s) \/ CallReturns(s)
    \/ OpenReturns \/ RollbackEnds \/ FlushReturns \/ CloseReturns
    \/ WriteReturns \/ ArrowReturns \/ Ends

Spec == Init /\ [][Next]_wr

-----------------------------------------------------------------------------
(* What the delivery engine may conclude from the results of a batch: a    *)
(* row reported written without errors is in every sink it was meant for,  *)
(* unless a sink refused it without an error; a row reported not written   *)
(* is in no sink that answered, and it carries an error unless it had no   *)
(* route or was refused.                                                   *)
ResultsAreTrue ==
    wr.result # <<>> =>
        \A r \in Rows :
            LET res == wr.result[r]
                targets == {s \in Sinks : Contains(Assigned(s), r)}
            IN /\ res.written /\ ~res.errors =>
                     \A s \in targets : Contains(wr.got[s], r) \/ wr.out[s][r] = "refused"
               /\ ~res.written =>
                     \A s \in Sinks : Contains(wr.got[s], r) => wr.out[s][r] = "raised"
               /\ ~res.written /\ ~res.errors =>
                     \A s \in targets : wr.out[s][r] = "refused"

(* An Arrow write that returns has stored every row in every sink, the     *)
(* chunked row fallback included.                                          *)
ArrowReturnStoredAll ==
    wr.op = "written" /\ wr.result = <<>> /\ ~wr.raised =>
        \A s \in Sinks, r \in Rows : Contains(wr.got[s], r) \/ wr.out[s][r] = "refused"

(* A sink that is not declared parallel and unordered receives its rows in *)
(* batch order, and no sink receives a row twice or one routed elsewhere.  *)
SinkReceivesInOrder ==
    \A s \in Sinks :
        /\ wr.conf.kind[s] # "parallel" \/ (wr.conf.writer = "fanout" /\ ~wr.conf.concurrent) =>
              \A i, j \in DOMAIN wr.got[s] : i < j => wr.got[s][i] < wr.got[s][j]
        /\ IsInjective(wr.got[s])
        /\ wr.conf.writer = "router" => \A i \in DOMAIN wr.got[s] : wr.conf.route[wr.got[s][i]] = s

(* At most max_concurrency sinks are called at a time, one when writes are *)
(* not concurrent.                                                         *)
SinkCallsLimited ==
    Cardinality(Running) <= CASE ~wr.conf.concurrent -> 1
                              [] wr.conf.limit = 0 -> NSinks
                              [] OTHER -> wr.conf.limit

(* A failed open() leaves no sink open that was not asked to close: the    *)
(* runtime skips close() for a writer that rolled back.                    *)
FailedOpenLeavesNoneOpen ==
    wr.op = "rolledback" => \A s \in Sinks : wr.state[s] \in {"closed", "unclosed"}

=============================================================================
