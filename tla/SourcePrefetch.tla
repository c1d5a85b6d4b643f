--------------------------- MODULE SourcePrefetch ---------------------------
(***************************************************************************)
(* Reading ahead of the lane (core/runtime/_source_adapter.py).  A         *)
(* producer pulls records from the source, pairs each with the source's    *)
(* checkpoint at that moment and hands it over a bounded buffer to the     *)
(* generator the lane iterates.  "python": an asyncio task and an          *)
(* asyncio.Queue; "rust": a thread that collects a batch and pushes it     *)
(* into the extension's RecordBuffer, which the generator polls.           *)
(*                                                                         *)
(* The lanes leave the generator without aclose(), so after a lane failure *)
(* it is finalised only when it is collected: Abandon and Finalize are     *)
(* separate, and the source may be closed between them.                    *)
(***************************************************************************)
EXTENDS Naturals, Sequences

CONSTANTS MaxRecords,   \* records the source holds, at most
          MaxLimit      \* largest prefetch_limit

VARIABLE sp

Python == sp.conf.mode = "python"
Limit == sp.conf.limit

Init ==
    \E c \in [mode : {"python", "rust"}, limit : 1 .. MaxLimit,
              records : 0 .. MaxRecords, fails : BOOLEAN] :
        sp = [conf |-> c,
              pos |-> 0,            \* records pulled: source.current_checkpoint()
              pending |-> <<>>,     \* the producer's record(s) not handed over yet
              queue |-> <<>>,       \* asyncio.Queue or RecordBuffer
              closed |-> FALSE,     \* RecordBuffer.close()
              held |-> FALSE,       \* error_holder
              prod |-> "pull",
              hand |-> <<>>,        \* what the generator took and has not yielded
              cons |-> "get",
              out |-> <<>>,         \* records yielded to the lane
              how |-> "running",
              open |-> TRUE,        \* source.close() not called yet
              late |-> 0]           \* pulls from the source after close()

(* Mutant of Room: a queue without maxsize.                                *)
UnboundedQueue == TRUE

Room == Len(sp.queue) < Limit
SourceRecord == [raw |-> sp.pos + 1, checkpoint |-> sp.pos + 1]

(* SOURCE_QUEUE_DONE and SourceQueueError, told apart from records.        *)
Done == [raw |-> 0, checkpoint |-> 0]
SourceQueueError == [raw |-> 0, checkpoint |-> 1]

-----------------------------------------------------------------------------
(* The producer.                                                           *)

Pull ==
    /\ sp.prod = "pull"
    /\ sp.pos < sp.conf.records
    /\ LET p == Append(sp.pending, SourceRecord)
       IN sp' = [sp EXCEPT !.pos = @ + 1, !.pending = p,
                           !.prod = IF Python THEN "put"
                                    ELSE IF Len(p) >= Limit THEN "push" ELSE "pull",
                           !.late = @ + IF sp.open THEN 0 ELSE 1]

(* The source ends or raises.  The thread flushes its last batch only      *)
(* when the source ended; an error drops it and closes the buffer.         *)
SourceEnds ==
    /\ sp.prod = "pull"
    /\ sp.pos = sp.conf.records
    /\ sp' = IF Python
             THEN [sp EXCEPT !.prod = IF sp.conf.fails THEN "puterror" ELSE "putdone"]
             ELSE IF sp.conf.fails
             THEN [sp EXCEPT !.prod = "dead", !.held = TRUE, !.closed = TRUE]
             ELSE [sp EXCEPT !.prod = "pushlast"]

(* await source_queue.put(...)                                             *)
Put ==
    /\ Room
    /\ \/ /\ sp.prod = "put"
          /\ sp' = [sp EXCEPT !.queue = @ \o sp.pending, !.pending = <<>>, !.prod = "pull"]
       \/ /\ sp.prod = "puterror"
          /\ sp' = [sp EXCEPT !.queue = Append(@, SourceQueueError), !.prod = "putdone"]
       \/ /\ sp.prod = "putdone"
          /\ sp' = [sp EXCEPT !.queue = Append(@, Done), !.prod = "dead"]

(* push_batch() hands records over while there is room and returns early   *)
(* when the buffer is closed, which ends the thread.                       *)
Push ==
    /\ sp.prod \in {"push", "pushlast"}
    /\ \/ /\ sp.closed
          /\ sp' = [sp EXCEPT !.prod = "dead"]
       \/ /\ ~sp.closed /\ Room /\ sp.pending # <<>>
          /\ sp' = [sp EXCEPT !.queue = Append(@, Head(sp.pending)), !.pending = Tail(@)]
       \/ /\ ~sp.closed /\ sp.pending = <<>>
          /\ sp' = IF sp.prod = "push" THEN [sp EXCEPT !.prod = "pull"]
                   ELSE [sp EXCEPT !.prod = "dead", !.closed = TRUE]

-----------------------------------------------------------------------------
(* The generator.                                                          *)

(* Mutant of IsDone: a closed buffer counts as done.                       *)
IsClosed == sp.closed

IsDone == sp.closed /\ sp.queue = <<>>

(* The SourceRecord goes to the lane as the producer made it.              *)
Get ==
    /\ sp.cons = "get" /\ sp.queue # <<>>
    /\ sp' = IF ~Python
             THEN [sp EXCEPT !.hand = sp.queue, !.queue = <<>>, !.cons = "yield"]
             ELSE IF Head(sp.queue) \in {Done, SourceQueueError}
             THEN [sp EXCEPT !.queue = Tail(@), !.cons = "leave",
                             !.how = IF Head(sp.queue) = Done THEN "end" ELSE "error"]
             ELSE [sp EXCEPT !.out = Append(@, Head(sp.queue)), !.queue = Tail(@),
                             !.cons = "lane"]

(* pop_batch() found nothing: is_done(), then wait_for_item() in a thread, *)
(* which returns on a record, on close() or after its timeout.             *)
Poll ==
    /\ ~Python /\ sp.cons = "get" /\ sp.queue = <<>>
    /\ sp' = [sp EXCEPT !.cons = "check"]
CheckDone ==
    /\ sp.cons = "check"
    /\ sp' = IF IsDone THEN [sp EXCEPT !.cons = "leave", !.how = "end"]
             ELSE [sp EXCEPT !.cons = "wait"]
WaitReturns ==
    /\ sp.cons = "wait"
    /\ sp' = IF IsDone THEN [sp EXCEPT !.cons = "leave", !.how = "end"]
             ELSE [sp EXCEPT !.cons = "get"]

Yield ==
    /\ sp.cons = "yield"
    /\ sp' = [sp EXCEPT !.out = Append(@, Head(sp.hand)), !.hand = Tail(@), !.cons = "lane"]

(* The lane asks for the next record.                                      *)
Resume ==
    /\ sp.cons = "lane"
    /\ sp' = [sp EXCEPT !.cons = IF sp.hand = <<>> THEN "get" ELSE "yield"]

(* The lane fails or breaks out of its loop, or is cancelled while the     *)
(* generator waits for a record.                                           *)
Abandon ==
    /\ sp.cons = "lane"
    /\ sp' = [sp EXCEPT !.cons = "abandoned"]
Finalize ==
    /\ sp.cons = "abandoned"
    /\ sp' = [sp EXCEPT !.cons = "leave", !.how = "aborted"]
Cancelled ==
    /\ sp.cons \in {"get", "wait"}
    /\ sp' = [sp EXCEPT !.cons = "leave", !.how = "aborted"]

(* The finally block.  Python: empty the queue, cancel the producer, which *)
(* drops its record and still puts the end marker; a producer already      *)
(* waiting to put it is let go, the put is shielded.  Rust: close() wakes  *)
(* a blocked push.                                                         *)
CancelledProducer ==
    CASE sp.prod \in {"pull", "put", "puterror"} -> "putdone"
      [] OTHER -> "dead"

(* Mutant of Leave: waiting for the producer without cancelling it.        *)
LeaveByPolling ==
    /\ sp.cons = "leave"
    /\ sp' = IF Python /\ sp.prod # "dead" THEN sp
             ELSE [sp EXCEPT !.closed = TRUE, !.cons = "join"]

Leave ==
    /\ sp.cons = "leave"
    /\ sp' = IF Python
             THEN [sp EXCEPT !.queue = <<>>, !.pending = <<>>, !.prod = CancelledProducer,
                             !.cons = "join"]
             ELSE [sp EXCEPT !.closed = TRUE, !.cons = "join"]

(* await producer_task, or join() of the thread.                           *)
Joined(s) ==
    [s EXCEPT !.cons = "left", !.hand = <<>>,
              !.queue = IF s.conf.mode = "python" THEN <<>> ELSE @,
              !.how = IF @ = "end" /\ s.held THEN "error" ELSE @]
Join ==
    /\ sp.cons = "join"
    /\ sp.prod = "dead"
    /\ sp' = Joined(sp)

(* join() gives up after PRODUCER_JOIN_TIMEOUT_S.                          *)
JoinTimeout ==
    /\ sp.cons = "join" /\ ~Python
    /\ sp.prod # "dead"
    /\ sp' = Joined(sp)

(* The runtime closes the source when the lane has returned.               *)
CloseSource ==
    /\ sp.open
    /\ sp.cons \in {"abandoned", "left"}
    /\ sp' = [sp EXCEPT !.open = FALSE]

Producer == Pull \/ SourceEnds \/ Put \/ Push
Consumer == Get \/ Poll \/ CheckDone \/ WaitReturns \/ Yield \/ Resume \/ Leave \/ Join
Runtime == Finalize \/ CloseSource
Ends == sp.cons = "left" /\ ~sp.open /\ sp.prod = "dead" /\ UNCHANGED sp

Next == Producer \/ Consumer \/ Runtime \/ Abandon \/ Cancelled \/ JoinTimeout \/ Ends

Spec == Init /\ [][Next]_sp

-----------------------------------------------------------------------------
TypeOK ==
    /\ sp.pos \in 0 .. MaxRecords
    /\ sp.prod \in {"pull", "put", "puterror", "putdone", "push", "pushlast", "dead"}
    /\ sp.cons \in {"get", "check", "wait", "yield", "lane", "abandoned", "leave", "join", "left"}
    /\ sp.how \in {"running", "end", "error", "aborted"}

(* The lane sees the source's records in order, none twice or left out,    *)
(* each with the checkpoint the source had when it produced that record,   *)
(* although the source has read ahead by the time the lane gets it.        *)
RecordsKeepTheirCheckpoint ==
    \A i \in DOMAIN sp.out : sp.out[i] = [raw |-> i, checkpoint |-> i]

(* A stream that ends quietly has delivered every record of a source that  *)
(* did not fail; a source error reaches the lane and, with the task, only  *)
(* after every record read before it.                                      *)
StreamEndIsTrue ==
    sp.cons = "left" =>
        /\ sp.how = "end" => ~sp.conf.fails /\ Len(sp.out) = sp.conf.records
        /\ sp.how = "error" /\ Python => sp.conf.fails /\ Len(sp.out) = sp.conf.records

(* The source is never read further ahead of the lane than the buffer, the *)
(* producer's batch and the generator's batch hold.                        *)
ReadAheadBounded == sp.pos - Len(sp.out) <= IF Python THEN Limit + 1 ELSE 3 * Limit

(* Once the generator is left the task is dead; the thread may still be    *)
(* reading, but reads less than one more batch.  An abandoned generator    *)
(* lets its producer fill the buffers, no more.                            *)
LateReadsBounded ==
    /\ sp.cons = "left" /\ Python => sp.prod = "dead"
    /\ sp.late <= IF Python THEN Limit + 1 ELSE 2 * Limit

(* Records reach the lane in order, each with the checkpoint the source    *)
(* had when it produced that record; a stream that ends quietly delivered  *)
(* everything, a source error comes after the records read before it; how  *)
(* far the source is read ahead, and how much once it was closed, is       *)
(* bounded.                                                                *)
StreamIsFaithful ==
    /\ TypeOK /\ RecordsKeepTheirCheckpoint /\ StreamEndIsTrue
    /\ ReadAheadBounded /\ LateReadsBounded

(* Leaving the generator always comes to an end: the producer it waits for *)
(* is not stuck on a full queue.                                           *)
LeavingEnds == sp.cons = "leave" ~> sp.cons = "left"

=============================================================================
