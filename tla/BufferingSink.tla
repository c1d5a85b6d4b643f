--------------------------- MODULE BufferingSink ---------------------------
(***************************************************************************)
(* The sinks that keep records in memory before they write: CsvSink,       *)
(* JsonLinesSink and ParquetSink (sinks/file) and WebhookSink (sinks/http).*)
(* write() accepts a record into a buffer; a full buffer, flush() and      *)
(* close() map it and hand it to a thread or to the endpoint.  Arrow       *)
(* batches go past the buffer, natively or through the row path.           *)
(*                                                                         *)
(* out is what the file holds (the header is 0, Old was there before) or   *)
(* what the endpoint received.  A handle opened for appending writes at    *)
(* the end, another one at its own offset.                                 *)
(***************************************************************************)
EXTENDS Naturals, Sequences, SequencesExt, FiniteSetsExt

CONSTANTS NRecords,     \* records offered to the sink
          FlushEvery,   \* flush_every, batch_size of ParquetSink
          MaxPostRetries,\* max_retries of WebhookSink
          MaxSessions,  \* open() to close(), by this object or a new one
          MaxSinkFaults \* failed or cancelled writes

VARIABLE bs

Header == 0
Old == NRecords + 1
NoHandle == [open |-> FALSE, app |-> FALSE, off |-> 0]

(* lane: the lane hands the sink rows or Arrow batches.  poison: a record  *)
(* the mapper raises for, 0 for none.  rust: the native Arrow writer of    *)
(* the optional extension is available.  webhook: batch_mode.              *)
Configs ==
    [kind : {"csv", "jsonl", "parquet", "webhook", "webhookrow"}, lane : {"rows", "arrow"},
     append : BOOLEAN, exists : BOOLEAN, rust : BOOLEAN, poison : {0, 2}]

Fresh ==
    [buffer |-> <<>>,
     written |-> FALSE,       \* _header_written, _has_written
     handle |-> NoHandle,     \* _file, or the open ParquetWriter
     rust |-> NoHandle, rustFailed |-> FALSE]

Init ==
    \E c \in Configs :
        /\ c.kind \notin {"csv", "jsonl"} => ~c.append /\ ~c.rust
        /\ c.kind \in {"webhook", "webhookrow"} => ~c.exists /\ c.lane = "rows"
        /\ c.lane = "rows" => ~c.rust
        /\ bs = Fresh @@
                [conf |-> c, next |-> 1, sessions |-> 0, state |-> "closed",
                 call |-> "none", step |-> "idle", mine |-> {}, rows |-> <<>>, attempt |-> 0,
                 exists |-> c.exists,
                 out |-> CASE ~c.exists -> <<>>
                           [] c.exists /\ c.kind = "csv" -> <<Header, Old>>
                           [] OTHER -> <<Old>>,
                 orphan |-> <<>>,   \* rows of a thread whose flush was cancelled
                 accepted |-> {},   \* history: records whose write() returned
                 lost |-> {},       \* history: rows of a truncation or a crash
                 faults |-> 0,
                 again |-> {},      \* history: rows of a flush that did not return
                 over |-> FALSE]    \* history: a handle wrote over other bytes

(* Bytes through a handle: past the end, or over what is there.            *)
Put(s, h, rows) ==
    IF h.app THEN s.out \o rows
    ELSE [i \in 1 .. Max({Len(s.out), h.off + Len(rows)}) |->
             IF i > h.off /\ i <= h.off + Len(rows) THEN rows[i - h.off] ELSE s.out[i]]
Truncated(s, app) ==
    IF app THEN s ELSE [s EXCEPT !.out = <<>>, !.lost = @ \union ToSet(s.out)]
Handle(app) == [open |-> TRUE, app |-> app, off |-> 0]

-----------------------------------------------------------------------------
(* Rows into the file.                                                     *)

(* Mutant of OpenAppends: a file that was written is opened afresh.        *)
AppendsIfAsked(s) == s.conf.kind # "parquet" /\ s.conf.append

(* _open_file, _ensure_writer: "a" when told to append or once written,    *)
(* "w" truncates; a ParquetWriter always starts the file again.            *)
OpenAppends(s) == s.conf.kind # "parquet" /\ (s.conf.append \/ s.written)
Opened(s) ==
    IF s.handle.open THEN s
    ELSE [Truncated(s, OpenAppends(s)) EXCEPT !.handle = Handle(OpenAppends(s)), !.exists = TRUE]

(* _should_write_header; the row path asks once it has opened the file.    *)
WantsHeader(s) == s.conf.kind = "csv" /\ ~s.written /\ ~(s.conf.append /\ s.exists)
Lead(s) == IF WantsHeader(s) THEN <<Header>> ELSE <<>>

(* _write_rows, _write_batch, _write_arrow_rows                            *)
RowsWritten(s, rows) ==
    LET t == Opened(s)
        all == (IF s.handle.open THEN <<>> ELSE Lead(t)) \o rows
    IN [t EXCEPT !.out = Put(t, t.handle, all), !.handle.off = @ + Len(all),
                 !.over = @ \/ (~t.handle.app /\ t.handle.off < Len(t.out))]

-----------------------------------------------------------------------------
(* A session, and the calls a lane makes in it.                            *)

(* The next run, by the same object or, after a crash or by choice, by a   *)
(* new one.  JsonLinesSink opens its file in open().                       *)
OpenSink ==
    /\ bs.state \in {"closed", "down"} /\ bs.sessions < MaxSessions
    /\ \E fresh \in IF bs.state = "down" \/ bs.sessions = 0 THEN {TRUE} ELSE BOOLEAN :
           LET s == [(IF fresh THEN Fresh ELSE bs) @@ bs EXCEPT
                       !.sessions = @ + 1, !.state = "up"]
           IN bs' = IF s.conf.kind = "jsonl" THEN Opened(s) ELSE s

Free == bs.state = "up" /\ bs.call = "none"
Batch(k) == [i \in 1 .. k |-> bs.next + i - 1]
Called(call, step) == [bs EXCEPT !.call = call, !.step = step]
Offer(k) == [Called("write", "flush") EXCEPT !.next = @ + k, !.mine = ToSet(Batch(k))]

(* write(), write_batch(): into the buffer, and a flush when it is full.   *)
(* A webhook without batch_mode maps and posts every record by itself.     *)
Write(k) ==
    /\ Free /\ bs.conf.lane = "rows" /\ bs.next + k - 1 <= NRecords
    /\ IF bs.conf.kind = "webhookrow"
       THEN /\ k = 1
            /\ bs' = [Offer(1) EXCEPT !.step = IF bs.next = bs.conf.poison THEN "raised" ELSE "post",
                                      !.rows = Batch(1), !.attempt = 1]
       ELSE bs' = [Offer(k) EXCEPT !.buffer = @ \o Batch(k),
                                   !.step = IF Len(bs.buffer) + k >= FlushEvery
                                            THEN "flush" ELSE "done"]

CallFlush == Free /\ bs' = Called("flush", "flush")
CallClose == Free /\ bs' = Called("close", "flush")

(* flush(): map the buffer; JsonLinesSink takes it out, the others leave   *)
(* it until the rows are written.                                          *)
FlushMaps ==
    /\ bs.step = "flush"
    /\ \/ bs.buffer = <<>> /\ bs' = [bs EXCEPT !.step = "done"]
       \/ Contains(bs.buffer, bs.conf.poison) /\ bs' = [bs EXCEPT !.step = "raised"]
       \/ /\ bs.buffer # <<>> /\ ~Contains(bs.buffer, bs.conf.poison)
          /\ bs' = [bs EXCEPT !.rows = bs.buffer, !.attempt = 1,
                              !.buffer = IF bs.conf.kind = "jsonl" THEN <<>> ELSE @,
                              !.step = IF bs.conf.kind = "webhook" THEN "post" ELSE "thread"]

Trimmed(s) == IF s.conf.kind \in {"jsonl", "webhookrow"} THEN s
              ELSE [s EXCEPT !.buffer = SubSeq(@, Len(s.rows) + 1, Len(@))]

ThreadWrites ==
    /\ bs.step = "thread"
    /\ bs' = [Trimmed(RowsWritten(bs, bs.rows)) EXCEPT !.written = TRUE, !.rows = <<>>,
                                                     !.step = "done"]

(* Mutant of Restored: the rows of a failed flush are forgotten.           *)
Forgotten(s) == s

(* The except clause of JsonLinesSink.flush                                *)
Restored(s) == IF s.conf.kind = "jsonl" THEN [s EXCEPT !.buffer = s.rows \o @] ELSE s

(* The disk fails after some of the rows.                                  *)
Fault == bs.faults < MaxSinkFaults
ThreadFails ==
    /\ bs.step = "thread" /\ Fault
    /\ \E n \in 0 .. Len(bs.rows) :
           LET part == SubSeq(bs.rows, 1, n)
           IN bs' = [Restored(RowsWritten(bs, part)) EXCEPT
                       !.faults = @ + 1, !.again = @ \union ToSet(bs.rows), !.rows = <<>>, !.step = "raised"]

(* The await is cancelled; the thread goes on.                             *)
FlushCancelled ==
    /\ bs.step = "thread" /\ bs.orphan = <<>> /\ Fault
    /\ bs' = [bs EXCEPT !.orphan = bs.rows, !.rows = <<>>, !.again = @ \union ToSet(bs.rows),
                        !.faults = @ + 1, !.step = "raised"]
OrphanWrites ==
    /\ bs.orphan # <<>> /\ (bs.conf.kind = "jsonl" => bs.handle.open)
    /\ bs' = [RowsWritten(bs, bs.orphan) EXCEPT
                !.orphan = <<>>, !.written = @ \/ bs.conf.kind = "jsonl"]
OrphanFails ==
    /\ bs.orphan # <<>>
    /\ bs' = [bs EXCEPT !.lost = @ \union ToSet(bs.orphan), !.orphan = <<>>]

-----------------------------------------------------------------------------
(* _post_with_retry: an answer, or a request that failed before or after   *)
(* the endpoint took it.                                                   *)

Received(s) == [s EXCEPT !.out = @ \o s.rows]
PostAccepted ==
    /\ bs.step = "post"
    /\ bs' = [Trimmed(Received(bs)) EXCEPT !.rows = <<>>, !.step = "done"]
PostRefused ==
    /\ bs.step = "post" /\ Fault
    /\ bs' = [bs EXCEPT !.again = @ \union ToSet(bs.rows), !.rows = <<>>, !.step = "raised",
                        !.faults = @ + 1]
PostRetried ==
    /\ bs.step = "post" /\ Fault
    /\ \E s \in {bs, Received(bs)} :
           LET t == [s EXCEPT !.again = @ \union ToSet(bs.rows), !.attempt = @ + 1]
           IN bs' = IF bs.attempt > MaxPostRetries THEN [t EXCEPT !.step = "raised", !.rows = <<>>, !.faults = @ + 1]
                    ELSE t

-----------------------------------------------------------------------------
(* write_arrow_batch, in one thread call.                                  *)

(* The extension's writer: CsvSink tells it to append as configured,       *)
(* JsonLinesSink also when the file is there.  External.                   *)
RustAppends(s) == s.conf.append \/ (s.conf.kind = "jsonl" /\ (s.written \/ s.exists))
RustOpened(s) ==
    IF s.rust.open THEN s
    ELSE [Truncated(s, RustAppends(s)) EXCEPT !.rust = Handle(RustAppends(s)), !.exists = TRUE]
RustWrites(rows) ==
    LET t == RustOpened(bs)
        all == Lead(t) \o rows
    IN [t EXCEPT !.out = Put(t, t.rust, all), !.rust.off = @ + Len(all),
                 !.over = @ \/ (~t.rust.app /\ t.rust.off < Len(t.out))]

(* pyarrow.csv renders the batch, a second handle appends the bytes.       *)
PyarrowWrites(s, rows) ==
    LET app == s.written \/ s.conf.append
        t == Truncated(s, app)
    IN [t EXCEPT !.out = @ \o Lead(s) \o rows, !.exists = TRUE]

ArrowReturns(s, k) ==
    bs' = [s EXCEPT !.written = TRUE, !.next = @ + k, !.accepted = @ \union ToSet(Batch(k))]
UsesRust == bs.conf.rust /\ ~bs.rustFailed
(* The writer could not be made, or its write raised: JsonLinesSink then   *)
(* gives it up, CsvSink tries it again with the next batch.                *)
WithoutRust ==
    LET given == [bs EXCEPT !.rustFailed = TRUE, !.rust = NoHandle]
    IN CASE ~UsesRust -> {bs}
         [] UsesRust /\ bs.conf.kind = "jsonl" -> {given}
         [] OTHER -> {RustOpened(bs)} \union (IF bs.rust.open THEN {} ELSE {given})

WriteArrow(k) ==
    /\ Free /\ bs.conf.lane = "arrow" /\ bs.next + k - 1 <= NRecords
    /\ \/ UsesRust /\ ArrowReturns(RustWrites(Batch(k)), k)
       \/ \E s \in WithoutRust :
            \/ bs.conf.kind = "csv" /\ ArrowReturns(PyarrowWrites(s, Batch(k)), k)
            \/ /\ bs.conf.kind = "csv" => ~Contains(Batch(k), bs.conf.poison)
               /\ ArrowReturns(RowsWritten(s, Batch(k)), k)
            \/ bs' = [s EXCEPT !.next = @ + k]

-----------------------------------------------------------------------------
(* The end of a call.                                                      *)

Closed(s) == [s EXCEPT !.handle = NoHandle, !.rust = NoHandle, !.state = "closed"]
Returned(s) == [s EXCEPT !.call = "none", !.step = "idle", !.mine = {}]
CallReturns ==
    /\ bs.step = "done"
    /\ bs' = CASE bs.call = "write" -> Returned([bs EXCEPT !.accepted = @ \union bs.mine])
               [] bs.call = "flush" -> Returned(bs)
               [] bs.call = "close" -> Closed(Returned(bs))

(* A write() that raises leaves its record in the buffer; a close() that   *)
(* raises leaves the buffer and the handle, and the run is over.           *)
InHand(s) == ToSet(s.buffer) \union ToSet(s.rows) \union ToSet(s.orphan)
Down(s) ==
    [Returned(s) EXCEPT !.state = "down", !.rows = <<>>, !.orphan = <<>>, !.handle = NoHandle,
        !.lost = @ \union InHand(s) \union
                 (IF s.conf.kind = "parquet" /\ s.handle.open THEN ToSet(s.out) ELSE {}),
        !.out = IF s.conf.kind = "parquet" /\ s.handle.open THEN <<>> ELSE @,
        !.buffer = <<>>]
CallRaises ==
    /\ bs.step = "raised"
    /\ bs' = IF bs.call = "close" THEN Down(bs) ELSE Returned(bs)

(* A Parquet file without its footer cannot be read.                       *)
Crash == bs.state = "up" /\ bs' = Down(bs)
Rests == bs.state # "up" /\ bs.sessions = MaxSessions /\ bs.orphan = <<>> /\ UNCHANGED bs

Next == \/ OpenSink \/ CallFlush \/ CallClose \/ FlushMaps
        \/ \E k \in 1 .. 2 : Write(k) \/ WriteArrow(k)
        \/ ThreadWrites \/ ThreadFails \/ FlushCancelled \/ OrphanWrites \/ OrphanFails
        \/ PostAccepted \/ PostRefused \/ PostRetried
        \/ CallReturns \/ CallRaises \/ Crash \/ Rests

Spec == Init /\ [][Next]_bs

-----------------------------------------------------------------------------
Times(r) == Cardinality({i \in DOMAIN bs.out : bs.out[i] = r})

(* An accepted record is in the output or on its way there, whatever fails *)
(* between the calls; it is gone only after a crash, a close() that raised,*)
(* a truncation by a later session or a thread that failed unobserved, or  *)
(* when two handles on the file of an Arrow lane wrote over each other.    *)
Overwritten == bs.conf.lane = "arrow" /\ bs.over
AcceptedIsKept ==
    bs.accepted \subseteq ToSet(bs.out) \union InHand(bs) \union bs.lost \/ Overwritten

(* After a close() that returned, the accepted records are in the output   *)
(* and not in memory.                                                      *)
ClosedIsFlushed ==
    bs.state = "closed" =>
        bs.accepted \subseteq ToSet(bs.out) \union ToSet(bs.orphan) \union bs.lost \/ Overwritten

(* A record is in the output twice only if a flush that held it raised or  *)
(* was cancelled.                                                          *)
WrittenOnce == \A r \in 1 .. NRecords : Times(r) <= 1 \/ r \in bs.again

(* A CSV file has one header, at its start, but for the file that append   *)
(* mode creates: the row path looks for the file after opening it.  How    *)
(* the extension's writer opens its file is not ours to say.               *)
HeaderFirst ==
    bs.conf.kind = "csv" /\ ~bs.conf.rust /\ bs.out # <<>> /\ ~bs.over =>
        IF bs.conf.append /\ ~bs.conf.exists THEN Times(Header) <= 1
        ELSE Times(Header) = 1 /\ bs.out[1] = Header

=============================================================================
