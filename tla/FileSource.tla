----------------------------- MODULE FileSource -----------------------------
(***************************************************************************)
(* The file sources (sources/file): what a run reads, which cursor it      *)
(* saves, and what the next run skips.                                     *)
(*                                                                         *)
(*   csv, jsonl       rows, or lists of rows, through the row mapper       *)
(*   parquet          rows through the row mapper                          *)
(*   arrowcsv, arrowjsonl   whole-file reads handed out in chunks          *)
(*   arrowparquet     chunks read by a thread into a bounded queue         *)
(*                                                                         *)
(* A row is <<g, n>>: row n of generation g of the file.  Appending keeps  *)
(* the generation, replacing the file starts one; both change its identity *)
(* (size, mtime, inode).  A reader goes on reading the file it opened.     *)
(* The lane takes one item at a time and saves its cursor or not.          *)
(***************************************************************************)
EXTENDS Naturals, Sequences, SequencesExt

CONSTANTS Files,       \* contents the file can have: sequences of row kinds
          EmitSize,    \* emit_batch_size, and the rows of an Arrow chunk
          QueueSize,   \* prefetch_limit of the Parquet reader
          RecordLimit, \* max_records of a source wrapped by .limit()
          MaxFileRuns  \* runs

VARIABLE fs

(* Row kinds: "rec" maps to a record, "none" is mapped to None, "bad" does *)
(* not parse or map, "blank" is an empty line.                             *)
Kinds == {"csv", "jsonl", "parquet", "arrowcsv", "arrowjsonl", "arrowparquet"}
Text == {"csv", "jsonl"}
Arrow == {"arrowcsv", "arrowjsonl", "arrowparquet"}

NoCheckpoint == [cursor |-> 0, ident |-> 0, covers |-> {},
                 foreign |-> FALSE, trimmed |-> FALSE]

(* policy: source_identity_mismatch_policy; goon: on_record_error is       *)
(* LOG_AND_CONTINUE; batches: emit_batches; reuse: the next run uses the   *)
(* same source object; limit: it is wrapped by LimitedSource.              *)
Configs ==
    [kind : Kinds, policy : {"fail_closed", "reset", "allow"}, goon : BOOLEAN,
     batches : BOOLEAN, reuse : BOOLEAN, limit : BOOLEAN]

Idle(c) ==
    [pc |-> "down", gen |-> 0, rows |-> <<>>,
     pos |-> 0,          \* rows of the open file consumed by the reader
     number |-> 0,       \* row_number, line_number
     resume |-> 0,       \* _resume_row_number
     start |-> {},       \* history: rows the accepted checkpoint covers
     foreign |-> FALSE,  \* history: it was saved by a reader of another file
     trimmed |-> FALSE,  \* history: it was saved for an item the limit cut
     left |-> RecordLimit,  \* LimitedSource.stream: remaining
     batch |-> <<>>,     \* rows collected for the next list
     item |-> <<>>,      \* what the source has handed to the lane
     queue |-> <<>>,     \* the Parquet reader's asyncio.Queue
     producer |-> "none", errors |-> FALSE,
     expired |-> FALSE,  \* the consumer's wait_for timed out
     missed |-> FALSE,   \* history: it then left with a batch in the queue
     skipped |-> {}, emitted |-> {}]

Init ==
    \E c \in Configs, f \in Files :
        /\ c.kind \notin Text => ~c.batches
        /\ c.kind \in Arrow => ~c.goon
        /\ c.limit => c.policy = "fail_closed" /\ ~c.reuse
        /\ c.kind \notin Text => \A i \in DOMAIN f : f[i] # "blank"
        /\ c.kind \in Arrow => \A i \in DOMAIN f : f[i] = "rec"
        /\ fs = Idle(c) @@ [conf |-> c, file |-> [gen |-> 1, ident |-> 1, rows |-> f],
                            store |-> NoCheckpoint, last |-> 0, runs |-> 0,
                            handled |-> {}, dropped |-> {}]

Row(i) == <<fs.gen, i>>
Rows(f) == {<<f.gen, i>> : i \in DOMAIN f.rows}

-----------------------------------------------------------------------------
(* restore_checkpoint and prepare_resume.                                  *)

Saved == fs.store # NoCheckpoint
SameIdentity == fs.store.ident = fs.file.ident

(* Mutant of Accepts: a cursor is used whatever file it was saved for.     *)
AcceptsAny == Saved

(* _accept_checkpoint_identity returns True                                *)
Accepts == Saved /\ (SameIdentity \/ fs.conf.policy = "allow")
Refuses == Saved /\ ~SameIdentity /\ fs.conf.policy = "fail_closed"

(* The Arrow CSV and JSONL sources look at the identity and leave the      *)
(* cursor; ArrowCsvSource starts its count again.                          *)
ResumeCursor == IF Accepts /\ fs.conf.kind \notin {"arrowcsv", "arrowjsonl"}
                THEN fs.store.cursor ELSE 0

(* ParquetSource numbers the first row of the file after the cursor.       *)
FirstNumber == IF fs.conf.kind = "parquet" THEN ResumeCursor ELSE 0

OpenSource ==
    /\ fs.pc = "down" /\ fs.runs < MaxFileRuns
    /\ \/ Refuses /\ fs' = [fs EXCEPT !.runs = @ + 1]
       \/ /\ ~Refuses
          /\ fs' = [Idle(fs.conf) EXCEPT
                      !.pc = "reading", !.gen = fs.file.gen, !.rows = fs.file.rows,
                      !.resume = ResumeCursor, !.number = FirstNumber,
                      !.start = IF Accepts THEN fs.store.covers ELSE {},
                      !.foreign = Accepts /\ fs.store.foreign,
                      !.trimmed = Accepts /\ fs.store.trimmed,
                      !.producer = IF fs.conf.kind = "arrowparquet" THEN "reads" ELSE "none"]
                   @@ [fs EXCEPT !.runs = @ + 1,
                                 !.last = IF fs.conf.kind = "arrowcsv" THEN 0 ELSE @]

(* What the open file holds: the readers of text see what is appended.     *)
Visible == IF fs.conf.kind \in Text /\ fs.gen = fs.file.gen THEN fs.file.rows ELSE fs.rows

Ended(s) == [s EXCEPT !.pc = "down", !.item = <<>>, !.batch = <<>>, !.queue = <<>>,
                      !.producer = "none", !.errors = FALSE, !.expired = FALSE,
                      !.last = IF s.conf.reuse THEN @ ELSE 0]

-----------------------------------------------------------------------------
(* Text and Parquet rows.                                                  *)

(* One step of stream_sync_batches, stream_batches or read_records.        *)
Emit(s, i) ==
    IF ~s.conf.batches THEN [s EXCEPT !.item = <<Row(i)>>]
    ELSE LET b == Append(s.batch, Row(i))
         IN IF Len(b) >= EmitSize THEN [s EXCEPT !.item = b, !.batch = <<>>]
            ELSE [s EXCEPT !.batch = b]

(* row_mapper: a record, None, or an error under on_record_error.  Under   *)
(* FAIL_CLOSED the error ends the run.                                     *)
Mapped(s, i, kind) ==
    \/ kind = "rec" /\ fs' = Emit(s, i)
    \/ /\ kind = "none" \/ (kind = "bad" /\ s.conf.goon)
       /\ fs' = [s EXCEPT !.dropped = @ \union {Row(i)}]
    \/ kind = "bad" /\ ~s.conf.goon /\ fs' = Ended(s)

(* _iter_dict_rows does not count a blank row; a blank JSONL line counts   *)
(* and moves the cursor.                                                   *)
ReadRow ==
    /\ fs.pc = "reading" /\ fs.item = <<>> /\ fs.conf.kind \notin Arrow
    /\ fs.pos < Len(Visible)
    /\ LET i == fs.pos + 1
           kind == Visible[i]
           n == fs.number + 1
           next == [fs EXCEPT !.pos = i, !.rows = Visible, !.number = n]
           read == [next EXCEPT !.last = n]
       IN \/ /\ kind = "blank" /\ fs.conf.kind = "csv"
             /\ fs' = [fs EXCEPT !.pos = i, !.rows = Visible]
          \/ /\ ~(kind = "blank" /\ fs.conf.kind = "csv") /\ n <= fs.resume
             /\ fs' = [next EXCEPT !.skipped = @ \union {r \in {Row(i)} : kind # "blank"}]
          \/ n > fs.resume /\ kind = "blank" /\ fs.conf.kind = "jsonl" /\ fs' = read
          \/ n > fs.resume /\ kind # "blank" /\ Mapped(read, i, kind)

(* The rest of the last list, then the end of the stream.                  *)
EndOfFile ==
    /\ fs.pc = "reading" /\ fs.item = <<>> /\ fs.conf.kind \notin Arrow
    /\ fs.pos = Len(Visible)
    /\ fs' = IF fs.batch # <<>> THEN [fs EXCEPT !.item = fs.batch, !.batch = <<>>]
             ELSE [fs EXCEPT !.pc = "end"]

-----------------------------------------------------------------------------
(* Arrow chunks.                                                           *)

Chunk == [k \in 1 .. (IF Len(fs.rows) - fs.pos < EmitSize
                      THEN Len(fs.rows) - fs.pos ELSE EmitSize) |-> Row(fs.pos + k)]
HandedOut(s, chunk) == [s EXCEPT !.item = chunk, !.last = @ + Len(chunk)]

(* ArrowCsvSource and ArrowJsonLinesSource.stream_batches.                 *)
NextChunk ==
    /\ fs.pc = "reading" /\ fs.item = <<>> /\ fs.conf.kind \in {"arrowcsv", "arrowjsonl"}
    /\ fs' = IF fs.pos = Len(fs.rows) THEN [fs EXCEPT !.pc = "end"]
             ELSE HandedOut([fs EXCEPT !.pos = @ + Len(Chunk)], Chunk)

(* ParquetSource.stream_batches, the thread: its row_number starts at the  *)
(* cursor as well, so no batch is skipped.                                 *)
Done == <<<<0, 0>>>>
Failed == <<<<0, 1>>>>
Reading(p) == fs.pc = "reading" /\ fs.producer = p
ProducerPuts ==
    /\ Reading("reads") /\ fs.pos < Len(fs.rows) /\ Len(fs.queue) < QueueSize
    /\ fs' = [fs EXCEPT !.queue = Append(@, Chunk), !.pos = @ + Len(Chunk)]
ProducerEnds ==
    /\ Reading("reads")
    /\ \/ fs.pos = Len(fs.rows) /\ fs' = [fs EXCEPT !.producer = "done"]
       \/ fs' = [fs EXCEPT !.producer = "fails", !.errors = TRUE]

(* The exception and the sentinel wait for room; the thread gives up      *)
(* after a second, and producer_errors still holds the exception.          *)
Tells(p, what, then) ==
    /\ Reading(p)
    /\ \/ /\ Len(fs.queue) < QueueSize
          /\ fs' = [fs EXCEPT !.queue = Append(@, what), !.producer = then]
       \/ Len(fs.queue) = QueueSize /\ fs' = [fs EXCEPT !.producer = then]
ProducerTells == Tells("fails", Failed, "done") \/ Tells("done", Done, "told")

(* done_event is set before the sentinel is put.                           *)
DoneEvent == fs.producer \in {"done", "told"}

(* Mutant of Drained: the consumer stops as soon as the thread is done.    *)
DoneIsEnough == DoneEvent

Drained == DoneEvent /\ fs.queue = <<>>

(* After the loop: producer_errors.                                        *)
Leave == fs' = IF fs.errors THEN Ended(fs) ELSE [fs EXCEPT !.pc = "end"]

ConsumerTakes ==
    /\ Reading(fs.producer) /\ fs.item = <<>> /\ fs.conf.kind = "arrowparquet" /\ ~fs.expired
    /\ \/ Drained /\ Leave
       \/ /\ fs.queue # <<>>
          /\ \/ Head(fs.queue) = Done /\ Leave
             \/ Head(fs.queue) = Failed /\ fs' = Ended(fs)
             \/ /\ Head(fs.queue) \notin {Done, Failed}
                /\ fs' = HandedOut([fs EXCEPT !.queue = Tail(@)], Head(fs.queue))

(* wait_for gives up on an empty queue; the loop goes on before the        *)
(* consumer does, and the consumer then looks at done_event alone.         *)
WaitExpires ==
    /\ Reading(fs.producer) /\ fs.item = <<>> /\ fs.conf.kind = "arrowparquet"
    /\ fs.queue = <<>> /\ ~fs.expired
    /\ fs' = [fs EXCEPT !.expired = TRUE]
ConsumerWakes ==
    /\ fs.expired
    /\ IF ~DoneEvent THEN fs' = [fs EXCEPT !.expired = FALSE]
       ELSE fs' = IF fs.errors THEN Ended(fs)
                  ELSE [fs EXCEPT !.pc = "end", !.expired = FALSE,
                                  !.missed = \E i \in DOMAIN fs.queue : fs.queue[i] # Done]

-----------------------------------------------------------------------------
(* The lane, the outside world and the end of a run.                       *)

(* LimitedSource hands on what is left of the limit, and reads no further. *)
Taken == IF fs.conf.limit /\ fs.left < Len(fs.item) THEN SubSeq(fs.item, 1, fs.left) ELSE fs.item
LimitReached == fs.conf.limit /\ fs.left <= Len(fs.item)

Given == [fs EXCEPT !.handled = @ \union ToSet(Taken), !.emitted = @ \union ToSet(Taken),
                    !.left = IF fs.conf.limit THEN @ - Len(Taken) ELSE @,
                    !.pc = IF LimitReached THEN "end" ELSE @,
                    !.item = <<>>]
Covered == Given.emitted \union fs.dropped \union fs.skipped

(* The item is delivered; its cursor is saved or not yet due.  The         *)
(* identity is that of the file at the moment of saving, the cursor that   *)
(* of the source under the limit.                                          *)
LaneTakes ==
    /\ fs.item # <<>>
    /\ \/ fs' = Given
       \/ fs' = [Given EXCEPT !.store = [cursor |-> fs.last, ident |-> fs.file.ident,
                                         covers |-> Covered,
                                         foreign |-> fs.foreign \/ fs.gen # fs.file.gen,
                                         trimmed |-> fs.trimmed \/ Len(Taken) < Len(fs.item)]]

Finish == fs.pc = "end" /\ fs' = Ended(fs)
Crash == fs.pc = "reading" /\ fs' = [Ended(fs) EXCEPT !.last = 0]

(* The file grows or is replaced, once.                                    *)
Appended ==
    /\ fs.file.ident = 1
    /\ fs' = [fs EXCEPT !.file.ident = 2, !.file.rows = Append(@, "rec")]
Replaced ==
    /\ fs.file.ident = 1
    /\ \E f \in Files :
           /\ \A i \in DOMAIN f : f[i] = "rec"
           /\ fs' = [fs EXCEPT !.file = [gen |-> 2, ident |-> 2, rows |-> f]]

Over == fs.pc = "down" /\ fs.runs = MaxFileRuns /\ UNCHANGED fs

Next == \/ OpenSource \/ ReadRow \/ EndOfFile \/ NextChunk
        \/ ProducerPuts \/ ProducerEnds \/ ProducerTells \/ ConsumerTakes
        \/ WaitExpires \/ ConsumerWakes
        \/ LaneTakes \/ Finish \/ Crash \/ Appended \/ Replaced \/ Over

Spec == Init /\ [][Next]_fs

-----------------------------------------------------------------------------
(* A row is passed over by a resume only if an earlier run delivered it or *)
(* dropped it by policy: the cursor means the same rows to the run that    *)
(* reads as to the one that saved.  Except where the operator allows a     *)
(* foreign cursor, the file was replaced under the reader that saved, or   *)
(* the limit cut the list whose cursor was saved.                          *)
SkipsOnlyHandled ==
    fs.skipped \subseteq fs.handled \union fs.dropped
        \/ fs.conf.policy = "allow" \/ fs.foreign \/ fs.trimmed

(* A stream that ends without an error and short of its limit has handed   *)
(* out every record of the file it read, or passed over it; but for the    *)
(* batch that reaches the queue of the Parquet reader while its consumer's *)
(* wait is timing out.                                                     *)
QuietEndIsComplete ==
    fs.pc = "end" /\ fs.left > 0 /\ ~fs.missed => \A i \in DOMAIN fs.rows :
        fs.rows[i] # "blank" => Row(i) \in fs.emitted \union fs.dropped \union fs.skipped

CoveredStaysOut == (fs.emitted \union ToSet(fs.item)) \intersect fs.start = {}

(* CSV and JSONL rows: what a checkpoint covers is not read into the       *)
(* pipeline again, unless the file was replaced under the reader that      *)
(* saved.                                                                  *)
TextResumesExactly == fs.conf.kind \in Text /\ ~fs.foreign => CoveredStaysOut

(* docs/guides/recovery-matrix.md has a row for each of three sources that *)
(* skip what lies at or below the resume position, ParquetSource among     *)
(* them: records before the saved position are not delivered.              *)
CoveredIsSkipped ==
    fs.conf.kind \in Text \union {"parquet", "arrowparquet"} /\ ~fs.foreign => CoveredStaysOut

=============================================================================
