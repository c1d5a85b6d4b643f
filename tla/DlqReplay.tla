----------------------------- MODULE DlqReplay -----------------------------
(***************************************************************************)
(* The dead-letter table (core/dlq.py) and `agora dlq replay`              *)
(* (cli/commands/dlq.py).  Pipelines add rows while two operators replay:  *)
(* a command reads the table once, then takes its rows one by one: it      *)
(* counts the attempt, runs a pipeline of one record, and deletes the row  *)
(* after a successful write.  Each of these is a statement of its own on   *)
(* the shared table, and a command may die between any two of them.        *)
(***************************************************************************)
EXTENDS Naturals, Sequences, FiniteSets, Functions

CONSTANTS Captures,    \* sequences of row kinds the pipelines capture
          MaxCommands  \* replay commands started

VARIABLE dq

(* Row kinds: "sink" failed at stage sink_write; "chain" at an earlier     *)
(* stage; "void" has no payload to replay.                                 *)
Operators == 1 .. 2
NoRow == [id |-> 0, attempt |-> 0]
NoCommand == [pc |-> "idle", todo |-> <<>>, row |-> NoRow, failed |-> FALSE, took |-> {}]

(* max: max_attempts of the rows, 0 for None; limit: --limit, 0 for none.  *)
Configs == [kinds : Captures, mode : {"pipeline", "sink"}, limit : 0 .. 1, max : 0 .. 2]

Init ==
    \E c \in Configs :
        dq = [conf |-> c, captured |-> 0, table |-> {}, started |-> 0,
              cmd |-> [o \in Operators |-> NoCommand],
              written |-> [i \in DOMAIN c.kinds |-> 0],  \* times replayed into the sink
              tried |-> [i \in DOMAIN c.kinds |-> 0],    \* pipeline runs made
              kept |-> {},      \* rows written by a replay that then did not delete them
              shared |-> {}]    \* rows two commands held at a time

RowIds == DOMAIN dq.conf.kinds
InTable == {r.id : r \in dq.table}
Kind(r) == dq.conf.kinds[r.id]
Cmd(o) == dq.cmd[o]

(* SQLiteDLQSink.write: a new row, attempt 0.                              *)
Capture ==
    /\ dq.captured < Len(dq.conf.kinds)
    /\ dq' = [dq EXCEPT !.captured = @ + 1,
                        !.table = @ \union {[id |-> dq.captured + 1, attempt |-> 0]}]

-----------------------------------------------------------------------------
(* SQLiteDLQSource: ORDER BY id LIMIT n, then the rows still eligible.     *)

FetchRows ==
    IF dq.conf.limit = 0 THEN dq.table ELSE {r \in dq.table : \A t \in dq.table : r.id <= t.id}
Eligible(r) == dq.conf.max = 0 \/ r.attempt < dq.conf.max
Stream ==
    LET read == {r \in FetchRows : Eligible(r)}
    IN {rows \in Injection(1 .. Cardinality(read), read) :
        \A i, j \in DOMAIN rows : i < j => rows[i].id < rows[j].id}

Held(o) == {r.id : r \in Range(Cmd(o).todo)} \union {Cmd(o).row.id}
Start(o) ==
    /\ Cmd(o).pc = "idle" /\ dq.started < MaxCommands
    /\ \E rows \in Stream :
         LET mine == {r.id : r \in Range(rows)}
         IN dq' = [dq EXCEPT
                   !.started = @ + 1,
                   !.cmd[o] = [NoCommand EXCEPT !.pc = "next", !.todo = rows, !.took = mine],
                   !.shared = @ \union UNION {mine \intersect Held(p) : p \in Operators \ {o}}]

-----------------------------------------------------------------------------
(* _run_dlq_command, one record.                                           *)

Fails(c) == [c EXCEPT !.pc = "next", !.failed = TRUE, !.row = NoRow]

(* replay_payload: every mode falls back to the other payloads.            *)
HasPayload(r) == Kind(r) # "void"
Replayable(r) == HasPayload(r) /\ (dq.conf.mode = "sink" => Kind(r) = "sink")

(* Stage check, payload and _build_replay_pipeline, which may raise.       *)
Take(o) ==
    /\ Cmd(o).pc = "next" /\ Cmd(o).todo # <<>>
    /\ LET r == Head(Cmd(o).todo)
           rest == [Cmd(o) EXCEPT !.todo = Tail(@)]
       IN \/ dq' = [dq EXCEPT !.cmd[o] = Fails(rest)]
          \/ Replayable(r) /\ dq' = [dq EXCEPT !.cmd[o] = [rest EXCEPT !.pc = "mark", !.row = r]]

(* UPDATE ... SET attempt = ? WHERE id = ?: the value read plus one; a row *)
(* that is gone is not an error.                                           *)
Marked(row) ==
    {IF r.id = row.id THEN [r EXCEPT !.attempt = row.attempt + 1] ELSE r : r \in dq.table}

Mark(o) ==
    /\ Cmd(o).pc = "mark"
    /\ \/ dq' = [dq EXCEPT !.cmd[o] = Fails(@)]
       \/ dq' = [dq EXCEPT !.table = Marked(Cmd(o).row), !.cmd[o].pc = "run"]

(* Mutant of AfterRun: what was not reported as an error is taken as done. *)
AnyQuietRun(raised, written) == IF raised THEN "next" ELSE "ack"

(* run(max_records=1): it raises or counts an error, or ends quietly; then *)
(* exactly one record must have been written.                              *)
AfterRun(raised, written) == IF raised \/ ~written THEN "next" ELSE "ack"

(* Outcomes of the run: nothing written and an exception or an error       *)
(* count; nothing written, quietly (a middleware dropped the record);      *)
(* written, but the closing flush or a hook raised; written.               *)
Run(o) ==
    /\ Cmd(o).pc = "run"
    /\ \E stored, raised \in BOOLEAN :
        LET id == Cmd(o).row.id
            then == AfterRun(raised, stored)
        IN dq' = [dq EXCEPT
                    !.tried[id] = @ + 1,
                    !.written[id] = IF stored THEN @ + 1 ELSE @,
                    !.kept = IF stored /\ then = "next" THEN @ \union {id} ELSE @,
                    !.cmd[o] = IF then = "next" THEN Fails(@) ELSE [@ EXCEPT !.pc = "ack"]]

Deleted(row) == {r \in dq.table : r.id # row.id}

Acknowledge(o) ==
    /\ Cmd(o).pc = "ack"
    /\ \/ dq' = [dq EXCEPT !.cmd[o] = Fails(@), !.kept = @ \union {Cmd(o).row.id}]
       \/ dq' = [dq EXCEPT !.table = Deleted(Cmd(o).row),
                           !.cmd[o] = [@ EXCEPT !.pc = "next", !.row = NoRow]]

Finish(o) ==
    /\ Cmd(o).pc = "next" /\ Cmd(o).todo = <<>>
    /\ dq' = [dq EXCEPT !.cmd[o].pc = IF Cmd(o).failed THEN "exit1" ELSE "exit0"]
Leave(o) == Cmd(o).pc \in {"exit0", "exit1"} /\ dq' = [dq EXCEPT !.cmd[o] = NoCommand]

Crash(o) ==
    /\ Cmd(o).pc \in {"next", "mark", "run", "ack"}
    /\ dq' = [dq EXCEPT !.cmd[o] = NoCommand,
                        !.kept = IF Cmd(o).pc = "ack" THEN @ \union {Cmd(o).row.id} ELSE @]

Over == dq.started = MaxCommands /\ dq.captured = Len(dq.conf.kinds)
        /\ (\A o \in Operators : Cmd(o).pc = "idle") /\ UNCHANGED dq

Command(o) == Start(o) \/ Take(o) \/ Mark(o) \/ Run(o) \/ Acknowledge(o) \/ Finish(o)
              \/ Leave(o) \/ Crash(o)
Next == Capture \/ (\E o \in Operators : Command(o)) \/ Over

Spec == Init /\ [][Next]_dq

-----------------------------------------------------------------------------
(* A row leaves the table only after a replay wrote its record.            *)
NothingVanishes == \A i \in 1 .. dq.captured : i \in InTable \/ dq.written[i] > 0

(* An attempt is counted before it is made, so that no crash makes one     *)
(* free and max_attempts holds, unless two commands hold the row: the      *)
(* count they write back is the one they read.                             *)
AttemptsAreCounted ==
    \A r \in dq.table : r.id \in dq.shared \/ r.attempt >= dq.tried[r.id]
AttemptsBounded ==
    dq.conf.max > 0 => \A i \in RowIds \ dq.shared : dq.tried[i] <= dq.conf.max

(* A record is written twice only after a replay that failed once it had   *)
(* written, or by two commands that hold the row.                          *)
WrittenTwiceIsKnown == \A i \in RowIds : dq.written[i] > 1 => i \in dq.kept \union dq.shared

(* Exit status 0: every row the command took is gone from the table.       *)
SuccessIsComplete ==
    \A o \in Operators : Cmd(o).pc = "exit0" => Cmd(o).took \intersect InTable = {}

=============================================================================
