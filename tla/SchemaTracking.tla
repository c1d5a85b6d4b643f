--------------------------- MODULE SchemaTracking ---------------------------
(***************************************************************************)
(* Schema inference and evolution (schema/): SchemaMiddleware keeps the    *)
(* schema of the records that pass, loads it from a SchemaStore when a run *)
(* starts and saves it when the run ends; SchemaInferrer observes a list   *)
(* of records.                                                             *)
(*                                                                         *)
(* A value is its DataType; "boolean" stands for the types that widen only *)
(* to string.  Every inferred column is nullable, so nullability never     *)
(* changes and is left out, as are the count inferred_from and the metrics.*)
(***************************************************************************)
EXTENDS Naturals

CONSTANTS MaxSchemaRecords, \* records of a run
          MaxSchemaRuns

VARIABLE st

Types == {"null", "integer", "float", "string", "boolean"}
Contracts == {"evolve", "freeze", "discard_column", "discard_row"}

(* The fields of a record.  An opaque one makes the processor raise.       *)
Fields == {[a |-> t] : t \in Types}
          \union {[a |-> "integer", b |-> t] : t \in {"null", "integer"}} \union {<<>>}
Inputs == [fields : Fields, opaque : {FALSE}] \union [fields : {<<>>}, opaque : {TRUE}]

NoSchema == [cols |-> <<>>, version |-> 0]
Known(s) == s.version > 0

(* strict: the store was made for a FREEZE contract.                       *)
Configs == {c \in [contract : Contracts, store : {"none", "store"}, strict : BOOLEAN] :
              c.strict => c.store = "store" /\ c.contract = "freeze"}

Unstarted(c) ==
    [conf |-> c, pc |-> "down", cur |-> NoSchema, pending |-> FALSE, fed |-> 0,
     inf |-> <<>>,       \* columns of a SchemaInferrer fed the same records
     inputs |-> {},      \* history: fields of the records of this run
     sent |-> {},        \* history: fields of the readable records sent on
     dropped |-> 0,      \* history: records not sent on
     start |-> NoSchema] \* history: the first schema of the run
Init ==
    \E c \in Configs :
        st = [run |-> Unstarted(c), runs |-> 0, stored |-> NoSchema, intact |-> TRUE,
              outcome |-> "none",
              covered |-> {},      \* history: fields sent on in the runs that were saved
              forgot |-> FALSE]    \* history: a run began without what was stored

-----------------------------------------------------------------------------
(* types.py, inference.py                                                  *)

CanWiden(from, to) ==
    from = to \/ from = "null" \/ (from = "integer" /\ to = "float") \/ to = "string"

(* widen_type and _widen_column_type                                       *)
WidenType(from, to) ==
    CASE from = to -> from
      [] from = "null" -> to
      [] to = "null" -> from
      [] {from, to} = {"integer", "float"} -> "float"
      [] OTHER -> "string"

(* Mutant of ObserveField: a type is widened in one direction only.        *)
ObserveUp(cols, fields) ==
    [c \in DOMAIN cols \union DOMAIN fields |->
        IF c \notin DOMAIN fields THEN cols[c]
        ELSE IF c \notin DOMAIN cols THEN fields[c]
        ELSE IF CanWiden(cols[c], fields[c]) THEN WidenType(cols[c], fields[c]) ELSE "string"]

ObserveField(cols, fields) ==
    [c \in DOMAIN cols \union DOMAIN fields |->
        IF c \notin DOMAIN fields THEN cols[c]
        ELSE IF c \notin DOMAIN cols THEN fields[c] ELSE WidenType(cols[c], fields[c])]

-----------------------------------------------------------------------------
(* evolution.py, records.py                                                *)

(* Mutant of MergeType: a conflict leaves the column as it is.             *)
KeepType(old, new) == IF CanWiden(old, new) THEN WidenType(old, new) ELSE old

(* _merge_column: the type; anything that cannot widen becomes a string.   *)
MergeType(old, new) == IF CanWiden(old, new) THEN WidenType(old, new) ELSE "string"

(* SchemaEvolution.merge, and the changes it records.                      *)
Common(old, new) == DOMAIN old \intersect DOMAIN new
Changed(old, new) == {c \in Common(old, new) : old[c] # new[c]}
Added(contract, old, new) == IF contract = "evolve" THEN DOMAIN new \ DOMAIN old ELSE {}
Rejects(contract, old, new) ==
    contract = "freeze" /\ (Changed(old, new) # {} \/ DOMAIN new \ DOMAIN old # {})
Merge(contract, s, new) ==
    [cols |-> [c \in DOMAIN s.cols \union Added(contract, s.cols, new) |->
                 IF c \notin DOMAIN new THEN s.cols[c]
                 ELSE IF c \notin DOMAIN s.cols THEN new[c] ELSE MergeType(s.cols[c], new[c])],
     version |-> s.version + (IF Changed(s.cols, new) \union Added(contract, s.cols, new) # {}
                              THEN 1 ELSE 0)]

(* record_violates_schema; a null value never does.                        *)
Violates(fields, cols) ==
    \E c \in DOMAIN fields :
        \/ c \notin DOMAIN cols
        \/ fields[c] # "null" /\ fields[c] # cols[c]

(* discard_unknown_columns                                                 *)
Restricted(fields, cols) == [c \in DOMAIN fields \intersect DOMAIN cols |-> fields[c]]

-----------------------------------------------------------------------------
(* SchemaProcessor.process                                                 *)

Sent(r, fields) == [r EXCEPT !.sent = @ \union {fields}]
Dropped(r) == [r EXCEPT !.dropped = @ + 1]
Candidate(r, fields) ==
    IF Known(r.cur) /\ r.conf.contract = "discard_column"
    THEN Restricted(fields, r.cur.cols) ELSE fields

FirstSchema(r, fields) ==
    LET s == [cols |-> fields, version |-> 1]
    IN [Sent(r, fields) EXCEPT !.cur = s, !.start = s]
Evolved(r, fields) ==
    [Sent(r, fields) EXCEPT !.cur = Merge(r.conf.contract, r.cur, fields)]

Processed(r, fields) ==
    LET candidate == Candidate(r, fields)
    IN IF Known(r.cur) /\ r.conf.contract = "discard_row" /\ Violates(fields, r.cur.cols)
       THEN Dropped(r)
       ELSE IF candidate = <<>> THEN Sent(r, candidate)
       ELSE IF ~Known(r.cur) THEN FirstSchema(r, candidate)
       ELSE IF Rejects(r.conf.contract, r.cur.cols, candidate)
       THEN [Dropped(r) EXCEPT !.pending = TRUE]
       ELSE Evolved(r, candidate)

(* SchemaMiddleware.process: a record the processor cannot read goes on.   *)
Process(in) ==
    /\ st.run.pc = "up" /\ st.run.fed < MaxSchemaRecords
    /\ LET r == [st.run EXCEPT !.fed = @ + 1]
       IN st' = [st EXCEPT !.run =
                   IF in.opaque THEN r
                   ELSE [Processed(r, in.fields) EXCEPT
                           !.inputs = @ \union {in.fields},
                           !.inf = ObserveField(@, in.fields)]]

-----------------------------------------------------------------------------
(* The run: on_start, on_stop, and a process that dies between them.       *)

(* on_start logs a load that fails and goes on without a schema; a hash    *)
(* that does not match is a failure to a strict store only.                *)
Loads == st.run.conf.store = "store" /\ (st.intact \/ ~st.run.conf.strict)
OnStart(ok) ==
    /\ st.run.pc = "down" /\ st.runs < MaxSchemaRuns
    /\ LET s == IF ok /\ Loads THEN st.stored ELSE NoSchema
       IN st' = [st EXCEPT !.runs = @ + 1, !.outcome = "none",
                   !.run = [Unstarted(st.run.conf) EXCEPT !.pc = "up", !.cur = s, !.start = s],
                   !.forgot = @ \/ (s # st.stored) \/ ~st.intact]

(* Of a run that is over only how it ended counts.                         *)
Ended(r) == [Unstarted(r.conf) EXCEPT !.pending = r.pending, !.dropped = r.dropped]

(* A save that fails is logged; the error of the contract comes last.      *)
OnStop(ok) ==
    /\ st.run.pc = "up"
    /\ LET saves == ok /\ st.run.conf.store = "store" /\ Known(st.run.cur)
       IN st' = [st EXCEPT
                   !.run = Ended(@),
                   !.stored = IF saves THEN st.run.cur ELSE @,
                   !.intact = saves \/ @,
                   !.covered = IF saves THEN @ \union st.run.sent ELSE @,
                   !.outcome = IF st.run.pending THEN "error" ELSE "ok"]
Dies == /\ st.run.pc = "up"
        /\ st' = [st EXCEPT !.run = Ended(@), !.outcome = "died"]

(* External: what the backend holds is no longer what was saved.           *)
StoreCorrupts ==
    /\ Known(st.stored) /\ st.intact /\ st.run.pc = "down"
    /\ st' = [st EXCEPT !.intact = FALSE, !.stored.cols = [a |-> "null"]]

Over == st.run.pc = "down" /\ st.runs = MaxSchemaRuns /\ UNCHANGED st

Next == \/ \E ok \in BOOLEAN : OnStart(ok) \/ OnStop(ok)
        \/ \E in \in Inputs : Process(in)
        \/ Dies \/ StoreCorrupts \/ Over

Spec == Init /\ [][Next]_st

-----------------------------------------------------------------------------
(* The column can hold the value.                                          *)
Fits(value, col) ==
    value \in {"null", col} \/ col = "string" \/ (value = "integer" /\ col = "float")
Describes(cols, fields) ==
    \A c \in DOMAIN fields : c \in DOMAIN cols /\ Fits(fields[c], cols[c])

(* Whatever came before, the schema of the run describes every record the  *)
(* run sent on, and the stored one those of every run that was saved,      *)
(* unless a run began without it.                                          *)
SchemaDescribesSent ==
    /\ \A f \in st.run.sent : Describes(st.run.cur.cols, f)
    /\ ~st.forgot /\ st.intact => \A f \in st.covered : Describes(st.stored.cols, f)

(* FREEZE: the schema of a run is its first, the records sent on have its  *)
(* types, and a run that dropped a record ends with the error.             *)
FrozenStaysFrozen ==
    st.run.conf.contract = "freeze" =>
        /\ st.run.cur = st.run.start
        /\ \A f \in st.run.sent : \A c \in DOMAIN f :
               c \in DOMAIN st.run.cur.cols /\ f[c] = st.run.cur.cols[c]
        /\ st.run.dropped > 0 => st.run.pending
        /\ st.run.dropped > 0 /\ st.run.pc = "down" => st.outcome \in {"error", "died"}

(* The inferrer's column is the least type that holds every value it saw,  *)
(* whatever their order; the middleware's column is at least as wide.      *)
Values(c) == {f[c] : f \in {g \in st.run.inputs : c \in DOMAIN g}}
LeastType(values) ==
    CASE values \subseteq {"null"} -> "null"
      [] \E t \in Types : values \ {"null"} = {t} -> CHOOSE t \in Types : values \ {"null"} = {t}
      [] values \ {"null"} = {"integer", "float"} -> "float"
      [] OTHER -> "string"
InferenceIsLeast ==
    \A c \in DOMAIN st.run.inf :
        /\ st.run.inf[c] = LeastType(Values(c))
        /\ st.run.conf.contract = "evolve" => Fits(st.run.inf[c], st.run.cur.cols[c])

(* docs/schema.md of DISCARD_ROW: the active schema is left unchanged.     *)
RowContractKeepsSchema ==
    st.run.conf.contract = "discard_row" => st.run.cur.cols = st.run.start.cols

=============================================================================
