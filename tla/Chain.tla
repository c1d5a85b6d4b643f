------------------------------- MODULE Chain -------------------------------
(***************************************************************************)
(* MiddlewareChain and the built-in middlewares (core/middleware,          *)
(* core/batch.py): how a group of records passes the stages, in the three  *)
(* ways the lanes use the chain.                                           *)
(*                                                                         *)
(*   row    process_outcome, record by record                              *)
(*   rust   the same through the native executor of synchronous built-ins  *)
(*   batch  process_batch, stage by stage on the whole list                *)
(*                                                                         *)
(* A value is [rec, ver]: the object that ver object-replacing stages made *)
(* of record rec.  A stage files one success hook (as deduplication does)  *)
(* under the object it is given.                                           *)
(***************************************************************************)
EXTENDS Naturals, Integers, Sequences, SequencesExt, FiniteSets

CONSTANTS NGroup,     \* records of the group
          ChainShapes, \* sequences of stage kinds
          MaxTries    \* max_retries of a retry stage

VARIABLE mc

(* Stage kinds: "map" and "filter" are synchronous built-ins, "stage" is a *)
(* middleware with its own process(), "route" and "retry" wrap one,        *)
(* "batch" is a BatchMiddleware, "hook" files a success hook.              *)
Recs == 1 .. NGroup
None == [rec |-> 0, ver |-> 0]
Zero == [in |-> 0, out |-> 0, dropped |-> 0, errored |-> 0]
BuiltIn == {"map", "filter"}

(* _range_is_rust_sync_builtin_fast, on the whole chain                    *)
RustRange(chain) == Len(chain) > 1 /\ ToSet(chain) \subseteq BuiltIn

Init ==
    \E chain \in ChainShapes, mode \in {"row", "rust", "batch"} :
        /\ mode = "rust" => RustRange(chain)
        /\ mc = [chain |-> chain, mode |-> mode, pc |-> "run", idx |-> 1, at |-> 1,
                 cur |-> [i \in Recs |-> [rec |-> i, ver |-> 0]],
                 hook |-> [i \in Recs |-> -1],  \* version the hook of i is filed under
                 failed |-> {},                 \* records some stage raised for
                 told |-> {},                   \* records in a failure the lane gets
                 excused |-> {}, tries |-> 0,
                 metrics |-> [s \in DOMAIN chain |-> Zero]]

Kind == mc.chain[mc.idx]
Replaces(kind) == kind \in {"map", "stage", "route", "retry"}
Result(kind, v) == IF Replaces(kind) THEN [v EXCEPT !.ver = @ + 1] ELSE v

Count(s, in, out, dropped, errored) ==
    [s EXCEPT !.metrics[s.idx] = [in |-> @.in + in, out |-> @.out + out,
                                  dropped |-> @.dropped + dropped,
                                  errored |-> @.errored + errored]]

-----------------------------------------------------------------------------
(* process_range_outcome: one record, one stage.                           *)

(* Mutant of Transfer: the hooks stay where they were filed.               *)
NoTransfer(s, old, new) == s

(* ctx.transfer_success_hooks                                              *)
Transfer(s, old, new) ==
    IF s.hook[old.rec] = old.ver THEN [s EXCEPT !.hook[old.rec] = new.ver] ELSE s

(* The middleware files a hook under the record it was given.              *)
Filed(s, kind, v) == IF kind = "hook" THEN [s EXCEPT !.hook[v.rec] = v.ver] ELSE s

(* The record is done: the next one starts at the first stage.             *)
NextRecord(s) ==
    IF s.at = NGroup THEN [s EXCEPT !.pc = "done"]
    ELSE [s EXCEPT !.at = @ + 1, !.idx = 1, !.tries = 0]
NextStage(s) ==
    IF s.idx = Len(s.chain) THEN NextRecord(s) ELSE [s EXCEPT !.idx = @ + 1, !.tries = 0]

Raised(s, v) == [s EXCEPT !.cur[s.at] = None, !.failed = @ \union {v.rec}]

(* on_error of the failing middleware may raise itself: that leaves the    *)
(* chain and ends the run.                                                 *)
OnError(s, then) == {then, [s EXCEPT !.pc = "raised"]}

RowStage ==
    /\ mc.pc = "run" /\ mc.mode = "row"
    /\ LET v == mc.cur[mc.at]
           s == Filed(mc, Kind, v)
           w == Result(Kind, v)
           told == [Raised(s, v) EXCEPT !.told = @ \union {v.rec}]
       IN \/ mc' = NextStage(Transfer([Count(s, 1, 1, 0, 0) EXCEPT !.cur[s.at] = w], v, w))
          \/ mc' = NextRecord([Count(s, 1, 0, 1, 0) EXCEPT !.cur[s.at] = None])
          \/ Kind # "retry" /\ mc' \in OnError(Count(Raised(s, v), 1, 0, 0, 1),
                                              NextRecord(Count(told, 1, 0, 0, 1)))
          \/ Kind = "retry" /\ s.tries < MaxTries /\ mc' = [s EXCEPT !.tries = @ + 1]
          \/ Kind = "retry" /\ s.tries = MaxTries
                /\ mc' \in OnError(Count(Raised(s, v), 1, 0, 0, 1),
                                   NextRecord(Count(told, 1, 0, 0, 1)))

(* The native executor runs the range in one call, without metrics and     *)
(* without hooks; a failure names its stage.                               *)
RustRecord ==
    /\ mc.pc = "run" /\ mc.mode = "rust"
    /\ LET v == mc.cur[mc.at]
           maps == Cardinality({i \in DOMAIN mc.chain : Replaces(mc.chain[i])})
           told == [Raised(mc, v) EXCEPT !.told = @ \union {v.rec}]
       IN \/ mc' = NextRecord([mc EXCEPT !.cur[mc.at].ver = @ + maps])
          \/ mc' = NextRecord([mc EXCEPT !.cur[mc.at] = None])
          \/ mc' \in OnError(Raised(mc, v), NextRecord(told))

-----------------------------------------------------------------------------
(* process_batch_range: apply_in_batch of each stage on the whole list.    *)

Live == {i \in Recs : mc.cur[i] # None}
StageDone(s) ==
    IF s.idx = Len(s.chain) THEN [s EXCEPT !.pc = "done"] ELSE [s EXCEPT !.idx = @ + 1]

(* Every record of the list to its outcome: kept, dropped or raised.       *)
Outcomes == [Live -> {"value", "drop", "fail"}]
With(out, what) == {i \in Live : out[i] = what}
Applied(s, kind, out) ==
    [i \in Recs |-> IF i \in Live /\ out[i] = "value" THEN Result(kind, s.cur[i]) ELSE None]
Counted(s, out) ==
    Count(s, Cardinality(Live), Cardinality(With(out, "value")),
          Cardinality(With(out, "drop")), Cardinality(With(out, "fail")))
Lost(s, out) == [s EXCEPT !.failed = @ \union {s.cur[i].rec : i \in With(out, "fail")}]

(* _apply_sync_map_batch, _apply_sync_filter_batch: a record that raises   *)
(* leaves a None in the list; objects change without their hooks.          *)
FastStage ==
    /\ mc.pc = "run" /\ mc.mode = "batch" /\ Kind \in BuiltIn
    /\ \/ Live = {} /\ mc' = StageDone(mc)
       \/ /\ Live # {}
          /\ \E out \in Outcomes :
               LET s == Lost(Counted(mc, out), out)
                   over == [s EXCEPT !.cur = Applied(mc, Kind, out),
                                     !.excused = IF Replaces(Kind) THEN @ \union Live ELSE @]
               IN mc' \in IF With(out, "fail") = {} THEN {StageDone(over)}
                          ELSE OnError(s, StageDone(over))

(* Middleware.apply_in_batch: process_range for each record; a failure it  *)
(* returns leaves a None, too.                                             *)
RecordStage ==
    /\ mc.pc = "run" /\ mc.mode = "batch" /\ Kind \notin BuiltIn \union {"batch"}
    /\ \E out \in Outcomes :
         LET s == Lost(Counted(mc, out), out)
             filed == [i \in Recs |-> IF Kind = "hook" /\ i \in Live THEN s.cur[i].ver
                                      ELSE s.hook[i]]
             moved == [i \in Recs |->
                         IF i \in With(out, "value") /\ filed[i] = s.cur[i].ver
                         THEN Result(Kind, s.cur[i]).ver ELSE filed[i]]
             over == [s EXCEPT !.cur = Applied(mc, Kind, out), !.hook = moved]
         IN mc' \in IF With(out, "fail") = {} THEN {StageDone(over)}
                    ELSE OnError(s, StageDone(over))

(* Mutant of Spread: results are put back in the order they came.          *)
SpreadFirst(results) ==
    [i \in Recs |-> IF i <= Len(results) THEN results[i] ELSE None]

(* The results of process_batch, one per record that was not None, back in *)
(* the places of those records.                                            *)
Spread(results) ==
    [i \in Recs |-> IF mc.cur[i] = None THEN None
                    ELSE results[Cardinality({j \in Live : j <= i})]]

(* BatchMiddleware.apply_in_batch: raising fails the whole list and        *)
(* returns the failure.  records_in counts the list with its holes.        *)
BatchStage ==
    /\ mc.pc = "run" /\ mc.mode = "batch" /\ Kind = "batch"
    /\ LET given == SelectSeq([i \in Recs |-> mc.cur[i]], LAMBDA v : v # None)
           recs == {v.rec : v \in ToSet(given)}
       IN \/ \E kept \in SUBSET (1 .. Len(given)) :
               LET results == [k \in 1 .. Len(given) |->
                                 IF k \in kept THEN Result("map", given[k]) ELSE None]
               IN mc' = StageDone([Count(mc, NGroup, Cardinality(kept),
                                         Len(given) - Cardinality(kept), 0) EXCEPT
                                     !.cur = Spread(results), !.excused = @ \union Live])
          \/ mc' = [Count(mc, NGroup, 0, 0, Len(given)) EXCEPT
                      !.pc = "done", !.cur = [i \in Recs |-> None],
                      !.failed = @ \union recs, !.told = @ \union recs]
          \/ mc' = [mc EXCEPT !.pc = "raised"]   \* a list of another length

Over == mc.pc \in {"done", "raised"} /\ UNCHANGED mc

Next == RowStage \/ RustRecord \/ FastStage \/ RecordStage \/ BatchStage \/ Over

Spec == Init /\ [][Next]_mc

-----------------------------------------------------------------------------
(* The result at position i is made of record i, or it is None: holes left *)
(* by earlier stages do not move a record into the place of another, whose *)
(* checkpoint and hooks it would then take.                                *)
ResultsStayInPlace == \A i \in Recs : mc.cur[i] = None \/ mc.cur[i].rec = i

(* Each record a stage is given is kept, dropped or errored in its metrics *)
(* while the chain runs record by record, or until a hole is in the list.  *)
MetricsBalance ==
    mc.mode # "batch" \/ "batch" \notin ToSet(mc.chain) =>
        \A s \in DOMAIN mc.chain :
            LET n == mc.metrics[s] IN n.in = n.out + n.dropped + n.errored

(* A hook filed on the way is under the raw record or the result when the  *)
(* lane takes the result, except where a list stage replaced the object.   *)
HooksFollow ==
    mc.pc = "done" => \A i \in Recs \ mc.excused :
        mc.cur[i] # None => mc.hook[i] \in {-1, 0, mc.cur[i].ver}

(* A record that raised has no result, and the lane is told of it: record  *)
(* by record always, in a list when a BatchMiddleware raised.              *)
FailuresAreFailures ==
    mc.pc = "done" => \A i \in mc.failed :
        mc.cur[i] = None /\ (mc.mode = "batch" \/ i \in mc.told)

(* The runtime guarantees: when a middleware raises, the runtime applies   *)
(* DLQ routing, in every lane.  It can only do so when it is told.         *)
FailureReachesRuntime == mc.pc = "done" => mc.failed \subseteq mc.told

=============================================================================
