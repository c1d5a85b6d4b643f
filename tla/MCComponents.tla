---------------------------- MODULE MCComponents ----------------------------
(***************************************************************************)
(* Model checking the components a pipeline is put together from, and the  *)
(* stores and applications beside it.  Each keeps its state in one record; *)
(* a behaviour moves the component named by part, whose record is s.       *)
(***************************************************************************)
EXTENDS Naturals, Component

CONSTANTS Parts,                                                  \* the components to explore
          NSinks, NRows,                                          \* Writers
          KeySequences, FuzzyCap, MaxRestarts, Ids,               \* Dedup
          Files, EmitSize, QueueSize, RecordLimit, MaxFileRuns,   \* FileSource
          NRecords, FlushEvery, MaxPostRetries, MaxSessions,
          MaxSinkFaults,                                          \* BufferingSink
          NGroup, ChainShapes, MaxTries,                          \* Chain
          MaxRegistryCalls                                        \* Registry

\* Two records of one key in a row, and a key that comes back after another.
Keys == {<<2, 2, 3>>, <<2, 4, 2>>}

\* A breaker without a cache, or a cache without a breaker; two callers or one; a breaker that
\* closes after one probe and a longer timeout, or after two and a shorter one.
Sources ==
    {c \in [callers : {1, 2}, breaker : BOOLEAN, failure_threshold : {2},
            success_threshold : {1, 2}, timeout : {1, 2}, interval : {1, 2},
            max_attempts : {1, 2}, backoff : {1}, max_backoff : {30}, ttl : {0, 1}] :
        /\ c.breaker <=> c.ttl = 0
        /\ c.breaker => c.interval = 1 /\ c.timeout # c.success_threshold
        /\ ~c.breaker => c.success_threshold = 1 /\ c.timeout = 1}

\* Good rows, a blank row, and rows the reader drops or refuses.
Contents == {<<"rec", "rec", "rec">>, <<"rec", "blank", "rec", "rec">>,
             <<"rec", "none", "bad", "rec">>}

\* A failed write, a record that failed in the chain, a row without a payload.
Failures == {<<"sink", "chain">>, <<"void", "sink">>}

\* Each kind of stage, before and after one that leaves holes in the list.
Shapes == {<<"map", "filter">>, <<"stage", "hook", "map">>, <<"filter", "batch">>,
           <<"hook", "retry">>, <<"stage", "hook", "route", "batch">>}

\* The batch middleware has a cache only with the budget of a run, and one that keeps every
\* answer without "passthrough", which differs from "drop" in what the record becomes.
Middlewares ==
    {c \in [kind : {"batch", "enrich", "extract", "translate", "classify", "validate"},
            policy : {"passthrough", "drop", "raise"}, invalid : {"drop", "flag", "raise"},
            scope : {"none", "record", "run"}, cache : {"none", "memory", "sqlite"}] :
        /\ c.kind # "validate" => c.invalid = "flag"
        /\ c.kind \notin {"batch", "enrich"} => c.scope = "run" /\ c.cache = "memory"
        /\ c.kind = "batch" /\ c.cache # "none" => c.scope = "run"
        /\ c.kind = "batch" /\ c.cache = "sqlite" => c.policy # "passthrough"}

VARIABLE part

WR == INSTANCE Writers WITH wr <- s
DD == INSTANCE Dedup WITH dd <- s
FS == INSTANCE FileSource WITH fs <- s
BS == INSTANCE BufferingSink WITH bs <- s
CH == INSTANCE Chain WITH mc <- s
RG == INSTANCE Registry WITH rg <- s

ASSUME SettingsAssumption == Settings \subseteq HS!Configs /\ AiSettings \subseteq AI!Configs

vars == <<part, s>>

Init ==
    /\ part \in Parts
    /\ \/ part = "writers" /\ WR!Init
       \/ part = "dedup" /\ DD!Init
       \/ part = "http" /\ HS!Init
       \/ part = "file" /\ FS!Init
       \/ part = "sink" /\ BS!Init
       \/ part = "dlq" /\ DQ!Init
       \/ part = "orders" /\ OC!Init
       \/ part = "chain" /\ CH!Init
       \/ part = "plan" /\ PL!Init
       \/ part = "ai" /\ AI!Init
       \/ part = "schema" /\ ST!Init
       \/ part = "state" /\ KV!Init
       \/ part = "registry" /\ RG!Init

Next ==
    /\ UNCHANGED part
    /\ \/ part = "writers" /\ WR!Next
       \/ part = "dedup" /\ DD!Next
       \/ part = "http" /\ HS!Next
       \/ part = "file" /\ FS!Next
       \/ part = "sink" /\ BS!Next
       \/ part = "dlq" /\ DQ!Next
       \/ part = "orders" /\ OC!Next
       \/ part = "chain" /\ CH!Next
       \/ part = "plan" /\ PL!Next
       \/ part = "ai" /\ AI!Next
       \/ part = "schema" /\ ST!Next
       \/ part = "state" /\ KV!Next
       \/ part = "registry" /\ RG!Next

Spec == Init /\ [][Next]_vars

-----------------------------------------------------------------------------
(* Writers: what a result says of a row is true of the sinks, an Arrow     *)
(* write that returns stored every row, an ordered sink receives its rows  *)
(* in batch order and once, no more sinks are called at a time than        *)
(* max_concurrency, and a failed open() leaves none open.                  *)
WritesAreTrue ==
    part = "writers" =>
        /\ WR!ResultsAreTrue /\ WR!ArrowReturnStoredAll /\ WR!SinkReceivesInOrder
        /\ WR!SinkCallsLimited /\ WR!FailedOpenLeavesNoneOpen

(* Dedup: a marker in the store stands for a handled record, and a dropped *)
(* duplicate has a record to be the duplicate of.                          *)
MarkersAreTrue ==
    part = "dedup" => DD!MarkedMeansHandled /\ DD!DuplicateOfSomething /\ DD!StoreBounded

(* Dedup: a key is written once, but for the named exceptions, among them  *)
(* two tasks of the buffered lane that asked the store together.           *)
WrittenOncePerKey == part = "dedup" => DD!WrittenOncePerKey

(* HttpSource: the breaker opens and closes after the configured number of *)
(* outcomes in a row; the rate limit, the open breaker and max_attempts    *)
(* hold for what goes out.                                                 *)
RequestsArePaced == [][part = "http" => HS!BreakerStep /\ HS!RequestStep]_vars

(* FileSource: a resume passes over handled rows only; in CSV and JSONL    *)
(* files it passes over all that the checkpoint covers.                    *)
ResumesAtCursor == part = "file" => FS!SkipsOnlyHandled /\ FS!TextResumesExactly

(* FileSource: a stream that ends quietly was read to its end.             *)
QuietEndIsComplete == part = "file" => FS!QuietEndIsComplete

(* BufferingSink: an accepted record is in the output or on its way there, *)
(* closed means flushed, a record is written again only after a failed     *)
(* flush, and a CSV file begins with its header.                           *)
AcceptedIsWritten ==
    part = "sink" =>
        /\ BS!AcceptedIsKept /\ BS!ClosedIsFlushed
        /\ BS!WrittenOnce /\ BS!HeaderFirst

(* DlqReplay: a row leaves the table only after its record was written,    *)
(* attempts are counted and bounded, a second write has a reason, and exit *)
(* status 0 means that the rows taken are gone.                            *)
ReplayLosesNothing ==
    part = "dlq" =>
        /\ DQ!NothingVanishes /\ DQ!AttemptsAreCounted /\ DQ!AttemptsBounded
        /\ DQ!WrittenTwiceIsKnown /\ DQ!SuccessIsComplete

(* OrderCenter: manifests, repair requests, audit trail and verifier tell  *)
(* the truth of what is in Kafka and in the ledger, whoever died in        *)
(* between.                                                                *)
LedgersTellTruth ==
    part = "orders" => OC!PublishedIsTrue /\ OC!AuditTellsState /\ OC!PassIsTrue

(* OrderCenter: committed offsets cover durable messages, the current      *)
(* state is the newest event, and the two stores agree without lag.        *)
StoresConverge ==
    part = "orders" => OC!CommittedIsDurable /\ OC!CurrentIsNewest /\ OC!CachesConverge

(* Chain: results stay at their records' positions, hooks and failures     *)
(* follow their record, and the metrics of a stage add up.                 *)
ChainKeepsRecords ==
    part = "chain" =>
        /\ CH!ResultsStayInPlace /\ CH!HooksFollow
        /\ CH!FailuresAreFailures /\ CH!MetricsBalance

(* ExecutionPlan: stages and sinks get the shape the plan shows, and a     *)
(* policy that was asked for holds of the run that starts.                 *)
PlanIsTrue ==
    part = "plan" => PL!StagesGetTheirShape /\ PL!PlanIsKept /\ PL!StartedAsRequired

(* AiBatch: every awaited record has a task that will answer it.           *)
NobodyForgotten == part = "ai" => AI!NobodyForgotten

(* AiBatch: the usage of a run is what its calls spent, within the budget, *)
(* and no cache entry is out of eviction's reach.                          *)
BudgetTellsSpending == part = "ai" => AI!BudgetTellsSpending /\ AI!CacheIsBounded

(* SchemaTracking: the schema describes what was sent on, FREEZE holds,    *)
(* and an inferred type is the least one.                                  *)
SchemaIsTrue ==
    part = "schema" => ST!SchemaDescribesSent /\ ST!FrozenStaysFrozen /\ ST!InferenceIsLeast

(* StateStore: a key is new to one client, an entry lasts until it expires *)
(* or its user removes it, and after a reset no position is left.          *)
StateIsKept == part = "state" => KV!StateIsKept

(* Registry: a key has one owner, built-in before installed, an override   *)
(* stays, and version ranges compare numbers.                              *)
KeyHasOneOwner ==
    part = "registry" => RG!KeyHasOneOwner /\ RG!OverrideStays /\ RG!RangesAreNumeric

-----------------------------------------------------------------------------
(* Dedup: a record is dropped only for one that was kept, as the comment   *)
(* of the exact path has it.                                               *)
DuplicateOfKeptRecord == part = "dedup" => DD!DuplicateOfKeptRecord

(* Chain: the runtime guarantees promise DLQ routing for a middleware that *)
(* raises; the runtime can route only the failures it is told of.          *)
FailureReachesRuntime == part = "chain" => CH!FailureReachesRuntime

(* SchemaTracking: under DISCARD_ROW the active schema is left unchanged,  *)
(* as docs/schema.md says.                                                 *)
RowContractKeepsSchema == part = "schema" => ST!RowContractKeepsSchema

(* FileSource: a resumed source skips what its checkpoint covers, as the   *)
(* recovery matrix says of the Parquet source too.                         *)
CoveredIsSkipped == part = "file" => FS!CoveredIsSkipped

=============================================================================
