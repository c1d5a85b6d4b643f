------------------------------- MODULE AiBatch -------------------------------
(***************************************************************************)
(* The AI middlewares (middlewares/ai): one call to a provider per record, *)
(* or AIBatchMiddleware, which queues records and answers their futures    *)
(* from one call per batch; the response cache (ai/cache.py) and the       *)
(* budget (ai/governance.py) around the call.                              *)
(*                                                                         *)
(* A batch is flushed by three tasks that take turns on a lock: the timer  *)
(* (_flush_loop), the task submit() starts when the queue is long enough,  *)
(* and the lane when it drains the stage.  There a call is one step: only  *)
(* the holder of the lock uses the cache and the budget.  The calls of the *)
(* other middlewares overlap, one task per record in the buffered lane:    *)
(* the budget is looked at before the await and again after it.            *)
(***************************************************************************)
EXTENDS Naturals, Sequences, SequencesExt

CONSTANTS AiSettings, \* the configurations to look at
          NPrompts,   \* records of a run
          AiBatchSize,\* batch_size
          MaxTokens,  \* max_total_tokens
          CacheSize,  \* max_size of InMemoryLLMCache
          MaxAiRuns

VARIABLE ai

Recs == 1 .. NPrompts
Flushers == {"timer", "size", "drain"}

(* Records 1 and NPrompts have the same content, so the same prompt; the   *)
(* field that record 2 is read for is empty.                               *)
Content(r) == IF r = NPrompts THEN 1 ELSE r
Blank(r) == r = 2
Key(batch) == [i \in DOMAIN batch |-> Content(batch[i])]

(* policy: on_error; invalid: on_invalid of AIValidateMiddleware; scope:   *)
(* that of the budget, "none" without one.                                 *)
Policies == {"passthrough", "drop", "raise"}
Configs ==
    [kind : {"batch", "enrich"}, policy : Policies, invalid : {"flag"},
     scope : {"none", "record", "run"}, cache : {"none", "memory", "sqlite"}]
    \union [kind : {"extract", "translate", "classify"}, policy : Policies, invalid : {"flag"},
            scope : {"run"}, cache : {"memory"}]
    \union [kind : {"validate"}, policy : Policies, invalid : {"drop", "flag", "raise"},
            scope : {"run"}, cache : {"memory"}]

Idle == [f \in Flushers |-> "idle"]

Init ==
    \E c \in AiSettings :
        ai = [conf |-> c, pc |-> "down", lane |-> "over", runs |-> 0, next |-> 1,
              queue |-> <<>>, batch |-> <<>>, lock |-> "none", task |-> Idle,
              fut |-> [r \in Recs |-> "none"],
              usage |-> 0,      \* _budget_usage
              cached |-> {},    \* entries <<key, answer>> of the store
              order |-> <<>>,   \* _order of InMemoryLLMCache
              spent |-> 0,      \* history: tokens of this run's calls
              over |-> 0,       \* history: of the calls found too dear afterwards
              carried |-> 0]    \* history: usage at the start of the run

-----------------------------------------------------------------------------
(* _cached_complete and what is made of its answer.                        *)

(* Mutant of ResetUsage: a new run goes on from the old one's usage.       *)
KeepUsage(c, usage) == usage

(* AIMiddleware.on_start; AIBatchMiddleware.on_start does not call it.     *)
ResetUsage(c, usage) == IF c.kind # "batch" /\ c.scope = "run" THEN 0 ELSE usage

Keys(s) == {e[1] : e \in s.cached}
Forget(s, k) == [s EXCEPT !.order = RemoveFirst(@, k)]
Touched(s, k) == [s EXCEPT !.order = IF s.conf.cache = "memory"
                                     THEN Append(RemoveFirst(@, k), k) ELSE @]

(* InMemoryLLMCache.set, SQLiteLLMCache.set                                *)
Evicted(s, k) ==
    IF s.conf.cache = "memory" /\ ~Contains(s.order, k) /\ Len(s.order) >= CacheSize
    THEN [s EXCEPT !.order = Tail(@), !.cached = {e \in @ : e[1] # Head(s.order)}] ELSE s
CacheSet(s, k, answer) ==
    IF s.conf.cache = "none" THEN s
    ELSE Touched([Evicted(s, k) EXCEPT !.cached = {e \in @ : e[1] # k} \union {<<k, answer>>}], k)

(* _check_budget does not raise                                            *)
Affordable(s, tokens) ==
    \/ s.conf.scope = "none"
    \/ (IF s.conf.scope = "run" THEN s.usage ELSE 0) + tokens <= MaxTokens

(* A call of one or two tokens; the preflight estimates one.               *)
Estimate == 1
Counted(s, tokens) ==
    [s EXCEPT !.usage = IF s.conf.scope = "run" THEN @ + tokens ELSE @]

(* What a call can come to: a state and whether it gave a usable answer.   *)
(* A malformed answer is paid for, counted and cached before it is parsed. *)
Failed(s) == [s |-> s, ok |-> FALSE]
Paid(s, k) ==
    {LET paid == [s EXCEPT !.spent = @ + t]
     IN IF Affordable(s, t)
        THEN [s |-> CacheSet(Counted(paid, t), k, answer), ok |-> answer = "good"]
        ELSE Failed([paid EXCEPT !.over = @ + t])
     : t \in 1 .. 2, answer \in {"good", "bad"}} \union {Failed(s)}

Cached(k) == ai.conf.cache # "none" /\ k \in Keys(ai)
Hit(k) == {[s |-> Touched(ai, k), ok |-> e[2] = "good"] : e \in {x \in ai.cached : x[1] = k}}
Complete(k) ==
    IF Cached(k) THEN Hit(k)
    ELSE IF Affordable(ai, Estimate) THEN Paid(Forget(ai, k), k) ELSE {Failed(Forget(ai, k))}

(* TTLKeyValueStore: an entry outlives its ttl_s; _order still names it.   *)
Expires(k) == /\ k \in Keys(ai) /\ ai.runs = MaxAiRuns
              /\ ai' = [ai EXCEPT !.cached = {e \in @ : e[1] # k}]

(* _handle_error: what the future of a record gets.                        *)
OnError(policy) ==
    CASE policy = "passthrough" -> "same" [] policy = "drop" -> "gone" [] OTHER -> "error"

(* set_result, for the futures that are not done.                          *)
Resolved(s, recs, value) ==
    [s EXCEPT !.fut = [r \in Recs |-> IF r \in recs /\ @[r] \in {"pending", "calling"}
                                      THEN value ELSE @[r]]]

-----------------------------------------------------------------------------
(* A run of the lane.                                                      *)

OnStart ==
    /\ ai.pc = "down" /\ ai.runs < MaxAiRuns
    /\ LET usage == ResetUsage(ai.conf, ai.usage)
       IN ai' = [ai EXCEPT !.pc = "up", !.lane = "submits", !.runs = @ + 1, !.next = 1,
                           !.queue = <<>>, !.batch = <<>>, !.lock = "none", !.task = Idle,
                           !.fut = [r \in Recs |-> "none"],
                           !.usage = usage, !.spent = 0, !.over = 0, !.carried = usage]

(* process() of the middlewares that make a call for each record: as far   *)
(* as the await of the provider, and what follows it.                      *)
(* A field the answer leaves out is left out of the record ("part").       *)
Enriched == {"ok"}
Extracted == {"ok", "part"}
Translated == {"ok", "part"}

(* A category that is not among the given ones becomes the first of them,  *)
(* with confidence 0 ("first").                                            *)
Classified == {"ok", "first"}

(* valid, or what on_invalid makes of a verdict; DataQualityError is not   *)
(* left to on_error.                                                       *)
Validated(invalid) ==
    {"same", CASE invalid = "drop" -> "gone" [] invalid = "flag" -> "ok" [] OTHER -> "error"}

Outcomes(c) ==
    IF ~c.ok THEN {OnError(ai.conf.policy)}
    ELSE CASE ai.conf.kind = "enrich"    -> Enriched
           [] ai.conf.kind = "extract"   -> Extracted
           [] ai.conf.kind = "translate" -> Translated
           [] ai.conf.kind = "classify"  -> Classified
           [] ai.conf.kind = "validate"  -> Validated(ai.conf.invalid)

(* Nothing to extract, translate or classify: the record as it is.         *)
NoText(r) == Blank(r) /\ ai.conf.kind \in {"extract", "translate", "classify"}

Answer(s, r, value) == ai' = [s EXCEPT !.next = IF r = @ THEN @ + 1 ELSE @, !.fut[r] = value]
Process ==
    /\ ai.conf.kind # "batch" /\ ai.lane = "submits" /\ ai.next \in Recs
    /\ LET k == Key(<<ai.next>>)
       IN IF NoText(ai.next) THEN Answer(ai, ai.next, "same")
          ELSE IF ~Cached(k) /\ Affordable(ai, Estimate)
          THEN Answer(Forget(ai, k), ai.next, "calling")
          ELSE \E c \in Complete(k) : \E v \in Outcomes(c) : Answer(c.s, ai.next, v)
Returns(r) ==
    /\ ai.fut[r] = "calling"
    /\ \E c \in Paid(ai, Key(<<r>>)) : \E v \in Outcomes(c) : Answer(c.s, r, v)

Submit ==
    /\ ai.conf.kind = "batch" /\ ai.lane = "submits" /\ ai.next \in Recs
    /\ LET s == [ai EXCEPT !.next = @ + 1, !.fut[ai.next] = "pending",
                           !.queue = Append(@, ai.next)]
       IN ai' = IF Len(s.queue) >= AiBatchSize /\ ai.task["size"] = "idle"
                THEN [s EXCEPT !.task["size"] = "lock"] ELSE s

(* End of the stream: drain_pending, then the lane awaits what is left.    *)
Drain ==
    /\ ai.lane = "submits" /\ ai.next > NPrompts
    /\ ai' = [ai EXCEPT !.lane = "drains",
                        !.task["drain"] = IF ai.queue = <<>> THEN @ ELSE "lock"]
Answered == \A r \in Recs : ai.fut[r] \notin {"pending", "calling"}
LaneEnds ==
    /\ ai.lane = "drains" /\ ai.task["drain"] = "idle" /\ Answered
    /\ ai' = [ai EXCEPT !.lane = "over"]

(* The lane gives up, and cancels the futures it awaits.                   *)
LaneAborts ==
    /\ ai.lane \in {"submits", "drains"}
    /\ ai' = [Resolved(ai, Recs, "cancelled") EXCEPT
                !.lane = "over",
                !.lock = IF @ = "drain" THEN "none" ELSE @,
                !.batch = IF ai.lock = "drain" THEN <<>> ELSE @,
                !.task["drain"] = "idle"]

-----------------------------------------------------------------------------
(* _flush_pending.                                                         *)

TimerFires ==
    /\ ai.pc \in {"up", "stops"} /\ ai.conf.kind = "batch"
    /\ ai.task["timer"] = "idle" /\ ai.queue # <<>>
    /\ ai' = [ai EXCEPT !.task["timer"] = "lock"]

Acquire(f) ==
    /\ ai.task[f] = "lock" /\ ai.lock = "none"
    /\ ai' = [ai EXCEPT !.lock = f, !.task[f] = "loop"]

(* flush_partial *)
Enough(f) == f # "size" \/ Len(ai.queue) >= AiBatchSize

Released(s, f, then) == [s EXCEPT !.lock = "none", !.batch = <<>>, !.task[f] = then]
FlushLoop(f) ==
    /\ ai.lock = f /\ ai.task[f] = "loop"
    /\ IF ai.queue = <<>> \/ ~Enough(f) THEN ai' = Released(ai, f, "idle")
       ELSE LET n == IF Len(ai.queue) < AiBatchSize THEN Len(ai.queue) ELSE AiBatchSize
            IN ai' = [ai EXCEPT !.batch = SubSeq(ai.queue, 1, n),
                                !.queue = SubSeq(ai.queue, n + 1, Len(ai.queue)),
                                !.task[f] = "call"]

(* Mutant of Fails: the failed batch is given up and the flush goes on.    *)
GivesUp(s, f) == [s EXCEPT !.batch = <<>>, !.task[f] = "loop"]

(* The except clause: under "raise" _handle_error raises before the first  *)
(* future is set, and the task ends with it; the lane sees it only when it *)
(* is the one that flushes, and on_stop when its own drain does.           *)
Fails(s, f) ==
    IF s.conf.policy # "raise" \/ \A i \in DOMAIN s.batch : s.fut[s.batch[i]] # "pending"
    THEN [Resolved(s, ToSet(s.batch), OnError(s.conf.policy)) EXCEPT !.batch = <<>>, !.task[f] = "loop"]
    ELSE CASE f = "timer" -> Released(s, f, "dead")
           [] f = "size"  -> Released(s, f, "idle")
           [] f = "drain" -> [Resolved(Released(s, f, "idle"), Recs, "cancelled")
                                EXCEPT !.lane = "over",
                                       !.pc = IF @ = "stops" THEN "broken" ELSE @]

ProcessBatch(f) ==
    /\ ai.lock = f /\ ai.task[f] = "call"
    /\ \E c \in Complete(Key(ai.batch)) :
           ai' = IF c.ok THEN [Resolved(c.s, ToSet(ai.batch), "ok") EXCEPT !.batch = <<>>, !.task[f] = "loop"]
                 ELSE Fails(c.s, f)

-----------------------------------------------------------------------------
(* on_stop: drain once more, cancel the tasks, hand back what is queued,   *)
(* close the cache.                                                        *)
StopDrains ==
    /\ ai.pc = "up" /\ ai.lane = "over"
    /\ ai' = [ai EXCEPT !.pc = "stops",
                        !.task["drain"] = IF ai.queue = <<>> THEN @ ELSE "lock"]
StopCancels ==
    /\ ai.pc = "stops" /\ ai.task["drain"] = "idle"
    /\ ai' = [Resolved(ai, ToSet(ai.queue), "same") EXCEPT
                !.pc = "down", !.queue = <<>>, !.batch = <<>>, !.lock = "none", !.task = Idle,
                !.cached = IF ai.conf.cache = "memory" THEN {} ELSE @, !.order = <<>>]

(* An on_stop that raised leaves its tasks behind: the middleware is not   *)
(* started again.                                                          *)
Over ==
    /\ ai.pc = "broken" \/ (ai.pc = "down" /\ ai.runs = MaxAiRuns)
    /\ UNCHANGED ai

Next == \/ OnStart \/ Process \/ Submit \/ Drain \/ LaneEnds \/ LaneAborts \/ TimerFires
        \/ \E f \in Flushers : Acquire(f) \/ FlushLoop(f) \/ ProcessBatch(f)
        \/ \E r \in Recs : Returns(r)
        \/ \E k \in Keys(ai) : Expires(k)
        \/ StopDrains \/ StopCancels \/ Over

Spec == Init /\ [][Next]_ai

-----------------------------------------------------------------------------
(* A record whose future is awaited is in the queue, with a timer that     *)
(* will come for it, or in the batch of the task that holds the lock.      *)
(* Under "raise" a failed batch answers nobody.                            *)
NobodyForgotten ==
    ai.conf.policy # "raise" => \A r \in Recs : ai.fut[r] = "pending" =>
        \/ Contains(ai.queue, r) /\ ai.task["timer"] # "dead"
        \/ Contains(ai.batch, r) /\ ai.lock # "none" /\ ai.task[ai.lock] = "call"

(* However the calls overlap, every token a run paid for is in its usage,  *)
(* but for the calls found too dear once made, and the usage stays within  *)
(* the budget; a run starts from an unused one, but for the batch          *)
(* middleware's.                                                           *)
BudgetTellsSpending ==
    ai.conf.scope = "run" =>
        /\ ai.usage = ai.carried + ai.spent - ai.over
        /\ ai.usage <= MaxTokens
        /\ ai.conf.kind # "batch" => ai.carried = 0

(* The LRU list names every entry of the store, each once, and no more of  *)
(* them than its size: no entry is out of eviction's reach.                *)
CacheIsBounded ==
    ai.conf.cache = "memory" =>
        /\ Keys(ai) \subseteq ToSet(ai.order) /\ IsInjective(ai.order)
        /\ Len(ai.order) <= CacheSize

=============================================================================
