-------------------------- MODULE Components_proofs --------------------------
(***************************************************************************)
(* Theorems about the components around the lanes, for any value of their  *)
(* constants: the execution plan, schema tracking, dead-letter replay, the *)
(* order command center, the state backends with their users, the requests *)
(* of an HTTP source and the AI batching middleware.  The inductive        *)
(* invariants are about the state s of one component, those of AiBatch     *)
(* here and the others in Parts_proofs; the theorems are about the part of *)
(* MCComponents that runs the component.                                   *)
(***************************************************************************)
EXTENDS MCComponents, Parts_proofs, WellFoundedInduction

-----------------------------------------------------------------------------
(* ExecutionPlan: the behaviours of the part "plan".                       *)

\* Whatever the chain of stages, the list of sinks, and what each declares: no stage is handed a
\* shape it does not work on, what explain() says of the writer and the sinks is what they get,
\* and a run that starts under a delivery policy meets it.
THEOREM PlanStaysTrue == ASSUME PlanBounds PROVE Spec => []PlanIsTrue
<1>1. Init /\ part = "plan" => PL!Init
    BY DEF Init
<1>2. part = "plan" /\ [Next]_vars => (part = "plan")' /\ [PL!Next]_s
    BY DEF Next, vars
<1>3. ~(part = "plan") /\ [Next]_vars => (~(part = "plan"))'
    BY DEF Next, vars
<1>4. PL!Init /\ [][PL!Next]_s =>
        [](PL!StagesGetTheirShape /\ PL!PlanIsKept /\ PL!StartedAsRequired)
    BY PlanAlways
<1>5. PL!StagesGetTheirShape /\ PL!PlanIsKept /\ PL!StartedAsRequired
      => PlanIsTrue
    BY DEF PlanIsTrue
<1>6. ~(part = "plan") => PlanIsTrue
    BY DEF PlanIsTrue
<1>. QED
    BY <1>1, <1>2, <1>3, <1>4, <1>5, <1>6, PTL DEF Spec

-----------------------------------------------------------------------------
(* SchemaTracking: the behaviours of the part "schema".                    *)

\* However many runs and records, with crashes between them: the schema of a run describes every
\* record it sent on and the stored one those of every run that was saved, a frozen schema does
\* not change, and an inferred type is the least one that holds what was seen.
THEOREM SchemaStaysTrue == Spec => []SchemaIsTrue
<1>1. Init /\ part = "schema" => ST!Init
    BY DEF Init
<1>2. part = "schema" /\ [Next]_vars => (part = "schema")' /\ [ST!Next]_s
    BY DEF Next, vars
<1>3. ~(part = "schema") /\ [Next]_vars => (~(part = "schema"))'
    BY DEF Next, vars
<1>4. ST!Init /\ [][ST!Next]_s =>
        [](ST!SchemaDescribesSent /\ ST!FrozenStaysFrozen /\ ST!InferenceIsLeast)
    BY SchemaAlways
<1>5. ST!SchemaDescribesSent /\ ST!FrozenStaysFrozen /\ ST!InferenceIsLeast
      => SchemaIsTrue
    BY DEF SchemaIsTrue
<1>6. ~(part = "schema") => SchemaIsTrue
    BY DEF SchemaIsTrue
<1>. QED
    BY <1>1, <1>2, <1>3, <1>4, <1>5, <1>6, PTL DEF Spec

-----------------------------------------------------------------------------
(* DlqReplay: the behaviours of the part "dlq".                            *)

\* However many rows are captured and commands started, by two operators at a time, with crashes
\* anywhere and any bound on attempts: a row leaves the dead-letter table only after a replay
\* wrote it, an attempt is counted before it is made and the bound holds, a record is written
\* twice only for a known reason, and a command that says success replayed all it took.
THEOREM ReplayLosesNoRow == ASSUME DlqBounds PROVE Spec => []ReplayLosesNothing
<1>1. Init /\ part = "dlq" => DQ!Init
    BY DEF Init
<1>2. part = "dlq" /\ [Next]_vars => (part = "dlq")' /\ [DQ!Next]_s
    BY DEF Next, vars
<1>3. ~(part = "dlq") /\ [Next]_vars => (~(part = "dlq"))'
    BY DEF Next, vars
<1>4. DQ!Init /\ [][DQ!Next]_s =>
        [](DQ!NothingVanishes /\ DQ!AttemptsAreCounted /\ DQ!AttemptsBounded
           /\ DQ!WrittenTwiceIsKnown /\ DQ!SuccessIsComplete)
    BY DlqAlways
<1>5. DQ!NothingVanishes /\ DQ!AttemptsAreCounted /\ DQ!AttemptsBounded
      /\ DQ!WrittenTwiceIsKnown /\ DQ!SuccessIsComplete
      => ReplayLosesNothing
    BY DEF ReplayLosesNothing
<1>6. ~(part = "dlq") => ReplayLosesNothing
    BY DEF ReplayLosesNothing
<1>. QED
    BY <1>1, <1>2, <1>3, <1>4, <1>5, <1>6, PTL DEF Spec

-----------------------------------------------------------------------------
(* OrderCenter: the behaviours of the part "orders".                       *)

\* However many events, crashes, lost answers and messages sent twice: a manifest or a repair that
\* says published has its messages in Kafka, the audit trail tells the state of the request, and
\* the verifier passes only a run that is in the ledger event by event.
THEOREM LedgersStayTrue == ASSUME OrderBounds PROVE Spec => []LedgersTellTruth
<1>1. Init /\ part = "orders" => OC!Init
    BY DEF Init
<1>2. part = "orders" /\ [Next]_vars => (part = "orders")' /\ [OC!Next]_s
    BY DEF Next, vars
<1>3. ~(part = "orders") /\ [Next]_vars => (~(part = "orders"))'
    BY DEF Next, vars
<1>4. OC!Init /\ [][OC!Next]_s =>
        [](OC!PublishedIsTrue /\ OC!AuditTellsState /\ OC!PassIsTrue
           /\ OC!CommittedIsDurable /\ OC!CurrentIsNewest /\ OC!CachesConverge)
    BY OrdersAlways
<1>5. OC!PublishedIsTrue /\ OC!AuditTellsState /\ OC!PassIsTrue /\ OC!CommittedIsDurable
      /\ OC!CurrentIsNewest /\ OC!CachesConverge
      => LedgersTellTruth
    BY DEF LedgersTellTruth
<1>6. ~(part = "orders") => LedgersTellTruth
    BY DEF LedgersTellTruth
<1>. QED
    BY <1>1, <1>2, <1>3, <1>4, <1>5, <1>6, PTL DEF Spec

\* However many events and faults, with workers dying between a projection and its commit: a
\* committed offset covers only durable messages, the current state is the newest event, and
\* without lag Redis serves it, unless a late repair came last.
THEOREM StoresStayConvergent == ASSUME OrderBounds PROVE Spec => []StoresConverge
<1>1. Init /\ part = "orders" => OC!Init
    BY DEF Init
<1>2. part = "orders" /\ [Next]_vars => (part = "orders")' /\ [OC!Next]_s
    BY DEF Next, vars
<1>3. ~(part = "orders") /\ [Next]_vars => (~(part = "orders"))'
    BY DEF Next, vars
<1>4. OC!Init /\ [][OC!Next]_s =>
        [](OC!PublishedIsTrue /\ OC!AuditTellsState /\ OC!PassIsTrue
           /\ OC!CommittedIsDurable /\ OC!CurrentIsNewest /\ OC!CachesConverge)
    BY OrdersAlways
<1>5. OC!PublishedIsTrue /\ OC!AuditTellsState /\ OC!PassIsTrue /\ OC!CommittedIsDurable
      /\ OC!CurrentIsNewest /\ OC!CachesConverge
      => StoresConverge
    BY DEF StoresConverge
<1>6. ~(part = "orders") => StoresConverge
    BY DEF StoresConverge
<1>. QED
    BY <1>1, <1>2, <1>3, <1>4, <1>5, <1>6, PTL DEF Spec

-----------------------------------------------------------------------------
(* StateStore: the behaviours of the part "state".                         *)

\* However processes, tasks and resets interleave on one backend: a membership key is new to one
\* client, an entry lasts until it expires or its user removes it, unless a get removed a row it had
\* not read or a clear took another case of its namespace; a checkpoint always lasts, and a
\* successful reset leaves no position.
THEOREM StoreKeepsState == ASSUME StoreBounds PROVE Spec => []StateIsKept
<1>1. Init /\ part = "state" => KV!Init
    BY DEF Init
<1>2. part = "state" /\ [Next]_vars => (part = "state")' /\ [KV!Next]_s
    BY DEF Next, vars
<1>3. ~(part = "state") /\ [Next]_vars => (~(part = "state"))'
    BY DEF Next, vars
<1>4. KV!Init /\ [][KV!Next]_s =>
        [](KV!StateIsKept)
    BY StoreAlways
<1>5. KV!StateIsKept
      => StateIsKept
    BY DEF StateIsKept
<1>6. ~(part = "state") => StateIsKept
    BY DEF StateIsKept
<1>. QED
    BY <1>1, <1>2, <1>3, <1>4, <1>5, <1>6, PTL DEF Spec

-----------------------------------------------------------------------------
(* HttpSource: the behaviours of the part "http".                          *)

\* Whatever the settings, however many requests are made together and whatever the service answers:
\* the breaker opens and closes only after its thresholds of outcomes in a row, nothing it did not
\* let through goes out while it is open, no call makes more than max_attempts, and the requests of
\* one caller keep the interval.
THEOREM RequestsStayPaced == ASSUME MaxTime \in Nat PROVE Spec => RequestsArePaced
<1>0. HttpBounds
    BY SettingsAssumption DEF SettingsAssumption, HttpBounds, HS!Configs, HS!Configs
<1>1. Init /\ part = "http" => HS!Init
    BY DEF Init
<1>2. part = "http" /\ [Next]_vars => (part = "http")' /\ [HS!Next]_s
    BY DEF Next, vars
<1>3. ~(part = "http") /\ [Next]_vars => (~(part = "http"))'
    BY DEF Next, vars
<1>4. HS!Init /\ [][HS!Next]_s => [][HS!BreakerStep /\ HS!RequestStep]_s
    BY <1>0, HttpAlways
<1>5. [Next]_vars /\ [HS!BreakerStep /\ HS!RequestStep]_s
        => [part = "http" => HS!BreakerStep /\ HS!RequestStep]_vars
    BY DEF Next, vars
<1>6. ~(part = "http") => [part = "http" => HS!BreakerStep /\ HS!RequestStep]_vars
    OBVIOUS
<1>. QED
    BY <1>1, <1>2, <1>3, <1>4, <1>5, <1>6, PTL DEF Spec, RequestsArePaced

-----------------------------------------------------------------------------
(* AiBatch.  The invariants are about a state d of the middleware.         *)

\* The least of some indices.
LEMMA LeastIndex ==
  ASSUME NEW S, S \subseteq Nat, S # {}
  PROVE  AI!Min(S) \in S
<1>1. PICK p \in S : \A q \in S : ~(<<q, p>> \in OpToRel(<, Nat))
    BY NatLessThanWellFounded, WFMin
<1>2. ASSUME NEW q \in S PROVE p <= q
  <2>1. <<q, p>> \in Nat \X Nat
    OBVIOUS
  <2>2. ~(q < p)
    BY <1>1, <2>1 DEF OpToRel
  <2>3. p \in Nat /\ q \in Nat
    OBVIOUS
  <2>4. QED
    BY <2>2, <2>3
<1>. QED
    BY <1>2 DEF AI!Min

\* A key is taken off the list, which names none twice.
LEMMA OneLess ==
  ASSUME NEW S, NEW q \in Seq(S), NEW k, AI!IsInjective(q)
  PROVE  /\ AI!RemoveFirst(q, k) \in Seq(S)
         /\ AI!IsInjective(AI!RemoveFirst(q, k))
         /\ AI!ToSet(AI!RemoveFirst(q, k)) = AI!ToSet(q) \ {k}
         /\ Len(AI!RemoveFirst(q, k)) = IF k \in AI!ToSet(q) THEN Len(q) - 1 ELSE Len(q)
<1>. DEFINE n == Len(q)
            w == AI!RemoveFirst(q, k)
            I == {i \in 1 .. n : q[i] = k}
            j == AI!Min(I)
<1>1. n \in Nat /\ DOMAIN q = 1 .. n /\ \A i \in 1 .. n : q[i] \in S
    OBVIOUS
<1>2. \A i, l \in 1 .. n : q[i] = q[l] => i = l
    BY <1>1 DEF AI!IsInjective
<1>3. CASE k \notin AI!ToSet(q)
  <2>1. w = q
    BY <1>3, <1>1 DEF AI!RemoveFirst, AI!ToSet
  <2>. QED
    BY <1>3, <2>1
<1>4. CASE k \in AI!ToSet(q)
  <2>1. I # {} /\ I \subseteq Nat
    BY <1>4, <1>1 DEF AI!ToSet
  <2>2. j \in 1 .. n /\ q[j] = k
    BY <2>1, LeastIndex
  <2>3. w = SubSeq(q, 1, j - 1) \o SubSeq(q, j + 1, n)
    BY <1>4, <2>1 DEF AI!RemoveFirst, AI!RemoveAt, AI!SelectInSeq
  <2>. DEFINE a == SubSeq(q, 1, j - 1)
              b == SubSeq(q, j + 1, n)
  <2>. HIDE DEF w, j, I
  <2>4. /\ a \in Seq(S) /\ Len(a) = j - 1 /\ \A i \in 1 .. j - 1 : a[i] = q[i]
        /\ b \in Seq(S) /\ Len(b) = n - j /\ \A i \in 1 .. n - j : b[i] = q[j + i]
    <3>1. j \in Int /\ n \in Int /\ 1 <= j /\ j <= n
        BY <1>1, <2>2
    <3>2. \A i \in 1 .. j - 1 : q[i] \in S
        BY <3>1, <1>1
    <3>3. \A i \in j + 1 .. n : q[i] \in S
        BY <3>1, <1>1
    <3>4. /\ a \in Seq(S) /\ Len(a) = IF 1 <= j - 1 THEN j - 1 - 1 + 1 ELSE 0
          /\ \A i \in 1 .. j - 1 - 1 + 1 : a[i] = q[1 + i - 1]
        BY <3>1, <3>2, SubSeqProperties
    <3>5. /\ b \in Seq(S) /\ Len(b) = IF j + 1 <= n THEN n - (j + 1) + 1 ELSE 0
          /\ \A i \in 1 .. n - (j + 1) + 1 : b[i] = q[(j + 1) + i - 1]
        BY <3>1, <3>3, SubSeqProperties
    <3>. HIDE DEF a, b
    <3>6. \A i \in 1 .. j - 1 : i \in Int /\ 1 + i - 1 = i /\ i \in 1 .. j - 1 - 1 + 1
        BY <3>1
    <3>7. \A i \in 1 .. n - j : (j + 1) + i - 1 = j + i /\ i \in 1 .. n - (j + 1) + 1
        BY <3>1
    <3>. QED
        BY <3>1, <3>4, <3>5, <3>6, <3>7
  <2>. HIDE DEF a, b
  <2>5. /\ w \in Seq(S) /\ Len(w) = n - 1
        /\ \A i \in 1 .. n - 1 : w[i] = IF i < j THEN q[i] ELSE q[i + 1]
    <3>1. /\ a \o b \in Seq(S) /\ Len(a \o b) = (j - 1) + (n - j)
          /\ \A i \in 1 .. (j - 1) + (n - j) :
               (a \o b)[i] = IF i <= j - 1 THEN a[i] ELSE b[i - (j - 1)]
      <4>1. a \in Seq(S) /\ b \in Seq(S) /\ Len(a) = j - 1 /\ Len(b) = n - j
          BY <2>4
      <4>2. /\ a \o b \in Seq(S) /\ Len(a \o b) = Len(a) + Len(b)
            /\ \A i \in 1 .. Len(a) + Len(b) :
                 (a \o b)[i] = IF i <= Len(a) THEN a[i] ELSE b[i - Len(a)]
          BY <4>1, ConcatProperties
      <4>. QED
          BY <4>1, <4>2
    <3>2. w = a \o b
        BY <2>3 DEF a, b
    <3>3. j \in Int /\ n \in Int /\ 1 <= j /\ j <= n /\ (j - 1) + (n - j) = n - 1
        BY <1>1, <2>2
    <3>4. ASSUME NEW i \in 1 .. n - 1
          PROVE  w[i] = IF i < j THEN q[i] ELSE q[i + 1]
      <4>1. CASE i < j
        <5>1. i <= j - 1 /\ i \in 1 .. j - 1
            BY <4>1, <3>3
        <5>. QED
            BY <4>1, <5>1, <3>1, <3>2, <3>3, <2>4
      <4>2. CASE ~(i < j)
        <5>1. ~(i <= j - 1) /\ i - (j - 1) \in 1 .. n - j /\ j + (i - (j - 1)) = i + 1
            BY <4>2, <3>3
        <5>. QED
            BY <4>2, <5>1, <3>1, <3>2, <3>3, <2>4
      <4>. QED
          BY <4>1, <4>2
    <3>. QED
        BY <3>1, <3>2, <3>3, <3>4
  <2>6. DOMAIN w = 1 .. n - 1
    BY <2>5, <1>1
  <2>7. AI!IsInjective(w)
    BY <1>1, <1>2, <2>2, <2>5, <2>6 DEF AI!IsInjective
  <2>8. \A i \in 1 .. n - 1 : w[i] \in AI!ToSet(q) /\ w[i] # k
    BY <1>1, <1>2, <2>2, <2>5 DEF AI!ToSet
  <2>9. \A i \in 1 .. n : i # j => \E l \in 1 .. n - 1 : w[l] = q[i]
    <3>1. SUFFICES ASSUME NEW i \in 1 .. n, i # j
                   PROVE  \E l \in 1 .. n - 1 : w[l] = q[i]
        OBVIOUS
    <3>2. CASE i < j
        BY <3>2, <1>1, <2>2, <2>5
    <3>3. CASE i > j
      <4>1. i - 1 \in 1 .. n - 1 /\ ~(i - 1 < j) /\ (i - 1) + 1 = i
          BY <3>3, <1>1, <2>2
      <4>. QED
          BY <4>1, <2>5
    <3>. QED
        BY <3>1, <3>2, <3>3, <1>1, <2>2
  <2>10. AI!ToSet(w) = AI!ToSet(q) \ {k}
    <3>1. AI!ToSet(w) \subseteq AI!ToSet(q) \ {k}
        BY <2>6, <2>8 DEF AI!ToSet
    <3>2. AI!ToSet(q) \ {k} \subseteq AI!ToSet(w)
        BY <1>1, <2>2, <2>6, <2>9 DEF AI!ToSet
    <3>. QED
        BY <3>1, <3>2
  <2>. QED
    BY <1>4, <2>5, <2>7, <2>10 DEF w
<1>. QED
    BY <1>3, <1>4

\* The bounds: a batch holds a record, a cache an entry.
AiBounds ==
  /\ AiSettings \subseteq AI!Configs
  /\ NPrompts \in Nat /\ AiBatchSize \in Nat \ {0} /\ MaxTokens \in Nat /\ CacheSize \in Nat \ {0}

Prompts == Seq(Nat)
Futures == {"none", "pending", "calling", "same", "gone", "error", "cancelled", "ok", "part",
            "first"}

AiStates ==
  [conf : AI!Configs, pc : {"down", "up", "stops", "broken"},
   lane : {"over", "submits", "drains"}, runs : Nat, next : Nat, queue : Seq(AI!Recs),
   batch : Seq(AI!Recs), lock : {"none"} \union AI!Flushers,
   task : [AI!Flushers -> {"idle", "lock", "loop", "call", "dead"}],
   fut : [AI!Recs -> Futures], usage : Nat, cached : SUBSET (Prompts \X {"good", "bad"}),
   order : Seq(Prompts), spent : Nat, over : Nat, carried : Nat]

\* Usage is what was paid for, and every entry of the cache in reach of its eviction.
Purse(c, usage, spent, over, carried) ==
  c.scope = "run" => /\ usage + over = carried + spent /\ usage <= MaxTokens
                     /\ c.kind # "batch" => carried = 0
Reach(c, cached, order) ==
  /\ AI!IsInjective(order) /\ Len(order) <= CacheSize
  /\ c.cache = "memory" => \A e \in cached : e[1] \in AI!ToSet(order)

\* A record that waits is in the queue, or in the batch of the task that holds the lock.
Waits(r, queue, batch, lock, task) ==
  \/ AI!Contains(queue, r)
  \/ AI!Contains(batch, r) /\ lock # "none" /\ task[lock] = "call"

\* The lock is held by the task that works; lane and middleware end one after the other;
\* the records of a batch wait, those of the other middlewares call.
Desk(c, pc, lane, queue, batch, lock, task, fut) ==
  /\ lane # "over" => pc = "up"
  /\ \A f \in AI!Flushers : task[f] \in {"loop", "call"} <=> lock = f
  /\ lane = "submits" \/ (lane = "over" /\ pc = "up") => task["drain"] = "idle"
  /\ lane = "over" => \A r \in AI!Recs : fut[r] \notin {"pending", "calling"}
  /\ c.kind = "batch" => \A r \in AI!Recs : fut[r] # "calling"
  /\ c.policy # "raise" =>
       /\ task["timer"] # "dead"
       /\ \A r \in AI!Recs : fut[r] = "pending" => Waits(r, queue, batch, lock, task)

AiInv(d) ==
  /\ d \in AiStates
  /\ Purse(d.conf, d.usage, d.spent, d.over, d.carried) /\ Reach(d.conf, d.cached, d.order)
  /\ Desk(d.conf, d.pc, d.lane, d.queue, d.batch, d.lock, d.task, d.fut)

-----------------------------------------------------------------------------
(* The purse.                                                              *)

\* From d to e, only the purse has changed.
Costs(d, e) ==
  /\ e \in AiStates
  /\ e.conf = d.conf /\ e.pc = d.pc /\ e.lane = d.lane /\ e.runs = d.runs /\ e.next = d.next
  /\ e.queue = d.queue /\ e.batch = d.batch /\ e.lock = d.lock /\ e.task = d.task
  /\ e.fut = d.fut /\ e.carried = d.carried
  /\ Purse(d.conf, e.usage, e.spent, e.over, d.carried) /\ Reach(d.conf, e.cached, e.order)

\* No change.
LEMMA NoCosts == ASSUME NEW d, AiInv(d) PROVE Costs(d, d)
BY DEF AiInv, Costs

\* The list changes.
LEMMA OrderCosts ==
  ASSUME NEW d, NEW e, Costs(d, e), NEW o \in Seq(Prompts), Reach(d.conf, e.cached, o)
  PROVE  Costs(d, [e EXCEPT !.order = o])
<1>. DEFINE g == [e EXCEPT !.order = o]
<1>1. e \in AiStates
    BY DEF Costs
<1>2. /\ g.conf = e.conf /\ g.pc = e.pc /\ g.lane = e.lane /\ g.runs = e.runs /\ g.next = e.next
      /\ g.queue = e.queue /\ g.batch = e.batch /\ g.lock = e.lock /\ g.task = e.task
      /\ g.fut = e.fut /\ g.carried = e.carried /\ g.usage = e.usage /\ g.cached = e.cached
      /\ g.spent = e.spent /\ g.over = e.over /\ g.order = o
    BY <1>1 DEF AiStates
<1>3. g \in AiStates
    BY <1>1 DEF AiStates
<1>. HIDE DEF g
<1>4. Costs(d, g)
    BY <1>2, <1>3 DEF Costs
<1>. QED
    BY <1>4 DEF g

\* The list without a key that no entry needs.
LEMMA ForgetCosts ==
  ASSUME AiBounds, NEW d, NEW e, Costs(d, e), NEW k,
         d.conf.cache = "memory" => \A x \in e.cached : x[1] # k
  PROVE  Costs(d, AI!Forget(e, k))
<1>. DEFINE o == AI!RemoveFirst(e.order, k)
<1>1. e.order \in Seq(Prompts) /\ AI!IsInjective(e.order) /\ Len(e.order) <= CacheSize
      /\ Len(e.order) \in Nat
    BY DEF Costs, AiStates, Reach
<1>2. /\ o \in Seq(Prompts) /\ AI!IsInjective(o) /\ AI!ToSet(o) = AI!ToSet(e.order) \ {k}
      /\ Len(o) = IF k \in AI!ToSet(e.order) THEN Len(e.order) - 1 ELSE Len(e.order)
    BY <1>1, OneLess
<1>. HIDE DEF o
<1>3. Reach(d.conf, e.cached, o)
  <2>1. Len(o) <= Len(e.order)
    BY <1>1, <1>2
  <2>2. Len(o) <= CacheSize
    BY <2>1, <1>1, <1>2 DEF AiBounds
  <2>. QED
    BY <2>2, <1>2 DEF Costs, Reach
<1>. QED
    BY <1>2, <1>3, OrderCosts DEF AI!Forget, o

\* A key that is named, or for which there is room, becomes the last of the list.
LEMMA Latest ==
  ASSUME AiBounds, NEW q \in Seq(Prompts), AI!IsInjective(q), Len(q) <= CacheSize,
         NEW k \in Prompts, k \in AI!ToSet(q) \/ Len(q) < CacheSize
  PROVE  /\ Append(AI!RemoveFirst(q, k), k) \in Seq(Prompts)
         /\ AI!IsInjective(Append(AI!RemoveFirst(q, k), k))
         /\ Len(Append(AI!RemoveFirst(q, k), k)) <= CacheSize
         /\ AI!ToSet(Append(AI!RemoveFirst(q, k), k)) = AI!ToSet(q) \union {k}
<1>. DEFINE w == AI!RemoveFirst(q, k)
            u == Append(w, k)
            n == Len(w)
<1>1. /\ w \in Seq(Prompts) /\ AI!IsInjective(w) /\ AI!ToSet(w) = AI!ToSet(q) \ {k}
      /\ Len(w) = IF k \in AI!ToSet(q) THEN Len(q) - 1 ELSE Len(q)
    BY OneLess
<1>. HIDE DEF w
<1>2. n \in Nat /\ n + 1 <= CacheSize
    BY <1>1 DEF AiBounds
<1>3. /\ u \in Seq(Prompts) /\ Len(u) = n + 1 /\ u[n + 1] = k /\ DOMAIN u = 1 .. n + 1
      /\ DOMAIN w = 1 .. n /\ \A i \in 1 .. n : u[i] = w[i]
    BY <1>1
<1>. HIDE DEF u, n
<1>4. \A i \in 1 .. n : w[i] # k
    BY <1>1, <1>3 DEF AI!ToSet
<1>5. \A i, j \in 1 .. n + 1 : u[i] = u[j] => i = j
  <2>1. SUFFICES ASSUME NEW i \in 1 .. n + 1, NEW j \in 1 .. n + 1, u[i] = u[j] PROVE i = j
    OBVIOUS
  <2>2. i \in 1 .. n \/ i = n + 1
    BY <1>2
  <2>3. j \in 1 .. n \/ j = n + 1
    BY <1>2
  <2>. QED
    BY <2>1, <2>2, <2>3, <1>1, <1>3, <1>4 DEF AI!IsInjective
<1>6. AI!ToSet(u) = AI!ToSet(q) \union {k}
  <2>1. AI!ToSet(u) = AI!ToSet(w) \union {k}
    <3>1. \A i \in 1 .. n + 1 : i \in 1 .. n \/ i = n + 1
        BY <1>2
    <3>2. 1 .. n \subseteq 1 .. n + 1 /\ n + 1 \in 1 .. n + 1
        BY <1>2
    <3>. QED
        BY <3>1, <3>2, <1>3 DEF AI!ToSet
  <2>. QED
    BY <2>1, <1>1
<1>. QED
    BY <1>2, <1>3, <1>5, <1>6 DEF AI!IsInjective, u, w

\* An entry is used.
LEMMA TouchedCosts ==
  ASSUME AiBounds, NEW d, NEW e, Costs(d, e), NEW k \in Prompts,
         d.conf.cache = "memory" => k \in AI!ToSet(e.order)
  PROVE  Costs(d, AI!Touched(e, k))
<1>. DEFINE o == IF d.conf.cache = "memory" THEN Append(AI!RemoveFirst(e.order, k), k)
                 ELSE e.order
<1>1. e.order \in Seq(Prompts) /\ AI!IsInjective(e.order) /\ Len(e.order) <= CacheSize
      /\ e.conf = d.conf
    BY DEF Costs, AiStates, Reach
<1>2. o \in Seq(Prompts) /\ Reach(d.conf, e.cached, o)
  <2>1. CASE d.conf.cache = "memory"
    BY <2>1, <1>1, Latest DEF Costs, Reach
  <2>2. CASE d.conf.cache # "memory"
    BY <2>2, <1>1 DEF Reach
  <2>. QED
    BY <2>1, <2>2
<1>3. AI!Touched(e, k) = [e EXCEPT !.order = o]
    BY <1>1 DEF AI!Touched
<1>. HIDE DEF o
<1>. QED
    BY <1>2, <1>3, OrderCosts

\* There is room, or room is made, for an entry.
LEMMA EvictedCosts ==
  ASSUME AiBounds, NEW d, NEW e, Costs(d, e), NEW k
  PROVE  /\ Costs(d, AI!Evicted(e, k))
         /\ d.conf.cache = "memory" =>
              \/ k \in AI!ToSet(AI!Evicted(e, k).order)
              \/ Len(AI!Evicted(e, k).order) < CacheSize
<1>. DEFINE q == e.order
<1>1. /\ e \in AiStates /\ e.conf = d.conf /\ q \in Seq(Prompts) /\ AI!IsInjective(q)
      /\ Len(q) \in Nat /\ Len(q) <= CacheSize /\ e.cached \subseteq Prompts \X {"good", "bad"}
    BY DEF Costs, AiStates, Reach
<1>2. AI!Contains(q, k) <=> k \in AI!ToSet(q)
    BY <1>1 DEF AI!Contains, AI!ToSet
<1>3. CASE d.conf.cache = "memory" /\ ~AI!Contains(q, k) /\ Len(q) >= CacheSize
  <2>. DEFINE o == Tail(q)
              x == {y \in e.cached : y[1] # Head(q)}
              g == [e EXCEPT !.order = o, !.cached = x]
  <2>1. AI!Evicted(e, k) = g
    BY <1>1, <1>3 DEF AI!Evicted, AiStates
  <2>2. /\ o \in Seq(Prompts) /\ Len(o) = Len(q) - 1 /\ DOMAIN o = 1 .. Len(q) - 1
        /\ \A i \in 1 .. Len(q) - 1 : o[i] = q[i + 1]
        /\ Head(q) = q[1] /\ DOMAIN q = 1 .. Len(q) /\ Len(q) >= 1
    BY <1>1, <1>3 DEF AiBounds
  <2>3. AI!IsInjective(o)
    <3>1. SUFFICES ASSUME NEW i \in 1 .. Len(q) - 1, NEW l \in 1 .. Len(q) - 1, o[i] = o[l]
                   PROVE  i = l
        BY <2>2 DEF AI!IsInjective
    <3>2. i + 1 \in 1 .. Len(q) /\ l + 1 \in 1 .. Len(q) /\ q[i + 1] = q[l + 1]
        BY <3>1, <2>2, <1>1
    <3>3. i + 1 = l + 1
        BY <3>2, <2>2, <1>1 DEF AI!IsInjective
    <3>. QED
        BY <3>3
  <2>4. \A y \in x : y[1] \in AI!ToSet(o)
    <3>1. SUFFICES ASSUME NEW y \in e.cached, y[1] # q[1]
                   PROVE  y[1] \in AI!ToSet(o)
        BY <2>2
    <3>2. PICK i \in 1 .. Len(q) : y[1] = q[i]
        BY <1>3, <2>2 DEF Costs, Reach, AI!ToSet
    <3>3. i - 1 \in 1 .. Len(q) - 1 /\ (i - 1) + 1 = i
        BY <3>1, <3>2, <1>1
    <3>. QED
        BY <3>2, <3>3, <2>2 DEF AI!ToSet
  <2>5. Reach(d.conf, x, o) /\ Len(o) < CacheSize
    BY <1>1, <2>2, <2>3, <2>4 DEF Reach, AiBounds
  <2>6. x \in SUBSET (Prompts \X {"good", "bad"})
    BY <1>1
  <2>. HIDE DEF o, x
  <2>7. /\ g.conf = e.conf /\ g.pc = e.pc /\ g.lane = e.lane /\ g.runs = e.runs
        /\ g.next = e.next /\ g.queue = e.queue /\ g.batch = e.batch /\ g.lock = e.lock
        /\ g.task = e.task /\ g.fut = e.fut /\ g.carried = e.carried /\ g.usage = e.usage
        /\ g.spent = e.spent /\ g.over = e.over /\ g.order = o /\ g.cached = x
    BY <1>1 DEF AiStates
  <2>8. g \in AiStates
    BY <1>1, <2>2, <2>6 DEF AiStates
  <2>. HIDE DEF g
  <2>9. Costs(d, g)
    BY <2>5, <2>7, <2>8 DEF Costs
  <2>. QED
    BY <2>1, <2>5, <2>7, <2>9
<1>4. CASE ~(d.conf.cache = "memory" /\ ~AI!Contains(q, k) /\ Len(q) >= CacheSize)
  <2>1. AI!Evicted(e, k) = e
    BY <1>1, <1>4 DEF AI!Evicted
  <2>. QED
    BY <2>1, <1>1, <1>2, <1>4 DEF AiBounds
<1>. QED
    BY <1>3, <1>4

\* An entry is stored, the last of the list.
LEMMA StoredCosts ==
  ASSUME AiBounds, NEW d, NEW e, Costs(d, e), NEW k \in Prompts, NEW answer \in {"good", "bad"}
  PROVE  Costs(d, AI!CacheSet(e, k, answer))
<1>. DEFINE v == AI!Evicted(e, k)
            x == {y \in v.cached : y[1] # k} \union {<<k, answer>>}
            g == [v EXCEPT !.cached = x]
            o == IF d.conf.cache = "memory" THEN Append(AI!RemoveFirst(v.order, k), k)
                 ELSE v.order
            h == [g EXCEPT !.order = o]
<1>1. /\ Costs(d, v) /\ e.conf = d.conf
      /\ d.conf.cache = "memory" => k \in AI!ToSet(v.order) \/ Len(v.order) < CacheSize
    BY EvictedCosts DEF Costs
<1>. HIDE DEF v
<1>2. /\ v \in AiStates /\ v.conf = d.conf /\ v.order \in Seq(Prompts)
      /\ AI!IsInjective(v.order) /\ Len(v.order) <= CacheSize
      /\ v.cached \subseteq Prompts \X {"good", "bad"}
    BY <1>1 DEF Costs, AiStates, Reach
<1>3. x \in SUBSET (Prompts \X {"good", "bad"})
    BY <1>2
<1>4. o \in Seq(Prompts) /\ Reach(d.conf, x, o)
  <2>1. CASE d.conf.cache = "memory"
    <3>1. /\ o \in Seq(Prompts) /\ AI!IsInjective(o) /\ Len(o) <= CacheSize
          /\ AI!ToSet(o) = AI!ToSet(v.order) \union {k}
        BY <2>1, <1>1, <1>2, Latest
    <3>2. \A y \in x : y[1] \in AI!ToSet(o)
        BY <2>1, <3>1, <1>1 DEF Costs, Reach
    <3>. QED
        BY <3>1, <3>2 DEF Reach
  <2>2. CASE d.conf.cache # "memory"
    BY <2>2, <1>2 DEF Reach
  <2>. QED
    BY <2>1, <2>2
<1>5. AI!CacheSet(e, k, answer) = e \/ AI!CacheSet(e, k, answer) = h
  <2>1. g.conf = d.conf /\ g.order = v.order
    BY <1>2 DEF AiStates
  <2>. QED
    BY <2>1, <1>1 DEF AI!CacheSet, AI!Touched, v
<1>. HIDE DEF x, o
<1>6. /\ h.conf = v.conf /\ h.pc = v.pc /\ h.lane = v.lane /\ h.runs = v.runs
      /\ h.next = v.next /\ h.queue = v.queue /\ h.batch = v.batch /\ h.lock = v.lock
      /\ h.task = v.task /\ h.fut = v.fut /\ h.carried = v.carried /\ h.usage = v.usage
      /\ h.spent = v.spent /\ h.over = v.over /\ h.order = o /\ h.cached = x
    BY <1>2 DEF AiStates
<1>7. h \in AiStates
    BY <1>2, <1>3, <1>4 DEF AiStates
<1>. HIDE DEF h
<1>8. Costs(d, h)
    BY <1>1, <1>4, <1>6, <1>7 DEF Costs
<1>. QED
    BY <1>5, <1>8

\* The tokens of a call are counted, or set apart when they are found too many.
LEMMA TokenCosts ==
  ASSUME AiBounds, NEW d, NEW e, Costs(d, e), NEW t \in 1 .. 2
  PROVE  /\ AI!Affordable(e, t) => Costs(d, AI!Counted([e EXCEPT !.spent = @ + t], t))
         /\ Costs(d, [[e EXCEPT !.spent = @ + t] EXCEPT !.over = @ + t])
<1>. DEFINE w == e.spent + t
            p == [e EXCEPT !.spent = w]
            u == IF d.conf.scope = "run" THEN e.usage + t ELSE e.usage
            g == [p EXCEPT !.usage = u]
            v == e.over + t
            h == [p EXCEPT !.over = v]
<1>1. e \in AiStates /\ t \in Nat /\ e.usage \in Nat /\ e.spent \in Nat /\ e.over \in Nat
      /\ e.conf = d.conf /\ e.carried \in Nat /\ e.carried = d.carried
    BY DEF Costs, AiStates
<1>2. w \in Nat /\ u \in Nat /\ v \in Nat
    BY <1>1
<1>3. AI!Affordable(e, t) => Purse(d.conf, u, w, e.over, d.carried)
    BY <1>1 DEF Costs, Purse, AI!Affordable
<1>4. Purse(d.conf, e.usage, w, v, d.carried)
    BY <1>1 DEF Costs, Purse
<1>5. [e EXCEPT !.spent = @ + t] = p
    OBVIOUS
<1>. HIDE DEF w
<1>6. /\ p \in AiStates /\ p.spent = w /\ p.conf = e.conf /\ p.pc = e.pc
      /\ p.lane = e.lane /\ p.runs = e.runs /\ p.next = e.next /\ p.queue = e.queue
      /\ p.batch = e.batch /\ p.lock = e.lock /\ p.task = e.task /\ p.fut = e.fut
      /\ p.carried = e.carried /\ p.usage = e.usage /\ p.cached = e.cached
      /\ p.order = e.order /\ p.over = e.over
    BY <1>1, <1>2 DEF AiStates
<1>. HIDE DEF p
<1>7. AI!Counted(p, t) = g /\ [p EXCEPT !.over = @ + t] = h
    BY <1>1, <1>6 DEF AI!Counted
<1>. HIDE DEF u, v
<1>8. AI!Affordable(e, t) => Costs(d, g)
  <2>1. /\ g \in AiStates /\ g.usage = u /\ g.spent = p.spent /\ g.conf = p.conf /\ g.pc = p.pc
        /\ g.lane = p.lane /\ g.runs = p.runs /\ g.next = p.next /\ g.queue = p.queue
        /\ g.batch = p.batch /\ g.lock = p.lock /\ g.task = p.task /\ g.fut = p.fut
        /\ g.carried = p.carried /\ g.cached = p.cached /\ g.order = p.order /\ g.over = p.over
    BY <1>2, <1>6 DEF AiStates
  <2>. HIDE DEF g
  <2>. QED
    BY <1>3, <1>6, <2>1 DEF Costs
<1>9. Costs(d, h)
  <2>1. /\ h \in AiStates /\ h.over = v /\ h.spent = p.spent /\ h.conf = p.conf
        /\ h.pc = p.pc /\ h.lane = p.lane /\ h.runs = p.runs /\ h.next = p.next
        /\ h.queue = p.queue /\ h.batch = p.batch /\ h.lock = p.lock /\ h.task = p.task
        /\ h.fut = p.fut /\ h.carried = p.carried /\ h.cached = p.cached /\ h.order = p.order
        /\ h.usage = p.usage
    BY <1>2, <1>6 DEF AiStates
  <2>. HIDE DEF h
  <2>. QED
    BY <1>4, <1>6, <2>1 DEF Costs
<1>. QED
    BY <1>5, <1>7, <1>8, <1>9

\* What a call costs.
LEMMA PaidCosts ==
  ASSUME AiBounds, NEW d, NEW e, Costs(d, e), NEW k \in Prompts, NEW c \in AI!Paid(e, k)
  PROVE  Costs(d, c.s) /\ c.ok \in BOOLEAN
<1>1. CASE c = AI!Failed(e)
    BY <1>1 DEF AI!Failed
<1>2. ASSUME NEW t \in 1 .. 2, NEW answer \in {"good", "bad"}, AI!Affordable(e, t),
             c = [s |-> AI!CacheSet(AI!Counted([e EXCEPT !.spent = @ + t], t), k, answer),
                  ok |-> answer = "good"]
      PROVE  Costs(d, c.s) /\ c.ok \in BOOLEAN
    BY <1>2, TokenCosts, StoredCosts
<1>3. ASSUME NEW t \in 1 .. 2,
             c = AI!Failed([[e EXCEPT !.spent = @ + t] EXCEPT !.over = @ + t])
      PROVE  Costs(d, c.s) /\ c.ok \in BOOLEAN
    BY <1>3, TokenCosts DEF AI!Failed
<1>. QED
    BY <1>1, <1>2, <1>3 DEF AI!Paid

\* A prompt is a sequence of contents.
LEMMA KeyIsPrompt ==
  ASSUME AiBounds, NEW batch \in Seq(AI!Recs)
  PROVE  AI!Key(batch) \in Prompts
<1>1. Len(batch) \in Nat /\ DOMAIN batch = 1 .. Len(batch)
      /\ \A i \in 1 .. Len(batch) : batch[i] \in AI!Recs
    OBVIOUS
<1>2. \A i \in 1 .. Len(batch) : AI!Content(batch[i]) \in Nat
    BY <1>1 DEF AI!Content, AI!Recs, AiBounds
<1>3. AI!Key(batch) \in [1 .. Len(batch) -> Nat]
    BY <1>1, <1>2 DEF AI!Key
<1>. QED
    BY <1>1, <1>3 DEF Prompts

\* An answer comes from the cache, or a call is made, or there is no budget for one.
LEMMA CompleteCosts ==
  ASSUME AiBounds, AiInv(s), NEW k \in Prompts
  PROVE  /\ \A c \in AI!Complete(k) : Costs(s, c.s) /\ c.ok \in BOOLEAN
         /\ ~AI!Cached(k) => Costs(s, AI!Forget(s, k))
<1>1. Costs(s, s)
    BY NoCosts
<1>2. ~AI!Cached(k) => Costs(s, AI!Forget(s, k))
    BY <1>1, ForgetCosts DEF AI!Cached, AI!Keys
<1>3. ASSUME AI!Cached(k), NEW c \in AI!Hit(k)
      PROVE  Costs(s, c.s) /\ c.ok \in BOOLEAN
  <2>1. PICK e \in s.cached : e[1] = k /\ c = [s |-> AI!Touched(s, k), ok |-> e[2] = "good"]
    BY <1>3 DEF AI!Hit
  <2>2. s.conf.cache = "memory" => k \in AI!ToSet(s.order)
    BY <2>1 DEF AiInv, Reach
  <2>. QED
    BY <2>1, <2>2, <1>1, TouchedCosts
<1>4. ASSUME ~AI!Cached(k), NEW c \in AI!Paid(AI!Forget(s, k), k)
      PROVE  Costs(s, c.s) /\ c.ok \in BOOLEAN
    BY <1>2, <1>4, PaidCosts
<1>5. ASSUME ~AI!Cached(k), NEW c, c = AI!Failed(AI!Forget(s, k))
      PROVE  Costs(s, c.s) /\ c.ok \in BOOLEAN
    BY <1>2, <1>5 DEF AI!Failed
<1>. QED
    BY <1>2, <1>3, <1>4, <1>5 DEF AI!Complete

-----------------------------------------------------------------------------
(* The steps.                                                              *)

\* Futures are answered.
LEMMA ResolvedFutures ==
  ASSUME NEW e, e \in AiStates, NEW recs, NEW value \in Futures
  PROVE  \E F \in [AI!Recs -> Futures] :
           /\ AI!Resolved(e, recs, value) = [e EXCEPT !.fut = F]
           /\ \A r \in AI!Recs :
                F[r] = IF r \in recs /\ e.fut[r] \in {"pending", "calling"} THEN value
                       ELSE e.fut[r]
<1>. DEFINE F == [r \in AI!Recs |-> IF r \in recs /\ e.fut[r] \in {"pending", "calling"}
                                    THEN value ELSE e.fut[r]]
<1>1. \A r \in AI!Recs : e.fut[r] \in Futures
    BY DEF AiStates
<1>2. F \in [AI!Recs -> Futures]
    BY <1>1
<1>3. AI!Resolved(e, recs, value) = [e EXCEPT !.fut = F]
    BY DEF AI!Resolved
<1>. QED
    BY <1>2, <1>3

\* What an error leaves a record with.
LEMMA ErrorAnswers ==
  ASSUME NEW policy
  PROVE  AI!OnError(policy) \in {"same", "gone", "error"}
BY DEF AI!OnError

\* What a call leaves a record with.
LEMMA OutcomeAnswers ==
  ASSUME AiInv(s), s.conf.kind # "batch", NEW c, NEW v \in AI!Outcomes(c)
  PROVE  v \in Futures \ {"none", "pending", "calling"}
<1>1. s.conf \in AI!Configs
    BY DEF AiInv, AiStates
<1>2. s.conf.kind \in {"enrich", "extract", "translate", "classify", "validate"}
    BY <1>1 DEF AI!Configs
<1>3. CASE ~c.ok
    BY <1>3, ErrorAnswers DEF AI!Outcomes, Futures
<1>4. CASE c.ok
    BY <1>2, <1>4
    DEF AI!Outcomes, AI!Enriched, AI!Extracted, AI!Translated, AI!Classified, AI!Validated, Futures
<1>. QED
    BY <1>3, <1>4

\* No task at work, no record.
LEMMA AllIdle ==
  /\ AI!Idle \in [AI!Flushers -> {"idle", "lock", "loop", "call", "dead"}]
  /\ AI!Idle["drain"] = "idle" /\ AI!Idle["timer"] = "idle"
  /\ \A f \in AI!Flushers : AI!Idle[f] \in {"loop", "call"} <=> "none" = f
  /\ <<>> \in Seq(AI!Recs) /\ <<>> \in Seq(Prompts)
<1>1. /\ AI!Idle \in [AI!Flushers -> {"idle", "lock", "loop", "call", "dead"}]
      /\ AI!Idle["drain"] = "idle" /\ AI!Idle["timer"] = "idle"
      /\ \A f \in AI!Flushers : AI!Idle[f] \in {"loop", "call"} <=> "none" = f
    BY DEF AI!Idle, AI!Flushers
<1>2. <<>> \in Seq(AI!Recs) /\ <<>> \in Seq(Prompts)
    OBVIOUS
<1>. QED
    BY <1>1, <1>2

\* A middleware that has never run.
LEMMA AiInit == ASSUME AiBounds, AI!Init PROVE AiInv(s)
<1>. DEFINE F == [r \in AI!Recs |-> "none"]
<1>1. PICK c \in AI!Configs :
        s = [conf |-> c, pc |-> "down", lane |-> "over", runs |-> 0, next |-> 1,
             queue |-> <<>>, batch |-> <<>>, lock |-> "none", task |-> AI!Idle,
             fut |-> F, usage |-> 0, cached |-> {}, order |-> <<>>,
             spent |-> 0, over |-> 0, carried |-> 0]
    BY DEF AI!Init, AiBounds
<1>2. F \in [AI!Recs -> Futures] /\ \A r \in AI!Recs : F[r] = "none"
    BY DEF Futures
<1>. HIDE DEF F
<1>3. s \in AiStates
    BY <1>1, <1>2, AllIdle DEF AiStates
<1>4. Purse(c, 0, 0, 0, 0) /\ Reach(c, {}, <<>>)
    BY DEF Purse, Reach, AI!IsInjective, AiBounds
<1>5. Desk(c, "down", "over", <<>>, <<>>, "none", AI!Idle, F)
    BY <1>2, AllIdle DEF Desk
<1>6. /\ s.conf = c /\ s.pc = "down" /\ s.lane = "over" /\ s.queue = <<>> /\ s.batch = <<>>
      /\ s.lock = "none" /\ s.task = AI!Idle /\ s.fut = F /\ s.usage = 0 /\ s.cached = {}
      /\ s.order = <<>> /\ s.spent = 0 /\ s.over = 0 /\ s.carried = 0
    BY <1>1
<1>. QED
    BY <1>3, <1>4, <1>5, <1>6 DEF AiInv

\* A run starts, from an unused budget but for a batch middleware's.
LEMMA AiOnStart == ASSUME AiBounds, AiInv(s), AI!OnStart PROVE AiInv(s')
<1>. DEFINE u == AI!ResetUsage(s.conf, s.usage)
            F == [r \in AI!Recs |-> "none"]
            g == [s EXCEPT !.pc = "up", !.lane = "submits", !.runs = @ + 1, !.next = 1,
                           !.queue = <<>>, !.batch = <<>>, !.lock = "none", !.task = AI!Idle,
                           !.fut = F, !.usage = u, !.spent = 0, !.over = 0, !.carried = u]
<1>1. s \in AiStates /\ s' = g
    BY DEF AiInv, AI!OnStart
<1>2. u \in Nat /\ (s.conf.scope = "run" =>
                      u <= MaxTokens /\ (s.conf.kind # "batch" => u = 0))
    BY <1>1 DEF AI!ResetUsage, AiInv, Purse, AiBounds, AiStates
<1>3. s.runs + 1 \in Nat
    BY <1>1 DEF AiStates
<1>4. F \in [AI!Recs -> Futures] /\ \A r \in AI!Recs : F[r] = "none"
    BY DEF Futures
<1>. HIDE DEF u, F
<1>5. /\ s'.conf = s.conf /\ s'.pc = "up" /\ s'.lane = "submits" /\ s'.lock = "none"
      /\ s'.queue = <<>> /\ s'.batch = <<>> /\ s'.task = AI!Idle /\ s'.fut = F /\ s'.usage = u /\ s'.spent = 0 /\ s'.over = 0
      /\ s'.carried = u /\ s'.cached = s.cached /\ s'.order = s.order
    BY <1>1 DEF AiStates
<1>6. s' \in AiStates
    BY <1>1, <1>2, <1>3, <1>4, AllIdle DEF AiStates
<1>7. Purse(s'.conf, s'.usage, s'.spent, s'.over, s'.carried)
    BY <1>2, <1>5 DEF Purse
<1>8. Reach(s'.conf, s'.cached, s'.order)
    BY <1>5 DEF AiInv
<1>9. Desk(s.conf, "up", "submits", <<>>, <<>>, "none", AI!Idle, F)
    BY <1>4, AllIdle DEF Desk
<1>. QED
    BY <1>5, <1>6, <1>7, <1>8, <1>9 DEF AiInv

\* A call's record gets its answer, or is waiting for it.
LEMMA AiAnswer ==
  ASSUME AiBounds, AiInv(s), NEW e, Costs(s, e), NEW r \in AI!Recs, s.lane # "over",
         NEW v \in Futures \ {"pending"}, v = "calling" => s.conf.kind # "batch",
         AI!Answer(e, r, v)
  PROVE  AiInv(s')
<1>. DEFINE n == IF r = e.next THEN e.next + 1 ELSE e.next
            F == [e.fut EXCEPT ![r] = v]
            g == [e EXCEPT !.next = n, !.fut = F]
<1>1. e \in AiStates /\ s \in AiStates /\ s' = g
    BY DEF Costs, AiInv, AI!Answer
<1>2. n \in Nat /\ F \in [AI!Recs -> Futures] /\ F[r] = v
      /\ \A q \in AI!Recs : q # r => F[q] = s.fut[q]
    BY <1>1 DEF AiStates, Costs
<1>. HIDE DEF n, F
<1>3. /\ s'.conf = e.conf /\ s'.pc = e.pc /\ s'.lane = e.lane /\ s'.queue = e.queue
      /\ s'.batch = e.batch /\ s'.lock = e.lock /\ s'.task = e.task /\ s'.fut = F
      /\ s'.usage = e.usage /\ s'.spent = e.spent /\ s'.over = e.over
      /\ s'.carried = e.carried /\ s'.cached = e.cached /\ s'.order = e.order
    BY <1>1 DEF AiStates
<1>4. s' \in AiStates
    BY <1>1, <1>2 DEF AiStates
<1>5. /\ Purse(s'.conf, s'.usage, s'.spent, s'.over, s'.carried)
      /\ Reach(s'.conf, s'.cached, s'.order)
    BY <1>3 DEF Costs
<1>6. Desk(s.conf, s.pc, s.lane, s.queue, s.batch, s.lock, s.task, F)
    BY <1>2 DEF AiInv, Desk
<1>7. Desk(s'.conf, s'.pc, s'.lane, s'.queue, s'.batch, s'.lock, s'.task, s'.fut)
    BY <1>3, <1>6 DEF Costs
<1>. QED
    BY <1>4, <1>5, <1>7 DEF AiInv

\* process() of a middleware that makes a call for each record.
LEMMA AiProcess == ASSUME AiBounds, AiInv(s), AI!Process PROVE AiInv(s')
<1>. DEFINE r == s.next
            k == AI!Key(<<r>>)
<1>1. s.conf.kind # "batch" /\ s.lane # "over" /\ r \in AI!Recs
    BY DEF AI!Process
<1>2. k \in Prompts
  <2>1. <<r>> \in Seq(AI!Recs)
    BY <1>1
  <2>. QED
    BY <2>1, KeyIsPrompt
<1>. HIDE DEF k
<1>3. CASE AI!Answer(s, r, "same")
    BY <1>1, <1>3, NoCosts, AiAnswer DEF Futures
<1>4. CASE ~AI!Cached(k) /\ AI!Answer(AI!Forget(s, k), r, "calling")
    BY <1>1, <1>2, <1>4, CompleteCosts, AiAnswer DEF Futures
<1>5. ASSUME NEW c \in AI!Complete(k), NEW v \in AI!Outcomes(c), AI!Answer(c.s, r, v)
      PROVE  AiInv(s')
  <2>1. Costs(s, c.s)
    BY <1>2, CompleteCosts
  <2>2. v \in Futures \ {"none", "pending", "calling"}
    BY <1>1, OutcomeAnswers
  <2>. QED
    BY <2>1, <2>2, <1>1, <1>5, AiAnswer
<1>. QED
    BY <1>3, <1>4, <1>5 DEF AI!Process, k

\* What follows the await of the provider.
LEMMA AiReturns ==
  ASSUME AiBounds, AiInv(s), NEW r \in AI!Recs, AI!Returns(r)
  PROVE  AiInv(s')
<1>. DEFINE k == AI!Key(<<r>>)
<1>1. s.fut[r] = "calling"
    BY DEF AI!Returns
<1>2. s.conf.kind # "batch" /\ s.lane # "over"
    BY <1>1 DEF AiInv, Desk
<1>3. PICK c \in AI!Paid(s, k) : \E v \in AI!Outcomes(c) : AI!Answer(c.s, r, v)
    BY DEF AI!Returns
<1>4. PICK v \in AI!Outcomes(c) : AI!Answer(c.s, r, v)
    BY <1>3
<1>5. k \in Prompts
  <2>1. <<r>> \in Seq(AI!Recs)
    OBVIOUS
  <2>. QED
    BY <2>1, KeyIsPrompt
<1>. HIDE DEF k
<1>6. Costs(s, c.s)
    BY <1>5, NoCosts, PaidCosts
<1>7. v \in Futures \ {"none", "pending", "calling"}
    BY <1>2, OutcomeAnswers
<1>. QED
    BY <1>2, <1>4, <1>6, <1>7, AiAnswer

\* Between two states that differ in the desk alone.
LEMMA DeskMoves ==
  ASSUME AiInv(s), s' \in AiStates, s'.conf = s.conf, s'.usage = s.usage, s'.spent = s.spent,
         s'.over = s.over, s'.carried = s.carried, s'.cached = s.cached, s'.order = s.order,
         Desk(s.conf, s'.pc, s'.lane, s'.queue, s'.batch, s'.lock, s'.task, s'.fut)
  PROVE  AiInv(s')
BY DEF AiInv

\* A record joins the queue, and may start the task that flushes a full batch.
LEMMA AiSubmit == ASSUME AiBounds, AiInv(s), AI!Submit PROVE AiInv(s')
<1>. DEFINE r == s.next
            n == s.next + 1
            F == [s.fut EXCEPT ![r] = "pending"]
            q == Append(s.queue, r)
            T == IF Len(q) >= AiBatchSize /\ s.task["size"] = "idle"
                 THEN [s.task EXCEPT !["size"] = "lock"] ELSE s.task
            g == [s EXCEPT !.next = n, !.fut = F, !.queue = q, !.task = T]
<1>1. s \in AiStates /\ r \in AI!Recs /\ s.lane = "submits" /\ s.conf.kind = "batch"
    BY DEF AiInv, AI!Submit
<1>2. s' = g
  <2>. DEFINE w == [s EXCEPT !.next = @ + 1, !.fut[s.next] = "pending",
                             !.queue = Append(@, s.next)]
  <2>1. w.queue = q /\ w.task = s.task
    BY <1>1 DEF AiStates
  <2>2. s' = IF Len(w.queue) >= AiBatchSize /\ s.task["size"] = "idle"
             THEN [w EXCEPT !.task["size"] = "lock"] ELSE w
    BY DEF AI!Submit
  <2>3. [w EXCEPT !.task["size"] = "lock"] =
          [s EXCEPT !.next = n, !.fut = F, !.queue = q,
                    !.task = [s.task EXCEPT !["size"] = "lock"]]
    BY <1>1 DEF AiStates
  <2>4. w = [s EXCEPT !.next = n, !.fut = F, !.queue = q, !.task = s.task]
    BY <1>1 DEF AiStates
  <2>. HIDE DEF w
  <2>. QED
    BY <2>1, <2>2, <2>3, <2>4
<1>3. /\ n \in Nat /\ F \in [AI!Recs -> Futures] /\ F[r] = "pending"
      /\ \A x \in AI!Recs : x # r => F[x] = s.fut[x]
    BY <1>1 DEF AiStates, Futures
<1>4. q \in Seq(AI!Recs) /\ AI!Contains(q, r)
      /\ \A x : AI!Contains(s.queue, x) => AI!Contains(q, x)
  <2>1. s.queue \in Seq(AI!Recs)
    BY <1>1 DEF AiStates
  <2>2. /\ q \in Seq(AI!Recs) /\ Len(q) = Len(s.queue) + 1 /\ q[Len(s.queue) + 1] = r
        /\ \A i \in 1 .. Len(s.queue) : q[i] = s.queue[i]
        /\ Len(s.queue) \in Nat
    BY <2>1, <1>1
  <2>. QED
    BY <2>2 DEF AI!Contains
<1>5. /\ T \in [AI!Flushers -> {"idle", "lock", "loop", "call", "dead"}]
      /\ \A f \in AI!Flushers : T[f] = s.task[f] \/ (s.task[f] = "idle" /\ T[f] = "lock")
      /\ T["drain"] = s.task["drain"] /\ T["timer"] = s.task["timer"]
    BY <1>1 DEF AiStates, AI!Flushers
<1>. HIDE DEF n, F, q, T
<1>6. /\ s'.conf = s.conf /\ s'.pc = s.pc /\ s'.lane = s.lane /\ s'.queue = q
      /\ s'.batch = s.batch /\ s'.lock = s.lock /\ s'.task = T /\ s'.fut = F
      /\ s'.usage = s.usage /\ s'.spent = s.spent /\ s'.over = s.over
      /\ s'.carried = s.carried /\ s'.cached = s.cached /\ s'.order = s.order
    BY <1>1, <1>2 DEF AiStates
<1>7. s' \in AiStates
    BY <1>1, <1>2, <1>3, <1>4, <1>5 DEF AiStates
<1>8. Desk(s.conf, s.pc, s.lane, q, s.batch, s.lock, T, F)
  <2>1. Desk(s.conf, s.pc, s.lane, s.queue, s.batch, s.lock, s.task, s.fut)
        /\ s.lock \in {"none"} \union AI!Flushers
    BY <1>1 DEF AiInv, AiStates
  <2>2. \A x \in AI!Recs : Waits(x, s.queue, s.batch, s.lock, s.task)
                             => Waits(x, q, s.batch, s.lock, T)
    BY <2>1, <1>4, <1>5 DEF Waits
  <2>3. Waits(r, q, s.batch, s.lock, T)
    BY <1>4 DEF Waits
  <2>4. \A f \in AI!Flushers : T[f] \in {"loop", "call"} <=> s.lock = f
    BY <2>1, <1>5 DEF Desk
  <2>. QED
    BY <2>1, <2>2, <2>3, <2>4, <1>1, <1>3, <1>5 DEF Desk
<1>. QED
    BY <1>6, <1>7, <1>8, DeskMoves

\* The lane drains the stage.
LEMMA AiDrain == ASSUME AiBounds, AiInv(s), AI!Drain PROVE AiInv(s')
<1>. DEFINE T == [s.task EXCEPT !["drain"] = IF s.queue = <<>> THEN @ ELSE "lock"]
            g == [s EXCEPT !.lane = "drains", !.task = T]
<1>1. s \in AiStates /\ s.lane = "submits" /\ s' = g
    BY DEF AiInv, AI!Drain
<1>2. Desk(s.conf, s.pc, s.lane, s.queue, s.batch, s.lock, s.task, s.fut)
    BY DEF AiInv
<1>3. /\ T \in [AI!Flushers -> {"idle", "lock", "loop", "call", "dead"}]
      /\ \A f \in AI!Flushers : f # "drain" => T[f] = s.task[f]
      /\ T["drain"] \in {"lock", s.task["drain"]}
      /\ "drain" \in AI!Flushers /\ "timer" \in AI!Flushers
    BY <1>1 DEF AiStates, AI!Flushers
<1>. HIDE DEF T
<1>4. /\ s'.conf = s.conf /\ s'.pc = s.pc /\ s'.lane = "drains" /\ s'.queue = s.queue
      /\ s'.batch = s.batch /\ s'.lock = s.lock /\ s'.task = T /\ s'.fut = s.fut
      /\ s'.usage = s.usage /\ s'.spent = s.spent /\ s'.over = s.over
      /\ s'.carried = s.carried /\ s'.cached = s.cached /\ s'.order = s.order
    BY <1>1 DEF AiStates
<1>5. s' \in AiStates
    BY <1>1, <1>3 DEF AiStates
<1>6. s.task["drain"] = "idle" /\ s.lock # "drain"
    BY <1>1, <1>2, <1>3 DEF Desk
<1>7. s.lock # "none" => T[s.lock] = s.task[s.lock]
    BY <1>1, <1>3, <1>6 DEF AiStates
<1>8. Desk(s.conf, s.pc, "drains", s.queue, s.batch, s.lock, T, s.fut)
    BY <1>1, <1>2, <1>3, <1>6, <1>7 DEF Desk, Waits
<1>. QED
    BY <1>4, <1>5, <1>8, DeskMoves

\* The lane has all its answers.
LEMMA AiLaneEnds == ASSUME AiBounds, AiInv(s), AI!LaneEnds PROVE AiInv(s')
<1>1. s \in AiStates /\ s' = [s EXCEPT !.lane = "over"] /\ s.task["drain"] = "idle"
      /\ \A r \in AI!Recs : s.fut[r] \notin {"pending", "calling"}
    BY DEF AiInv, AI!LaneEnds, AI!Answered
<1>2. /\ s'.conf = s.conf /\ s'.pc = s.pc /\ s'.lane = "over" /\ s'.queue = s.queue
      /\ s'.batch = s.batch /\ s'.lock = s.lock /\ s'.task = s.task /\ s'.fut = s.fut
      /\ s'.usage = s.usage /\ s'.spent = s.spent /\ s'.over = s.over
      /\ s'.carried = s.carried /\ s'.cached = s.cached /\ s'.order = s.order
    BY <1>1 DEF AiStates
<1>3. s' \in AiStates
    BY <1>1 DEF AiStates
<1>4. Desk(s.conf, s.pc, "over", s.queue, s.batch, s.lock, s.task, s.fut)
    BY <1>1 DEF AiInv, Desk
<1>. QED
    BY <1>2, <1>3, <1>4, DeskMoves

\* The lane gives up.
LEMMA AiLaneAborts == ASSUME AiBounds, AiInv(s), AI!LaneAborts PROVE AiInv(s')
<1>1. PICK F \in [AI!Recs -> Futures] :
        /\ AI!Resolved(s, AI!Recs, "cancelled") = [s EXCEPT !.fut = F]
        /\ \A r \in AI!Recs :
             F[r] = IF r \in AI!Recs /\ s.fut[r] \in {"pending", "calling"} THEN "cancelled"
                    ELSE s.fut[r]
  <2>1. s \in AiStates /\ "cancelled" \in Futures
    BY DEF AiInv, Futures
  <2>. QED
    BY <2>1, ResolvedFutures
<1>. DEFINE L == IF s.lock = "drain" THEN "none" ELSE s.lock
            B == IF s.lock = "drain" THEN <<>> ELSE s.batch
            T == [s.task EXCEPT !["drain"] = "idle"]
            g == [s EXCEPT !.fut = F, !.lane = "over", !.lock = L, !.batch = B, !.task = T]
<1>2. s \in AiStates
    BY DEF AiInv
<1>3. s' = g
  <2>. DEFINE w == [s EXCEPT !.fut = F]
  <2>1. w.lock = s.lock /\ w.batch = s.batch /\ w.task = s.task
    BY <1>2 DEF AiStates
  <2>2. s' = [w EXCEPT !.lane = "over", !.lock = IF @ = "drain" THEN "none" ELSE @,
                       !.batch = IF s.lock = "drain" THEN <<>> ELSE @, !.task["drain"] = "idle"]
    BY <1>1 DEF AI!LaneAborts
  <2>3. s' = [w EXCEPT !.lane = "over", !.lock = L, !.batch = B, !.task = T]
    BY <2>1, <2>2
  <2>. QED
    BY <2>3, <1>2 DEF AiStates
<1>4. Desk(s.conf, s.pc, s.lane, s.queue, s.batch, s.lock, s.task, s.fut)
    BY DEF AiInv
<1>5. /\ L \in {"none"} \union AI!Flushers /\ B \in Seq(AI!Recs)
      /\ T \in [AI!Flushers -> {"idle", "lock", "loop", "call", "dead"}]
      /\ T["drain"] = "idle" /\ \A f \in AI!Flushers : f # "drain" => T[f] = s.task[f]
      /\ "drain" \in AI!Flushers /\ "timer" \in AI!Flushers
    BY <1>2 DEF AiStates, AI!Flushers
<1>6. \A f \in AI!Flushers : T[f] \in {"loop", "call"} <=> L = f
    BY <1>4, <1>5 DEF Desk, AI!Flushers
<1>. HIDE DEF L, B, T
<1>7. /\ s'.conf = s.conf /\ s'.pc = s.pc /\ s'.lane = "over" /\ s'.queue = s.queue
      /\ s'.batch = B /\ s'.lock = L /\ s'.task = T /\ s'.fut = F
      /\ s'.usage = s.usage /\ s'.spent = s.spent /\ s'.over = s.over
      /\ s'.carried = s.carried /\ s'.cached = s.cached /\ s'.order = s.order
    BY <1>2, <1>3 DEF AiStates
<1>8. s' \in AiStates
    BY <1>1, <1>2, <1>3, <1>5 DEF AiStates
<1>9. \A r \in AI!Recs : F[r] \notin {"pending", "calling"}
    BY <1>1
<1>10. Desk(s.conf, s.pc, "over", s.queue, B, L, T, F)
    BY <1>4, <1>5, <1>6, <1>9 DEF Desk
<1>. QED
    BY <1>7, <1>8, <1>10, DeskMoves

\* The timer's turn.
LEMMA AiTimerFires == ASSUME AiBounds, AiInv(s), AI!TimerFires PROVE AiInv(s')
<1>. DEFINE T == [s.task EXCEPT !["timer"] = "lock"]
<1>1. s \in AiStates /\ s.task["timer"] = "idle" /\ s' = [s EXCEPT !.task = T]
    BY DEF AiInv, AI!TimerFires
<1>2. Desk(s.conf, s.pc, s.lane, s.queue, s.batch, s.lock, s.task, s.fut)
    BY DEF AiInv
<1>3. /\ T \in [AI!Flushers -> {"idle", "lock", "loop", "call", "dead"}]
      /\ \A f \in AI!Flushers : f # "timer" => T[f] = s.task[f]
      /\ T["timer"] = "lock" /\ T["drain"] = s.task["drain"]
      /\ "drain" \in AI!Flushers /\ "timer" \in AI!Flushers
    BY <1>1 DEF AiStates, AI!Flushers
<1>. HIDE DEF T
<1>4. /\ s'.conf = s.conf /\ s'.pc = s.pc /\ s'.lane = s.lane /\ s'.queue = s.queue
      /\ s'.batch = s.batch /\ s'.lock = s.lock /\ s'.task = T /\ s'.fut = s.fut
      /\ s'.usage = s.usage /\ s'.spent = s.spent /\ s'.over = s.over
      /\ s'.carried = s.carried /\ s'.cached = s.cached /\ s'.order = s.order
    BY <1>1 DEF AiStates
<1>5. s' \in AiStates
    BY <1>1, <1>3 DEF AiStates
<1>6. s.lock # "timer"
    BY <1>1, <1>2, <1>3 DEF Desk
<1>7. s.lock # "none" => T[s.lock] = s.task[s.lock]
    BY <1>1, <1>3, <1>6 DEF AiStates
<1>8. Desk(s.conf, s.pc, s.lane, s.queue, s.batch, s.lock, T, s.fut)
    BY <1>2, <1>3, <1>1, <1>6, <1>7 DEF Desk, Waits
<1>. QED
    BY <1>4, <1>5, <1>8, DeskMoves

\* A task gets the lock.
LEMMA AiAcquire ==
  ASSUME AiBounds, AiInv(s), NEW f \in AI!Flushers, AI!Acquire(f)
  PROVE  AiInv(s')
<1>. DEFINE T == [s.task EXCEPT ![f] = "loop"]
<1>1. s \in AiStates /\ s.task[f] = "lock" /\ s.lock = "none"
      /\ s' = [s EXCEPT !.lock = f, !.task = T]
    BY DEF AiInv, AI!Acquire
<1>2. Desk(s.conf, s.pc, s.lane, s.queue, s.batch, s.lock, s.task, s.fut)
    BY DEF AiInv
<1>3. /\ T \in [AI!Flushers -> {"idle", "lock", "loop", "call", "dead"}] /\ T[f] = "loop"
      /\ \A x \in AI!Flushers : x # f => T[x] = s.task[x]
      /\ "drain" \in AI!Flushers /\ "timer" \in AI!Flushers
    BY <1>1 DEF AiStates, AI!Flushers
<1>. HIDE DEF T
<1>4. /\ s'.conf = s.conf /\ s'.pc = s.pc /\ s'.lane = s.lane /\ s'.queue = s.queue
      /\ s'.batch = s.batch /\ s'.lock = f /\ s'.task = T /\ s'.fut = s.fut
      /\ s'.usage = s.usage /\ s'.spent = s.spent /\ s'.over = s.over
      /\ s'.carried = s.carried /\ s'.cached = s.cached /\ s'.order = s.order
    BY <1>1 DEF AiStates
<1>5. s' \in AiStates
    BY <1>1, <1>3 DEF AiStates
<1>6. \A x \in AI!Flushers : x # "none"
    BY DEF AI!Flushers
<1>7. \A x \in AI!Flushers : T[x] \in {"loop", "call"} <=> f = x
    BY <1>1, <1>2, <1>3, <1>6 DEF Desk
<1>8. \A r \in AI!Recs : Waits(r, s.queue, s.batch, s.lock, s.task)
                           => Waits(r, s.queue, s.batch, f, T)
    BY <1>1 DEF Waits
<1>9. Desk(s.conf, s.pc, s.lane, s.queue, s.batch, f, T, s.fut)
    BY <1>1, <1>2, <1>3, <1>7, <1>8 DEF Desk
<1>. QED
    BY <1>4, <1>5, <1>9, DeskMoves

\* Whoever stands in a queue stands in one of its two parts.
LEMMA TwoParts ==
  ASSUME NEW S, NEW q \in Seq(S), NEW n \in 1 .. Len(q)
  PROVE  /\ SubSeq(q, 1, n) \in Seq(S) /\ SubSeq(q, n + 1, Len(q)) \in Seq(S)
         /\ \A r : AI!Contains(q, r) =>
              AI!Contains(SubSeq(q, 1, n), r) \/ AI!Contains(SubSeq(q, n + 1, Len(q)), r)
<1>. DEFINE m == Len(q)
            a == SubSeq(q, 1, n)
            b == SubSeq(q, n + 1, m)
<1>1. m \in Nat /\ n \in Nat /\ 1 <= n /\ n <= m /\ \A i \in 1 .. m : q[i] \in S
    OBVIOUS
<1>2. /\ a \in Seq(S) /\ Len(a) = IF 1 <= n THEN n - 1 + 1 ELSE 0
      /\ \A i \in 1 .. n - 1 + 1 : a[i] = q[1 + i - 1]
  <2>1. 1 \in Int /\ n \in Int /\ \A i \in 1 .. n : q[i] \in S
    BY <1>1
  <2>. QED
    BY <2>1, SubSeqProperties
<1>3. /\ b \in Seq(S) /\ Len(b) = IF n + 1 <= m THEN m - (n + 1) + 1 ELSE 0
      /\ \A i \in 1 .. m - (n + 1) + 1 : b[i] = q[(n + 1) + i - 1]
  <2>1. n + 1 \in Int /\ m \in Int /\ \A i \in n + 1 .. m : q[i] \in S
    BY <1>1
  <2>. QED
    BY <2>1, SubSeqProperties
<1>. HIDE DEF a, b
<1>4. Len(a) = n /\ \A i \in 1 .. n : a[i] = q[i]
  <2>1. \A i \in 1 .. n : i \in 1 .. n - 1 + 1 /\ 1 + i - 1 = i
    BY <1>1
  <2>. QED
    BY <1>1, <1>2, <2>1
<1>5. Len(b) = m - n /\ \A i \in 1 .. m - n : b[i] = q[n + i]
  <2>1. \A i \in 1 .. m - n : i \in 1 .. m - (n + 1) + 1 /\ (n + 1) + i - 1 = n + i
    BY <1>1
  <2>. QED
    BY <1>1, <1>3, <2>1
<1>6. ASSUME NEW r, AI!Contains(q, r) PROVE AI!Contains(a, r) \/ AI!Contains(b, r)
  <2>1. PICK i \in 1 .. m : q[i] = r
    BY <1>6 DEF AI!Contains
  <2>2. CASE i <= n
    <3>1. i \in 1 .. n
        BY <2>2, <1>1
    <3>. QED
        BY <3>1, <2>1, <1>4 DEF AI!Contains
  <2>3. CASE ~(i <= n)
    <3>1. i - n \in 1 .. m - n /\ n + (i - n) = i
        BY <2>3, <1>1
    <3>. QED
        BY <3>1, <2>1, <1>5 DEF AI!Contains
  <2>. QED
    BY <2>2, <2>3
<1>. QED
    BY <1>2, <1>3, <1>6 DEF a, b

\* A flush takes a batch, or is done.
LEMMA AiFlushLoop ==
  ASSUME AiBounds, AiInv(s), NEW f \in AI!Flushers, AI!FlushLoop(f)
  PROVE  AiInv(s')
<1>1. s \in AiStates /\ s.lock = f /\ s.task[f] = "loop" /\ f # "none"
    BY DEF AiInv, AI!FlushLoop, AI!Flushers
<1>2. Desk(s.conf, s.pc, s.lane, s.queue, s.batch, s.lock, s.task, s.fut)
    BY DEF AiInv
<1>3. \A r \in AI!Recs : Waits(r, s.queue, s.batch, s.lock, s.task) => AI!Contains(s.queue, r)
    BY <1>1 DEF Waits
<1>4. "drain" \in AI!Flushers /\ "timer" \in AI!Flushers
    BY DEF AI!Flushers
<1>5. CASE s' = AI!Released(s, f, "idle")
  <2>. DEFINE T == [s.task EXCEPT ![f] = "idle"]
  <2>1. s' = [s EXCEPT !.lock = "none", !.batch = <<>>, !.task = T]
    BY <1>5 DEF AI!Released
  <2>2. /\ T \in [AI!Flushers -> {"idle", "lock", "loop", "call", "dead"}] /\ T[f] = "idle"
        /\ \A x \in AI!Flushers : x # f => T[x] = s.task[x]
    BY <1>1 DEF AiStates
  <2>. HIDE DEF T
  <2>3. /\ s'.conf = s.conf /\ s'.pc = s.pc /\ s'.lane = s.lane /\ s'.queue = s.queue
        /\ s'.batch = <<>> /\ s'.lock = "none" /\ s'.task = T /\ s'.fut = s.fut
        /\ s'.usage = s.usage /\ s'.spent = s.spent /\ s'.over = s.over
        /\ s'.carried = s.carried /\ s'.cached = s.cached /\ s'.order = s.order
    BY <1>1, <2>1 DEF AiStates
  <2>4. s' \in AiStates
    BY <1>1, <2>1, <2>2, AllIdle DEF AiStates
  <2>5. \A x \in AI!Flushers : T[x] \in {"loop", "call"} <=> "none" = x
    <3>1. \A x \in AI!Flushers : x # "none"
        BY DEF AI!Flushers
    <3>. QED
        BY <3>1, <1>1, <1>2, <2>2 DEF Desk
  <2>6. \A r \in AI!Recs : Waits(r, s.queue, s.batch, s.lock, s.task)
                             => Waits(r, s.queue, <<>>, "none", T)
    BY <1>3 DEF Waits
  <2>7. Desk(s.conf, s.pc, s.lane, s.queue, <<>>, "none", T, s.fut)
    BY <1>1, <1>2, <1>4, <2>2, <2>5, <2>6 DEF Desk
  <2>. QED
    BY <2>3, <2>4, <2>7, DeskMoves
<1>6. CASE s' # AI!Released(s, f, "idle")
  <2>. DEFINE n == IF Len(s.queue) < AiBatchSize THEN Len(s.queue) ELSE AiBatchSize
              a == SubSeq(s.queue, 1, n)
              b == SubSeq(s.queue, n + 1, Len(s.queue))
              T == [s.task EXCEPT ![f] = "call"]
  <2>1. s' = [s EXCEPT !.batch = a, !.queue = b, !.task = T] /\ s.queue # <<>>
    BY <1>6 DEF AI!FlushLoop
  <2>2. s.queue \in Seq(AI!Recs) /\ n \in 1 .. Len(s.queue)
    <3>1. s.queue \in Seq(AI!Recs) /\ Len(s.queue) \in Nat /\ Len(s.queue) # 0
        BY <1>1, <2>1 DEF AiStates
    <3>. QED
        BY <3>1 DEF AiBounds
  <2>. HIDE DEF n
  <2>3. /\ a \in Seq(AI!Recs) /\ b \in Seq(AI!Recs)
        /\ \A r : AI!Contains(s.queue, r) => AI!Contains(a, r) \/ AI!Contains(b, r)
    BY <2>2, TwoParts
  <2>4. /\ T \in [AI!Flushers -> {"idle", "lock", "loop", "call", "dead"}] /\ T[f] = "call"
        /\ \A x \in AI!Flushers : x # f => T[x] = s.task[x]
    BY <1>1 DEF AiStates
  <2>. HIDE DEF a, b, T
  <2>5. /\ s'.conf = s.conf /\ s'.pc = s.pc /\ s'.lane = s.lane /\ s'.queue = b
        /\ s'.batch = a /\ s'.lock = s.lock /\ s'.task = T /\ s'.fut = s.fut
        /\ s'.usage = s.usage /\ s'.spent = s.spent /\ s'.over = s.over
        /\ s'.carried = s.carried /\ s'.cached = s.cached /\ s'.order = s.order
    BY <1>1, <2>1 DEF AiStates
  <2>6. s' \in AiStates
    BY <1>1, <2>1, <2>3, <2>4 DEF AiStates
  <2>7. \A x \in AI!Flushers : T[x] \in {"loop", "call"} <=> s.lock = x
    BY <1>1, <1>2, <2>4 DEF Desk
  <2>8. \A r \in AI!Recs : Waits(r, s.queue, s.batch, s.lock, s.task)
                             => Waits(r, b, a, s.lock, T)
    BY <1>1, <1>3, <2>3, <2>4 DEF Waits
  <2>9. Desk(s.conf, s.pc, s.lane, b, a, s.lock, T, s.fut)
    BY <1>1, <1>2, <1>4, <2>4, <2>7, <2>8 DEF Desk
  <2>. QED
    BY <2>5, <2>6, <2>9, DeskMoves
<1>. QED
    BY <1>5, <1>6

\* A batch has its answer: of the records that still wait, none was in it.
LEMMA AiAnswered ==
  ASSUME AiBounds, AiInv(s), NEW f \in AI!Flushers, s.lock = f, s.task[f] = "call",
         NEW e, Costs(s, e), NEW F \in [AI!Recs -> Futures],
         \A r \in AI!Recs : F[r] = s.fut[r] \/ F[r] \notin {"pending", "calling"},
         \A r \in AI!Recs : F[r] = "pending" => ~AI!Contains(s.batch, r),
         s' = [e EXCEPT !.fut = F, !.batch = <<>>, !.task = [@ EXCEPT ![f] = "loop"]]
  PROVE  AiInv(s')
<1>. DEFINE T == [s.task EXCEPT ![f] = "loop"]
<1>1. e \in AiStates /\ s \in AiStates /\ e.task = s.task
    BY DEF Costs, AiInv
<1>2. Desk(s.conf, s.pc, s.lane, s.queue, s.batch, s.lock, s.task, s.fut)
    BY DEF AiInv
<1>3. s' = [e EXCEPT !.fut = F, !.batch = <<>>, !.task = T]
    BY <1>1
<1>4. /\ T \in [AI!Flushers -> {"idle", "lock", "loop", "call", "dead"}] /\ T[f] = "loop"
      /\ \A x \in AI!Flushers : x # f => T[x] = s.task[x]
      /\ "drain" \in AI!Flushers /\ "timer" \in AI!Flushers
    BY <1>1 DEF AiStates, AI!Flushers
<1>. HIDE DEF T
<1>5. /\ s'.conf = e.conf /\ s'.pc = e.pc /\ s'.lane = e.lane /\ s'.queue = e.queue
      /\ s'.batch = <<>> /\ s'.lock = e.lock /\ s'.task = T /\ s'.fut = F
      /\ s'.usage = e.usage /\ s'.spent = e.spent /\ s'.over = e.over
      /\ s'.carried = e.carried /\ s'.cached = e.cached /\ s'.order = e.order
    BY <1>1, <1>3 DEF AiStates
<1>6. s' \in AiStates
  <2>1. e \in AiStates /\ F \in [AI!Recs -> Futures] /\ <<>> \in Seq(AI!Recs)
        /\ T \in [AI!Flushers -> {"idle", "lock", "loop", "call", "dead"}]
    BY <1>1, <1>4
  <2>. QED
    BY <2>1, <1>3 DEF AiStates
<1>7. /\ Purse(s'.conf, s'.usage, s'.spent, s'.over, s'.carried)
      /\ Reach(s'.conf, s'.cached, s'.order)
    BY <1>5 DEF Costs
<1>8. \A x \in AI!Flushers : T[x] \in {"loop", "call"} <=> s.lock = x
    BY <1>2, <1>4 DEF Desk
<1>9. \A r \in AI!Recs : F[r] = "pending" /\ Waits(r, s.queue, s.batch, s.lock, s.task)
                           => Waits(r, s.queue, <<>>, s.lock, T)
    BY DEF Waits
<1>10. Desk(s.conf, s.pc, s.lane, s.queue, <<>>, s.lock, T, F)
  <2>1. \A r \in AI!Recs : F[r] = "pending" => s.fut[r] = "pending"
    OBVIOUS
  <2>2. \A r \in AI!Recs : F[r] = "calling" => s.fut[r] = "calling"
    OBVIOUS
  <2>. QED
    BY <1>2, <1>4, <1>8, <1>9, <2>1, <2>2 DEF Desk
<1>11. Desk(s'.conf, s'.pc, s'.lane, s'.queue, s'.batch, s'.lock, s'.task, s'.fut)
    BY <1>5, <1>10 DEF Costs
<1>. QED
    BY <1>6, <1>7, <1>11 DEF AiInv

\* Under "raise" a failed batch answers nobody, and its task ends.
LEMMA AiRaises ==
  ASSUME AiBounds, AiInv(s), NEW f \in AI!Flushers, s.lock = f, s.task[f] = "call",
         s.conf.policy = "raise", NEW e, Costs(s, e), NEW then \in {"idle", "dead"},
         f = "drain" => then = "idle",
         s' = AI!Released(e, f, then)
  PROVE  AiInv(s')
<1>. DEFINE T == [s.task EXCEPT ![f] = then]
<1>1. e \in AiStates /\ s \in AiStates /\ e.task = s.task
    BY DEF Costs, AiInv
<1>2. Desk(s.conf, s.pc, s.lane, s.queue, s.batch, s.lock, s.task, s.fut)
    BY DEF AiInv
<1>3. s' = [e EXCEPT !.lock = "none", !.batch = <<>>, !.task = T]
    BY <1>1 DEF AI!Released
<1>4. /\ T \in [AI!Flushers -> {"idle", "lock", "loop", "call", "dead"}] /\ T[f] = then
      /\ \A x \in AI!Flushers : x # f => T[x] = s.task[x]
      /\ "drain" \in AI!Flushers /\ \A x \in AI!Flushers : x # "none"
    BY <1>1 DEF AiStates, AI!Flushers
<1>. HIDE DEF T
<1>5. /\ s'.conf = e.conf /\ s'.pc = e.pc /\ s'.lane = e.lane /\ s'.queue = e.queue
      /\ s'.batch = <<>> /\ s'.lock = "none" /\ s'.task = T /\ s'.fut = e.fut
      /\ s'.usage = e.usage /\ s'.spent = e.spent /\ s'.over = e.over
      /\ s'.carried = e.carried /\ s'.cached = e.cached /\ s'.order = e.order
    BY <1>1, <1>3 DEF AiStates
<1>6. s' \in AiStates
  <2>1. e \in AiStates /\ <<>> \in Seq(AI!Recs) /\ "none" \in {"none"} \union AI!Flushers
        /\ T \in [AI!Flushers -> {"idle", "lock", "loop", "call", "dead"}]
    BY <1>1, <1>4
  <2>. QED
    BY <2>1, <1>3 DEF AiStates
<1>7. /\ Purse(s'.conf, s'.usage, s'.spent, s'.over, s'.carried)
      /\ Reach(s'.conf, s'.cached, s'.order)
    BY <1>5 DEF Costs
<1>8. \A x \in AI!Flushers : T[x] \in {"loop", "call"} <=> "none" = x
    BY <1>2, <1>4 DEF Desk
<1>9. Desk(s.conf, s.pc, s.lane, s.queue, <<>>, "none", T, s.fut)
    BY <1>2, <1>4, <1>8 DEF Desk
<1>10. Desk(s'.conf, s'.pc, s'.lane, s'.queue, s'.batch, s'.lock, s'.task, s'.fut)
    BY <1>5, <1>9 DEF Costs
<1>. QED
    BY <1>6, <1>7, <1>10 DEF AiInv

\* The lane's own flush raises: the lane, or on_stop, ends with it.
LEMMA AiBreaks ==
  ASSUME AiBounds, AiInv(s), s.lock = "drain", s.task["drain"] = "call",
         s.conf.policy = "raise", NEW e, Costs(s, e),
         s' = [AI!Resolved(AI!Released(e, "drain", "idle"), AI!Recs, "cancelled")
                 EXCEPT !.lane = "over", !.pc = IF @ = "stops" THEN "broken" ELSE @]
  PROVE  AiInv(s')
<1>. DEFINE T == [s.task EXCEPT !["drain"] = "idle"]
            P == IF s.pc = "stops" THEN "broken" ELSE s.pc
            w == AI!Released(e, "drain", "idle")
<1>1. e \in AiStates /\ s \in AiStates /\ e.task = s.task /\ e.pc = s.pc
    BY DEF Costs, AiInv
<1>2. Desk(s.conf, s.pc, s.lane, s.queue, s.batch, s.lock, s.task, s.fut)
    BY DEF AiInv
<1>3. w = [e EXCEPT !.lock = "none", !.batch = <<>>, !.task = T]
    BY <1>1 DEF AI!Released
<1>4. /\ T \in [AI!Flushers -> {"idle", "lock", "loop", "call", "dead"}] /\ T["drain"] = "idle"
      /\ \A x \in AI!Flushers : x # "drain" => T[x] = s.task[x]
      /\ "drain" \in AI!Flushers /\ \A x \in AI!Flushers : x # "none"
      /\ P \in {"down", "up", "stops", "broken"}
    BY <1>1 DEF AiStates, AI!Flushers
<1>. HIDE DEF T, P, w
<1>5. /\ w \in AiStates /\ w.conf = e.conf /\ w.pc = e.pc /\ w.queue = e.queue /\ w.batch = <<>>
      /\ w.lock = "none" /\ w.task = T /\ w.usage = e.usage /\ w.spent = e.spent
      /\ w.over = e.over /\ w.carried = e.carried /\ w.cached = e.cached /\ w.order = e.order
  <2>1. e \in AiStates /\ <<>> \in Seq(AI!Recs) /\ "none" \in {"none"} \union AI!Flushers
        /\ T \in [AI!Flushers -> {"idle", "lock", "loop", "call", "dead"}]
    BY <1>1, <1>4
  <2>2. w \in AiStates
    BY <2>1, <1>3 DEF AiStates
  <2>3. /\ w.conf = e.conf /\ w.pc = e.pc /\ w.queue = e.queue /\ w.batch = <<>>
        /\ w.lock = "none" /\ w.task = T
    BY <2>1, <1>3 DEF AiStates
  <2>4. /\ w.usage = e.usage /\ w.spent = e.spent /\ w.over = e.over /\ w.carried = e.carried
        /\ w.cached = e.cached /\ w.order = e.order
    BY <2>1, <1>3 DEF AiStates
  <2>. QED
    BY <2>2, <2>3, <2>4
<1>6. PICK F \in [AI!Recs -> Futures] :
        /\ AI!Resolved(w, AI!Recs, "cancelled") = [w EXCEPT !.fut = F]
        /\ \A r \in AI!Recs :
             F[r] = IF r \in AI!Recs /\ w.fut[r] \in {"pending", "calling"} THEN "cancelled"
                    ELSE w.fut[r]
    BY <1>5, ResolvedFutures DEF Futures
<1>7. s' = [[w EXCEPT !.fut = F] EXCEPT !.lane = "over", !.pc = IF @ = "stops" THEN "broken" ELSE @]
    BY <1>6 DEF w
<1>8. s' = [w EXCEPT !.fut = F, !.lane = "over", !.pc = P]
  <2>1. [w EXCEPT !.fut = F].pc = s.pc
    BY <1>1, <1>5 DEF AiStates
  <2>2. s' = [[w EXCEPT !.fut = F] EXCEPT !.lane = "over", !.pc = P]
    BY <2>1, <1>7 DEF P
  <2>. QED
    BY <2>2, <1>5 DEF AiStates
<1>9. /\ s'.conf = w.conf /\ s'.pc = P /\ s'.lane = "over" /\ s'.queue = w.queue
      /\ s'.batch = w.batch /\ s'.lock = w.lock /\ s'.task = w.task /\ s'.fut = F
      /\ s'.usage = w.usage /\ s'.spent = w.spent /\ s'.over = w.over
      /\ s'.carried = w.carried /\ s'.cached = w.cached /\ s'.order = w.order
    BY <1>5, <1>8 DEF AiStates
<1>10. s' \in AiStates
  <2>1. w \in AiStates /\ F \in [AI!Recs -> Futures] /\ P \in {"down", "up", "stops", "broken"}
    BY <1>4, <1>5
  <2>. QED
    BY <2>1, <1>8 DEF AiStates
<1>11. /\ Purse(s'.conf, s'.usage, s'.spent, s'.over, s'.carried)
       /\ Reach(s'.conf, s'.cached, s'.order)
    BY <1>5, <1>9 DEF Costs
<1>12. \A x \in AI!Flushers : T[x] \in {"loop", "call"} <=> "none" = x
    BY <1>2, <1>4 DEF Desk
<1>13. \A r \in AI!Recs : F[r] \notin {"pending", "calling"}
    BY <1>6
<1>14. Desk(s.conf, P, "over", s.queue, <<>>, "none", T, F)
    BY <1>4, <1>12, <1>13 DEF Desk
<1>15. Desk(s'.conf, s'.pc, s'.lane, s'.queue, s'.batch, s'.lock, s'.task, s'.fut)
    BY <1>5, <1>9, <1>14 DEF Costs
<1>. QED
    BY <1>10, <1>11, <1>15 DEF AiInv

\* The call of a batch: its records get what it came to.
LEMMA AiResolves ==
  ASSUME AiBounds, AiInv(s), NEW f \in AI!Flushers, s.lock = f, s.task[f] = "call",
         NEW e, Costs(s, e), NEW v \in Futures \ {"pending", "calling"},
         s' = [AI!Resolved(e, AI!ToSet(s.batch), v) EXCEPT !.batch = <<>>, !.task[f] = "loop"]
  PROVE  AiInv(s')
<1>1. e \in AiStates /\ e.fut = s.fut /\ s.batch \in Seq(AI!Recs)
    BY DEF Costs, AiInv, AiStates
<1>. DEFINE B == AI!ToSet(s.batch)
<1>2. PICK F \in [AI!Recs -> Futures] :
        /\ AI!Resolved(e, B, v) = [e EXCEPT !.fut = F]
        /\ \A r \in AI!Recs :
             F[r] = IF r \in B /\ e.fut[r] \in {"pending", "calling"} THEN v ELSE e.fut[r]
  <2>1. v \in Futures /\ e \in AiStates
    BY <1>1
  <2>. HIDE DEF B
  <2>. QED
    BY <2>1, ResolvedFutures
<1>3. \A r \in AI!Recs : F[r] = s.fut[r] \/ F[r] \notin {"pending", "calling"}
    BY <1>1, <1>2
<1>4. \A r \in AI!Recs : F[r] = "pending" => ~AI!Contains(s.batch, r)
    BY <1>1, <1>2 DEF AI!Contains, AI!ToSet
<1>5. s' = [e EXCEPT !.fut = F, !.batch = <<>>, !.task = [@ EXCEPT ![f] = "loop"]]
  <2>. DEFINE w == [e EXCEPT !.fut = F]
  <2>1. s' = [w EXCEPT !.batch = <<>>, !.task[f] = "loop"]
    BY <1>2
  <2>2. w.task = e.task
    BY <1>1 DEF AiStates
  <2>3. s' = [w EXCEPT !.batch = <<>>, !.task = [e.task EXCEPT ![f] = "loop"]]
    BY <2>1, <2>2
  <2>. QED
    BY <2>3, <1>1 DEF AiStates
<1>. QED
    BY <1>3, <1>4, <1>5, AiAnswered

\* A batch is called for: _process_batch.
LEMMA AiProcessBatch ==
  ASSUME AiBounds, AiInv(s), NEW f \in AI!Flushers, AI!ProcessBatch(f)
  PROVE  AiInv(s')
<1>1. s.lock = f /\ s.task[f] = "call" /\ s.batch \in Seq(AI!Recs)
    BY DEF AI!ProcessBatch, AiInv, AiStates
<1>2. PICK c \in AI!Complete(AI!Key(s.batch)) :
        s' = IF c.ok THEN [AI!Resolved(c.s, AI!ToSet(s.batch), "ok")
                             EXCEPT !.batch = <<>>, !.task[f] = "loop"]
             ELSE AI!Fails(c.s, f)
    BY DEF AI!ProcessBatch
<1>. DEFINE e == c.s
<1>3. Costs(s, e)
    BY <1>1, KeyIsPrompt, CompleteCosts
<1>. HIDE DEF e
<1>4. e.conf = s.conf /\ e.batch = s.batch
    BY <1>3 DEF Costs
<1>5. CASE c.ok
  <2>1. "ok" \in Futures \ {"pending", "calling"}
    BY DEF Futures
  <2>2. s' = [AI!Resolved(e, AI!ToSet(s.batch), "ok") EXCEPT !.batch = <<>>, !.task[f] = "loop"]
    BY <1>2, <1>5 DEF e
  <2>. QED
    BY <2>1, <2>2, <1>1, <1>3, AiResolves
<1>6. CASE ~c.ok /\ s' = [AI!Resolved(e, AI!ToSet(s.batch), AI!OnError(s.conf.policy))
                            EXCEPT !.batch = <<>>, !.task[f] = "loop"]
    BY <1>1, <1>3, <1>6, AiResolves, ErrorAnswers DEF Futures
<1>7. CASE s.conf.policy = "raise" /\ f # "drain"
           /\ (s' = AI!Released(e, f, "dead") \/ s' = AI!Released(e, f, "idle"))
    BY <1>1, <1>3, <1>7, AiRaises
<1>8. CASE s.conf.policy = "raise" /\ f = "drain"
           /\ s' = [AI!Resolved(AI!Released(e, "drain", "idle"), AI!Recs, "cancelled")
                      EXCEPT !.lane = "over", !.pc = IF @ = "stops" THEN "broken" ELSE @]
    BY <1>1, <1>3, <1>8, AiBreaks
<1>9. ASSUME ~c.ok
      PROVE  \/ s' = [AI!Resolved(e, AI!ToSet(s.batch), AI!OnError(s.conf.policy))
                        EXCEPT !.batch = <<>>, !.task[f] = "loop"]
             \/ /\ s.conf.policy = "raise"
                /\ \/ f # "drain" /\ s' = AI!Released(e, f, "dead")
                   \/ f # "drain" /\ s' = AI!Released(e, f, "idle")
                   \/ /\ f = "drain"
                      /\ s' = [AI!Resolved(AI!Released(e, "drain", "idle"), AI!Recs, "cancelled")
                           EXCEPT !.lane = "over", !.pc = IF @ = "stops" THEN "broken" ELSE @]
  <2>1. s' = AI!Fails(e, f)
    BY <1>2, <1>9 DEF e
  <2>2. f = "timer" \/ f = "size" \/ f = "drain"
    BY DEF AI!Flushers
  <2>3. CASE s' = [AI!Resolved(e, AI!ToSet(s.batch), AI!OnError(s.conf.policy))
                     EXCEPT !.batch = <<>>, !.task[f] = "loop"]
    BY <2>3
  <2>4. CASE s.conf.policy = "raise" /\ f = "timer" /\ s' = AI!Released(e, f, "dead")
    BY <2>4
  <2>5. CASE s.conf.policy = "raise" /\ f = "size" /\ s' = AI!Released(e, f, "idle")
    BY <2>5
  <2>6. CASE s.conf.policy = "raise" /\ f = "drain"
             /\ s' = [AI!Resolved(AI!Released(e, "drain", "idle"), AI!Recs, "cancelled")
                        EXCEPT !.lane = "over", !.pc = IF @ = "stops" THEN "broken" ELSE @]
    BY <2>6
  <2>. QED
    BY <2>1, <2>2, <2>3, <2>4, <2>5, <2>6, <1>4 DEF AI!Fails
<1>. QED
    BY <1>5, <1>6, <1>7, <1>8, <1>9

\* An entry of the cache expires.
LEMMA AiExpires == ASSUME AiBounds, AiInv(s), NEW k, AI!Expires(k) PROVE AiInv(s')
<1>. DEFINE x == {y \in s.cached : y[1] # k}
<1>1. s \in AiStates /\ s' = [s EXCEPT !.cached = x]
    BY DEF AiInv, AI!Expires
<1>2. x \in SUBSET (Prompts \X {"good", "bad"}) /\ x \subseteq s.cached
    BY <1>1 DEF AiStates
<1>. HIDE DEF x
<1>3. /\ s'.conf = s.conf /\ s'.pc = s.pc /\ s'.lane = s.lane /\ s'.queue = s.queue
      /\ s'.batch = s.batch /\ s'.lock = s.lock /\ s'.task = s.task /\ s'.fut = s.fut
      /\ s'.usage = s.usage /\ s'.spent = s.spent /\ s'.over = s.over
      /\ s'.carried = s.carried /\ s'.cached = x /\ s'.order = s.order
    BY <1>1 DEF AiStates
<1>4. s' \in AiStates
    BY <1>1, <1>2 DEF AiStates
<1>5. Reach(s'.conf, s'.cached, s'.order)
    BY <1>2, <1>3 DEF AiInv, Reach
<1>. QED
    BY <1>3, <1>4, <1>5 DEF AiInv

\* on_stop drains once more.
LEMMA AiStopDrains == ASSUME AiBounds, AiInv(s), AI!StopDrains PROVE AiInv(s')
<1>. DEFINE T == [s.task EXCEPT !["drain"] = IF s.queue = <<>> THEN @ ELSE "lock"]
<1>1. s \in AiStates /\ s.pc = "up" /\ s.lane = "over"
      /\ s' = [s EXCEPT !.pc = "stops", !.task = T]
    BY DEF AiInv, AI!StopDrains
<1>2. Desk(s.conf, s.pc, s.lane, s.queue, s.batch, s.lock, s.task, s.fut)
    BY DEF AiInv
<1>3. /\ T \in [AI!Flushers -> {"idle", "lock", "loop", "call", "dead"}]
      /\ \A f \in AI!Flushers : f # "drain" => T[f] = s.task[f]
      /\ T["drain"] \in {"lock", s.task["drain"]}
      /\ "drain" \in AI!Flushers /\ "timer" \in AI!Flushers
    BY <1>1 DEF AiStates, AI!Flushers
<1>. HIDE DEF T
<1>4. /\ s'.conf = s.conf /\ s'.pc = "stops" /\ s'.lane = s.lane /\ s'.queue = s.queue
      /\ s'.batch = s.batch /\ s'.lock = s.lock /\ s'.task = T /\ s'.fut = s.fut
      /\ s'.usage = s.usage /\ s'.spent = s.spent /\ s'.over = s.over
      /\ s'.carried = s.carried /\ s'.cached = s.cached /\ s'.order = s.order
    BY <1>1 DEF AiStates
<1>5. s' \in AiStates
    BY <1>1, <1>3 DEF AiStates
<1>6. s.task["drain"] = "idle" /\ s.lock # "drain"
    BY <1>1, <1>2, <1>3 DEF Desk
<1>7. s.lock # "none" => T[s.lock] = s.task[s.lock]
    BY <1>1, <1>3, <1>6 DEF AiStates
<1>8. Desk(s.conf, "stops", s.lane, s.queue, s.batch, s.lock, T, s.fut)
    BY <1>1, <1>2, <1>3, <1>6, <1>7 DEF Desk, Waits
<1>. QED
    BY <1>4, <1>5, <1>8, DeskMoves

\* on_stop cancels the tasks, hands back what is queued and closes the cache.
LEMMA AiStopCancels == ASSUME AiBounds, AiInv(s), AI!StopCancels PROVE AiInv(s')
<1>1. s \in AiStates /\ s.pc = "stops"
    BY DEF AiInv, AI!StopCancels
<1>2. Desk(s.conf, s.pc, s.lane, s.queue, s.batch, s.lock, s.task, s.fut)
    BY DEF AiInv
<1>3. PICK F \in [AI!Recs -> Futures] :
        /\ AI!Resolved(s, AI!ToSet(s.queue), "same") = [s EXCEPT !.fut = F]
        /\ \A r \in AI!Recs :
             F[r] = IF r \in AI!ToSet(s.queue) /\ s.fut[r] \in {"pending", "calling"}
                    THEN "same" ELSE s.fut[r]
  <2>1. "same" \in Futures
    BY DEF Futures
  <2>. QED
    BY <1>1, <2>1, ResolvedFutures
<1>. DEFINE x == IF s.conf.cache = "memory" THEN {} ELSE s.cached
<1>4. s' = [s EXCEPT !.fut = F, !.pc = "down", !.queue = <<>>, !.batch = <<>>, !.lock = "none",
                     !.task = AI!Idle, !.cached = x, !.order = <<>>]
  <2>. DEFINE w == [s EXCEPT !.fut = F]
  <2>1. w.cached = s.cached
    BY <1>1 DEF AiStates
  <2>2. s' = [w EXCEPT !.pc = "down", !.queue = <<>>, !.batch = <<>>, !.lock = "none",
                       !.task = AI!Idle,
                       !.cached = IF s.conf.cache = "memory" THEN {} ELSE @, !.order = <<>>]
    BY <1>3 DEF AI!StopCancels
  <2>3. s' = [w EXCEPT !.pc = "down", !.queue = <<>>, !.batch = <<>>, !.lock = "none",
                       !.task = AI!Idle, !.cached = x, !.order = <<>>]
    BY <2>1, <2>2
  <2>. QED
    BY <2>3, <1>1 DEF AiStates
<1>5. x \in SUBSET (Prompts \X {"good", "bad"}) /\ (s.conf.cache = "memory" => x = {})
    BY <1>1 DEF AiStates
<1>. HIDE DEF x
<1>6. /\ s'.conf = s.conf /\ s'.pc = "down" /\ s'.lane = s.lane /\ s'.queue = <<>>
      /\ s'.batch = <<>> /\ s'.lock = "none" /\ s'.task = AI!Idle /\ s'.fut = F
      /\ s'.usage = s.usage /\ s'.spent = s.spent /\ s'.over = s.over
      /\ s'.carried = s.carried /\ s'.cached = x /\ s'.order = <<>>
    BY <1>1, <1>4 DEF AiStates
<1>7. s' \in AiStates
    BY <1>1, <1>3, <1>4, <1>5, AllIdle DEF AiStates
<1>8. Purse(s'.conf, s'.usage, s'.spent, s'.over, s'.carried)
    BY <1>6 DEF AiInv
<1>9. Reach(s'.conf, s'.cached, s'.order)
    BY <1>5, <1>6 DEF Reach, AI!IsInjective, AiBounds
<1>10. s.lane = "over"
    BY <1>1, <1>2 DEF Desk, AiStates
<1>11. \A r \in AI!Recs : F[r] \notin {"pending", "calling"}
    BY <1>2, <1>3, <1>10 DEF Desk
<1>12. Desk(s.conf, "down", s.lane, <<>>, <<>>, "none", AI!Idle, F)
    BY <1>10, <1>11, AllIdle DEF Desk
<1>. QED
    BY <1>6, <1>7, <1>8, <1>9, <1>12 DEF AiInv

\* Every step.
LEMMA AiStep == ASSUME AiBounds, AiInv(s), [AI!Next]_s PROVE AiInv(s')
<1>1. CASE AI!OnStart
    BY <1>1, AiOnStart
<1>2. CASE AI!Process
    BY <1>2, AiProcess
<1>3. CASE AI!Submit
    BY <1>3, AiSubmit
<1>4. CASE AI!Drain
    BY <1>4, AiDrain
<1>5. CASE AI!LaneEnds
    BY <1>5, AiLaneEnds
<1>6. CASE AI!LaneAborts
    BY <1>6, AiLaneAborts
<1>7. CASE AI!TimerFires
    BY <1>7, AiTimerFires
<1>8. CASE \E f \in AI!Flushers : AI!Acquire(f) \/ AI!FlushLoop(f) \/ AI!ProcessBatch(f)
    BY <1>8, AiAcquire, AiFlushLoop, AiProcessBatch
<1>9. CASE \E r \in AI!Recs : AI!Returns(r)
    BY <1>9, AiReturns
<1>10. CASE \E k \in AI!Keys(s) : AI!Expires(k)
    BY <1>10, AiExpires
<1>11. CASE AI!StopDrains
    BY <1>11, AiStopDrains
<1>12. CASE AI!StopCancels
    BY <1>12, AiStopCancels
<1>13. CASE AI!Over \/ s' = s
  <2>1. s' = s
    BY <1>13 DEF AI!Over
  <2>. QED
    BY <2>1
<1>. QED
    BY <1>1, <1>2, <1>3, <1>4, <1>5, <1>6, <1>7, <1>8, <1>9, <1>10, <1>11, <1>12, <1>13
    DEF AI!Next

\* No record that waits is forgotten.
LEMMA AiForgetsNobody == ASSUME AiInv(s) PROVE AI!NobodyForgotten
BY DEF AiInv, Desk, Waits, AI!NobodyForgotten

\* The usage tells what was spent.
LEMMA AiTells == ASSUME AiInv(s) PROVE AI!BudgetTellsSpending
<1>1. s.usage \in Nat /\ s.carried \in Nat /\ s.spent \in Nat /\ s.over \in Nat
      /\ Purse(s.conf, s.usage, s.spent, s.over, s.carried)
    BY DEF AiInv, AiStates
<1>. QED
    BY <1>1 DEF Purse, AI!BudgetTellsSpending

\* The list names every entry.
LEMMA AiNames == ASSUME AiInv(s) PROVE AI!CacheIsBounded
BY DEF AiInv, Reach, AI!CacheIsBounded, AI!Keys

\* No record is forgotten, the usage tells what was spent, the cache is bounded.
THEOREM AiAlways ==
  ASSUME AiBounds
  PROVE  AI!Init /\ [][AI!Next]_s =>
           [](AI!NobodyForgotten /\ AI!BudgetTellsSpending /\ AI!CacheIsBounded)
<1>1. AI!Init => AiInv(s)
    BY AiInit
<1>2. AiInv(s) /\ [AI!Next]_s => AiInv(s)'
  <2>1. SUFFICES ASSUME AiInv(s), [AI!Next]_s
                 PROVE  AiInv(s')
    BY DEF AiInv, AiStates, Purse, Reach, Desk, Waits, Futures, Prompts, AI!Recs, AI!Flushers,
           AI!Configs, AI!Policies, AI!IsInjective, AI!ToSet, AI!Contains
  <2>. QED
    BY <2>1, AiStep
<1>3. AiInv(s) => AI!NobodyForgotten /\ AI!BudgetTellsSpending /\ AI!CacheIsBounded
    BY AiForgetsNobody, AiTells, AiNames
<1>. QED
    BY <1>1, <1>2, <1>3, PTL

-----------------------------------------------------------------------------
(* AiBatch: the behaviours of the part "ai".                               *)

\* However the timer, the lane's drain and stop() interleave, with batches of any size and any
\* prompts: a record whose future is awaited is in the queue, or in the batch of the task that
\* holds the lock, unless the error policy is to raise.
THEOREM NobodyIsForgotten == ASSUME AiBounds PROVE Spec => []NobodyForgotten
<1>1. Init /\ part = "ai" => AI!Init
    BY DEF Init
<1>2. part = "ai" /\ [Next]_vars => (part = "ai")' /\ [AI!Next]_s
    BY DEF Next, vars
<1>3. ~(part = "ai") /\ [Next]_vars => (~(part = "ai"))'
    BY DEF Next, vars
<1>4. AI!Init /\ [][AI!Next]_s =>
        [](AI!NobodyForgotten /\ AI!BudgetTellsSpending /\ AI!CacheIsBounded)
    BY AiAlways
<1>5. AI!NobodyForgotten /\ AI!BudgetTellsSpending /\ AI!CacheIsBounded => NobodyForgotten
    BY DEF NobodyForgotten
<1>6. ~(part = "ai") => NobodyForgotten
    BY DEF NobodyForgotten
<1>. QED
    BY <1>1, <1>2, <1>3, <1>4, <1>5, <1>6, PTL DEF Spec

\* However the calls overlap, run after run: the usage of a run is what its calls paid for and
\* stays within its budget, and no cached answer is out of its eviction's reach.
THEOREM BudgetStaysTrue == ASSUME AiBounds PROVE Spec => []BudgetTellsSpending
<1>1. Init /\ part = "ai" => AI!Init
    BY DEF Init
<1>2. part = "ai" /\ [Next]_vars => (part = "ai")' /\ [AI!Next]_s
    BY DEF Next, vars
<1>3. ~(part = "ai") /\ [Next]_vars => (~(part = "ai"))'
    BY DEF Next, vars
<1>4. AI!Init /\ [][AI!Next]_s =>
        [](AI!NobodyForgotten /\ AI!BudgetTellsSpending /\ AI!CacheIsBounded)
    BY AiAlways
<1>5. AI!NobodyForgotten /\ AI!BudgetTellsSpending /\ AI!CacheIsBounded => BudgetTellsSpending
    BY DEF BudgetTellsSpending
<1>6. ~(part = "ai") => BudgetTellsSpending
    BY DEF BudgetTellsSpending
<1>. QED
    BY <1>1, <1>2, <1>3, <1>4, <1>5, <1>6, PTL DEF Spec

=============================================================================
