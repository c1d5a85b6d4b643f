--------------------------- MODULE Runtime_proofs ---------------------------
(***************************************************************************)
(* Theorems about the runtime: the process pool (ProcessPool), for any     *)
(* number of batches, the read-ahead between source and lane               *)
(* (SourcePrefetch), for any source and any prefetch_limit, the lifecycle  *)
(* of a run (RunLifecycle), for a chain of any length and any number of    *)
(* cancellations, and the scheduler with its workers (Scheduler), for any  *)
(* workers, error budget and number of runs and leases.                    *)
(***************************************************************************)
EXTENDS MCRuntime, Integers, WellFoundedInduction, SequenceTheorems, TLAPS

-----------------------------------------------------------------------------
(* ProcessPool.  The invariants are about a state p of the middleware, so  *)
(* that they can be followed through a step that changes it twice.         *)

PoolBounds == Batches \in Nat

Tasks   == {"new", "running", "ok", "failed", "timedout", "invalidated", "cancelled"}
Answers == {"none", "result", "error", "timeout"}
Phases  == {"run", "cancelling", "stop", "stopped"}

PoolStates ==
  [next : Nat, generation : Nat, runner : Int, invalidated : SUBSET Nat, pools : SUBSET Int,
   broken : SUBSET Int, gen : [PP!Ids -> Nat], task : [PP!Ids -> Tasks],
   answer : [PP!Ids -> Answers], cancel : SUBSET PP!Ids, awaited : Nat, stale : SUBSET PP!Ids,
   phase : Phases]

\* Every generation before the current one was invalidated when it was left, so
\* a batch that comes back to another generation than its own knows.
LeftIsInvalidated(p) ==
  /\ \A g \in Nat : g < p.generation => g \in p.invalidated
  /\ \A b \in PP!Ids : p.gen[b] <= p.generation
  /\ \A b \in p.stale : p.task[b] = "invalidated"

\* The only pool that runs is the runner's, and a stopped middleware has none.
RunnersPool(p) ==
  /\ p.pools \subseteq {p.runner}
  /\ p.runner = PP!NoRunner => p.pools = {}
  /\ p.phase = "stopped" => p.runner = PP!NoRunner

\* The lane itself cancelled task b and has not gone back to work.
LaneCancelled(p, b) == p.phase \in {"stop", "stopped"} \/ (p.phase = "cancelling" /\ b = p.awaited)

\* Who is cancelled, or will be, without an invalidated generation to blame.
CancelledByLane(p) ==
  \A b \in PP!Ids :
    \/ LaneCancelled(p, b)
    \/ /\ p.task[b] # "cancelled"
       /\ p.task[b] = "running" /\ b \in p.cancel => p.gen[b] \in p.invalidated

\* Nothing has happened to a batch that was not submitted.
Unsubmitted(p) ==
  \A b \in PP!Ids : b >= p.next => p.task[b] = "new" /\ b \notin p.cancel

PoolInv(p) ==
  /\ p \in PoolStates
  /\ LeftIsInvalidated(p) /\ RunnersPool(p) /\ CancelledByLane(p) /\ Unsubmitted(p)

\* The fields of a state.
LEMMA PoolFields ==
  ASSUME NEW p \in PoolStates
  PROVE  /\ p.next \in Nat /\ p.generation \in Nat /\ p.runner \in Int
         /\ p.invalidated \subseteq Nat /\ p.pools \subseteq Int
         /\ p.gen \in [PP!Ids -> Nat] /\ p.task \in [PP!Ids -> Tasks]
         /\ p.answer \in [PP!Ids -> Answers] /\ p.cancel \subseteq PP!Ids
         /\ p.awaited \in Nat /\ p.stale \subseteq PP!Ids /\ p.phase \in Phases
BY DEF PoolStates

\* A nonempty set of batches has an oldest one.
LEMMA OldestBatch ==
  ASSUME NEW S, S \subseteq PP!Ids, S # {}
  PROVE  (CHOOSE x \in S : \A y \in S : x <= y) \in S
<1>0. S \subseteq Nat
    BY DEF PP!Ids
<1>1. PICK x \in S : \A y \in S : ~(<<y, x>> \in OpToRel(<, Nat))
    BY ZenonT(90), <1>0, NatLessThanWellFounded, WFMin
<1>2. \A y \in S : ~(y < x)
    BY <1>0, <1>1 DEF OpToRel
<1>3. \A y \in S : x <= y
    BY <1>0, <1>2
<1>. QED
    BY <1>3

-----------------------------------------------------------------------------

\* The middleware starts with the pool of generation 0.
LEMMA PoolInit == PoolBounds /\ PP!Init => PoolInv(pp)
<1> SUFFICES ASSUME PoolBounds, PP!Init PROVE PoolInv(pp)
    OBVIOUS
<1>1. pp \in PoolStates
    BY DEF PP!Init, PoolStates, Tasks, Answers, Phases
<1>2. LeftIsInvalidated(pp) /\ RunnersPool(pp) /\ CancelledByLane(pp) /\ Unsubmitted(pp)
    BY DEF PP!Init, LeftIsInvalidated, RunnersPool, CancelledByLane, Unsubmitted, PP!NoRunner
<1>. QED
    BY <1>1, <1>2 DEF PoolInv

\* A batch is submitted to the current generation, or fails at once.
LEMMA SubmitInv == ASSUME PoolBounds, PoolInv(pp), PP!Submit PROVE PoolInv(pp')
<1>0. pp \in PoolStates /\ pp.next \in PP!Ids /\ pp.next + 1 \in Nat /\ pp.phase = "run"
    BY DEF PoolInv, PoolStates, PP!Submit
<1>1. PICK t \in {"failed", "running"} :
        pp' = [pp EXCEPT !.next = pp.next + 1,
                         !.gen = [pp.gen EXCEPT ![pp.next] = pp.generation],
                         !.task = [pp.task EXCEPT ![pp.next] = t]]
    BY DEF PP!Submit
<1>2. [pp.gen EXCEPT ![pp.next] = pp.generation] \in [PP!Ids -> Nat]
    BY <1>0 DEF PoolStates
<1>3. [pp.task EXCEPT ![pp.next] = t] \in [PP!Ids -> Tasks]
    BY <1>0 DEF PoolStates, Tasks
<1>4. pp' \in PoolStates
    BY <1>0, <1>1, <1>2, <1>3 DEF PoolStates
<1>5. /\ pp'.gen = [pp.gen EXCEPT ![pp.next] = pp.generation]
      /\ pp'.task = [pp.task EXCEPT ![pp.next] = t] /\ pp'.next = pp.next + 1
      /\ pp'.generation = pp.generation /\ pp'.invalidated = pp.invalidated
      /\ pp'.runner = pp.runner /\ pp'.pools = pp.pools /\ pp'.phase = pp.phase
      /\ pp'.cancel = pp.cancel /\ pp'.awaited = pp.awaited /\ pp'.stale = pp.stale
    BY <1>0, <1>1 DEF PoolStates
<1>i. \A b \in PP!Ids : b \in Nat
    BY DEF PP!Ids
<1>6. LeftIsInvalidated(pp')
    BY <1>0, <1>5, PoolFields DEF PoolInv, LeftIsInvalidated, Unsubmitted
<1>7. RunnersPool(pp')
    BY <1>5 DEF PoolInv, RunnersPool
<1>8. CancelledByLane(pp')
    BY <1>0, <1>1, <1>5, PoolFields DEF PoolInv, CancelledByLane, LaneCancelled, Unsubmitted
<1>9. Unsubmitted(pp')
    BY <1>0, <1>5, PoolFields, <1>i DEF PoolInv, Unsubmitted
<1>. QED
    BY <1>4, <1>6, <1>7, <1>8, <1>9 DEF PoolInv

\* Answers on their way to a task change nothing yet.
LEMMA AnswersInv ==
  ASSUME PoolInv(pp), \/ \E b \in PP!Ids : PP!WorkerAnswers(b) \/ PP!TimesOut(b)
                      \/ \E g \in PP!Generations : PP!WorkerDies(g)
  PROVE  PoolInv(pp')
<1>0. pp \in PoolStates /\ PP!Generations \subseteq Int
    BY DEF PoolInv, PP!Generations
<1>1. PICK f \in [PP!Ids -> Answers], B \in SUBSET Int :
        pp' = [pp EXCEPT !.answer = f, !.broken = B]
  <2>1. CASE \E b \in PP!Ids : PP!WorkerAnswers(b) \/ PP!TimesOut(b)
    <3>1. PICK b \in PP!Ids, a \in Answers : pp' = [pp EXCEPT !.answer[b] = a]
      BY <2>1 DEF PP!WorkerAnswers, PP!TimesOut, Answers
    <3>2. [pp.answer EXCEPT ![b] = a] \in [PP!Ids -> Answers] /\ pp.broken \in SUBSET Int
      BY <1>0 DEF PoolStates
    <3>3. pp' = [pp EXCEPT !.answer = [pp.answer EXCEPT ![b] = a], !.broken = pp.broken]
      BY <1>0, <3>1 DEF PoolStates
    <3>4. QED
      BY ZenonT(90), <3>2, <3>3
  <2>2. CASE \E g \in PP!Generations : PP!WorkerDies(g)
    <3>1. PICK g \in PP!Generations :
            pp' = [pp EXCEPT !.broken = @ \union {g},
                             !.answer = [b \in PP!Ids |-> IF b \in PP!Pending(g) /\ @[b] = "none"
                                                          THEN "error" ELSE @[b]]]
      BY ZenonT(90), <2>2 DEF PP!WorkerDies
    <3>2. [b \in PP!Ids |-> IF b \in PP!Pending(g) /\ pp.answer[b] = "none"
                            THEN "error" ELSE pp.answer[b]] \in [PP!Ids -> Answers]
      BY <1>0 DEF PoolStates, Answers
    <3>3. pp.broken \union {g} \in SUBSET Int
      BY <1>0 DEF PoolStates
    <3>4. QED
      BY ZenonT(90), <3>1, <3>2, <3>3
  <2>3. QED
    BY ZenonT(90), <2>1, <2>2
<1>2. pp' \in PoolStates
    BY <1>0, <1>1 DEF PoolStates
<1>3. /\ pp'.gen = pp.gen /\ pp'.task = pp.task /\ pp'.next = pp.next
      /\ pp'.generation = pp.generation /\ pp'.invalidated = pp.invalidated
      /\ pp'.runner = pp.runner /\ pp'.pools = pp.pools /\ pp'.phase = pp.phase
      /\ pp'.cancel = pp.cancel /\ pp'.awaited = pp.awaited /\ pp'.stale = pp.stale
    BY <1>0, <1>1 DEF PoolStates
<1>. QED
    BY <1>2, <1>3 DEF PoolInv, LeftIsInvalidated, RunnersPool, CancelledByLane, LaneCancelled,
       Unsubmitted

\* A running batch b ends as t.
LEMMA TaskEnds ==
  ASSUME NEW p, PoolInv(p), NEW b \in PP!Ids, p.task[b] = "running",
         NEW t \in Tasks \ {"new", "running"}, t = "cancelled" => LaneCancelled(p, b),
         NEW C \in SUBSET p.cancel,
         NEW S \in SUBSET (p.stale \union {b}), b \in S => t = "invalidated",
         NEW q, q = [p EXCEPT !.task = [p.task EXCEPT ![b] = t], !.cancel = C, !.stale = S]
  PROVE  PoolInv(q)
<1>0. p \in PoolStates
    BY DEF PoolInv
<1>1. [p.task EXCEPT ![b] = t] \in [PP!Ids -> Tasks] /\ C \in SUBSET PP!Ids /\ S \in SUBSET PP!Ids
    BY <1>0 DEF PoolStates
<1>2. q \in PoolStates
    BY <1>0, <1>1 DEF PoolStates
<1>3. /\ q.gen = p.gen /\ q.next = p.next /\ q.generation = p.generation
      /\ q.invalidated = p.invalidated /\ q.runner = p.runner /\ q.pools = p.pools
      /\ q.phase = p.phase /\ q.awaited = p.awaited
      /\ q.task = [p.task EXCEPT ![b] = t] /\ q.cancel = C /\ q.stale = S
    BY <1>0 DEF PoolStates
<1>4. \A x \in PP!Ids : q.task[x] = IF x = b THEN t ELSE p.task[x]
    BY <1>0, <1>3, PoolFields
<1>5. LeftIsInvalidated(q)
    BY <1>1, <1>3, <1>4 DEF PoolInv, LeftIsInvalidated
<1>6. RunnersPool(q)
    BY <1>3 DEF PoolInv, RunnersPool
<1>7. CancelledByLane(q)
    BY <1>3, <1>4 DEF PoolInv, CancelledByLane, LaneCancelled
<1>8. Unsubmitted(q)
    BY <1>3, <1>4 DEF PoolInv, Unsubmitted
<1>. QED
    BY <1>2, <1>5, <1>6, <1>7, <1>8 DEF PoolInv

\* _recycle_runner: the generation that timed out is left behind, its other
\* batches are told, and a new pool takes the place of the old one, or none.
LEMMA RecycleInv ==
  ASSUME PoolInv(pp), NEW b \in PP!Ids, pp.task[b] = "running", PP!Recycles(b), PP!Recycle(b)
  PROVE  PoolInv(pp')
<1>0. pp \in PoolStates /\ pp.generation + 1 \in Nat /\ pp.gen[b] = pp.generation
      /\ pp.runner # PP!NoRunner /\ pp.generation + 1 # PP!NoRunner
    BY SMTT(60) DEF PoolInv, PoolStates, PP!Recycles, PP!Live, PP!NoRunner
<1> DEFINE O == PP!Pending(pp.generation) \ {b}
<1>1. PICK t \in {"timedout", "failed"}, r \in {pp.runner, pp.generation + 1}, P \in SUBSET Int :
     /\ P \subseteq {r}
     /\ pp' = [pp EXCEPT !.task = [pp.task EXCEPT ![b] = t],
                         !.invalidated = pp.invalidated \union {pp.generation},
                         !.cancel = pp.cancel \union O, !.pools = P, !.runner = r,
                         !.generation = pp.generation + 1]
  <2>1. PICK opened \in BOOLEAN :
        pp' = [pp EXCEPT !.task[b] = IF opened THEN "timedout" ELSE "failed",
                         !.invalidated = @ \union {pp.gen[b]},
                         !.cancel = PP!CancelGeneration(pp.gen[b], {b}),
                         !.pools = PP!Terminated(pp) \union
                                   (IF opened THEN {pp.generation + 1} ELSE {}),
                         !.runner = IF opened THEN pp.generation + 1 ELSE @,
                         !.generation = @ + 1]
    BY ZenonT(90) DEF PP!Recycle
  <2>2. PP!Terminated(pp) = {}
    BY DEF PP!Terminated, PoolInv, RunnersPool
  <2>3. PP!CancelGeneration(pp.gen[b], {b}) = pp.cancel \union O
    BY <1>0 DEF PP!CancelGeneration
  <2>4. CASE opened
    <3>1. pp' = [pp EXCEPT !.task = [pp.task EXCEPT ![b] = "timedout"],
                           !.invalidated = pp.invalidated \union {pp.generation},
                           !.cancel = pp.cancel \union O, !.pools = {pp.generation + 1},
                           !.runner = pp.generation + 1, !.generation = pp.generation + 1]
      BY <1>0, <2>1, <2>2, <2>3, <2>4
    <3>2. {pp.generation + 1} \in SUBSET Int
      BY <1>0
    <3>3. QED
      BY ZenonT(90), <3>1, <3>2
  <2>5. CASE ~opened
    BY ZenonT(90), <1>0, <2>1, <2>2, <2>3, <2>5
  <2>6. QED
    BY ZenonT(90), <2>4, <2>5
<1>o. O \subseteq PP!Ids /\ \A x \in O : pp.task[x] = "running" /\ pp.gen[x] = pp.generation
    BY DEF PP!Pending, PP!Running
<1>2. [pp.task EXCEPT ![b] = t] \in [PP!Ids -> Tasks]
    BY <1>0 DEF PoolStates, Tasks
<1>3. /\ pp.invalidated \union {pp.generation} \in SUBSET Nat
      /\ pp.cancel \union O \in SUBSET PP!Ids /\ P \in SUBSET Int /\ r \in Int
    BY <1>0, <1>o DEF PoolStates
<1>4. pp' \in PoolStates
    BY <1>0, <1>1, <1>2, <1>3 DEF PoolStates
<1>5. /\ pp'.gen = pp.gen /\ pp'.next = pp.next /\ pp'.generation = pp.generation + 1
      /\ pp'.invalidated = pp.invalidated \union {pp.generation}
      /\ pp'.runner = r /\ pp'.pools = P /\ pp'.phase = pp.phase /\ pp'.awaited = pp.awaited
      /\ pp'.task = [pp.task EXCEPT ![b] = t] /\ pp'.cancel = pp.cancel \union O
      /\ pp'.stale = pp.stale
    BY <1>0, <1>1 DEF PoolStates
<1>6. \A x \in PP!Ids : pp'.task[x] = IF x = b THEN t ELSE pp.task[x]
    BY <1>0, <1>5, PoolFields
<1>7. LeftIsInvalidated(pp')
    BY <1>0, <1>5, <1>6, PoolFields DEF PoolInv, LeftIsInvalidated
<1>8. RunnersPool(pp')
    BY <1>0, <1>1, <1>5 DEF PoolInv, RunnersPool
<1>9. CancelledByLane(pp')
    BY <1>o, <1>5, <1>6 DEF PoolInv, CancelledByLane, LaneCancelled
<1>10. Unsubmitted(pp')
    BY <1>o, <1>5, <1>6 DEF PoolInv, Unsubmitted
<1>. QED
    BY <1>4, <1>7, <1>8, <1>9, <1>10 DEF PoolInv

\* process_batch resumes with an answer; one that comes too late is not used.
LEMMA ResumeInv ==
  ASSUME PoolBounds, PoolInv(pp), NEW b \in PP!Ids, PP!Resume(b)
  PROVE  PoolInv(pp')
<1>0. pp \in PoolStates /\ pp.task[b] = "running"
    BY DEF PoolInv, PP!Resume
<1>1. CASE PP!Recycles(b) /\ PP!Recycle(b)
    BY <1>0, <1>1, RecycleInv
<1>2. CASE \E t \in {"timedout", "failed", "invalidated"} : pp' = [pp EXCEPT !.task[b] = t]
  <2>1. PICK t \in {"timedout", "failed", "invalidated"} : pp' = [pp EXCEPT !.task[b] = t]
    BY <1>2
  <2>2. pp' = [pp EXCEPT !.task = [pp.task EXCEPT ![b] = t], !.cancel = pp.cancel,
                         !.stale = pp.stale]
    BY <1>0, <2>1 DEF PoolStates
  <2>3. t \in Tasks \ {"new", "running"} /\ t # "cancelled"
    BY DEF Tasks
  <2>4. b \notin pp.stale
    BY <1>0 DEF PoolInv, LeftIsInvalidated
  <2>5. QED
    BY ZenonT(90), <1>0, <2>2, <2>3, <2>4, TaskEnds
<1>3. CASE pp' = [pp EXCEPT !.task[b] = IF PP!Invalidated(b) THEN "invalidated" ELSE "ok",
                            !.stale = IF pp.gen[b] # pp.generation THEN @ \union {b} ELSE @]
  <2> DEFINE t == IF PP!Invalidated(b) THEN "invalidated" ELSE "ok"
             S == IF pp.gen[b] # pp.generation THEN pp.stale \union {b} ELSE pp.stale
  <2>1. pp' = [pp EXCEPT !.task = [pp.task EXCEPT ![b] = t], !.cancel = pp.cancel, !.stale = S]
    BY <1>0, <1>3 DEF PoolStates
  <2>2. t \in Tasks \ {"new", "running"} /\ t # "cancelled" /\ S \in SUBSET (pp.stale \union {b})
    BY DEF Tasks
  <2>3. b \in S => t = "invalidated"
    BY <1>0, PoolFields DEF PoolInv, LeftIsInvalidated, PP!Invalidated
  <2> HIDE DEF t, S
  <2>4. QED
    BY ZenonT(90), <1>0, <2>1, <2>2, <2>3, TaskEnds
<1>. QED
  <2>1. ASSUME pp' = [pp EXCEPT !.task[b] = IF PP!Invalidated(b) THEN "invalidated" ELSE "failed"]
        PROVE  \E t \in {"timedout", "failed", "invalidated"} : pp' = [pp EXCEPT !.task[b] = t]
    BY <2>1
  <2>2. QED
    BY <1>1, <1>2, <1>3, <2>1 DEF PP!Resume

\* _abort_runner.
LEMMA AbortedInv == ASSUME NEW p, PoolInv(p) PROVE PoolInv(PP!Aborted(p))
<1>0. p \in PoolStates /\ p.generation + 1 \in Nat
    BY DEF PoolInv, PoolStates
<1>1. CASE p.runner = PP!NoRunner
    BY <1>1 DEF PP!Aborted
<1>2. CASE p.runner # PP!NoRunner
  <2> DEFINE O == {b \in PP!Ids : p.task[b] = "running" /\ p.gen[b] = p.generation}
             q == [p EXCEPT !.invalidated = p.invalidated \union {p.generation},
                            !.cancel = p.cancel \union O, !.pools = {},
                            !.runner = PP!NoRunner, !.generation = p.generation + 1]
  <2>1. PP!Terminated(p) = {}
    BY DEF PP!Terminated, PoolInv, RunnersPool
  <2>2. PP!Aborted(p) = q
    BY <1>2, <2>1 DEF PP!Aborted
  <2>3. /\ p.invalidated \union {p.generation} \in SUBSET Nat
        /\ p.cancel \union O \in SUBSET PP!Ids /\ PP!NoRunner \in Int
    BY <1>0 DEF PoolStates, PP!NoRunner
  <2> HIDE DEF O
  <2>4. q \in PoolStates
    BY <1>0, <2>3 DEF PoolStates
  <2>5. /\ q.gen = p.gen /\ q.next = p.next /\ q.generation = p.generation + 1
        /\ q.invalidated = p.invalidated \union {p.generation}
        /\ q.runner = PP!NoRunner /\ q.pools = {} /\ q.phase = p.phase /\ q.awaited = p.awaited
        /\ q.task = p.task /\ q.cancel = p.cancel \union O /\ q.stale = p.stale
    BY <1>0 DEF PoolStates
  <2> HIDE DEF q
  <2>6. LeftIsInvalidated(q) /\ RunnersPool(q)
    BY <1>0, <2>5, PoolFields DEF PoolInv, LeftIsInvalidated, RunnersPool
  <2>7. CancelledByLane(q) /\ Unsubmitted(q)
    BY <2>5 DEF PoolInv, CancelledByLane, LaneCancelled, Unsubmitted, O
  <2>8. QED
    BY <2>2, <2>4, <2>6, <2>7 DEF PoolInv
<1>. QED
    BY <1>1, <1>2

\* A cancelled batch blames its invalidated generation, or aborts the pool.
LEMMA ResumeCancelledInv ==
  ASSUME PoolInv(pp), NEW b \in PP!Ids, PP!ResumeCancelled(b) PROVE PoolInv(pp')
<1>0. /\ pp \in PoolStates /\ pp.task[b] = "running" /\ b \in pp.cancel /\ b \notin pp.stale
      /\ pp.cancel \ {b} \in SUBSET pp.cancel /\ pp.stale \in SUBSET (pp.stale \union {b})
    BY DEF PoolInv, LeftIsInvalidated, PP!ResumeCancelled
<1> DEFINE Ends(t) == [pp EXCEPT !.task[b] = t, !.cancel = @ \ {b}]
<1>1. ASSUME NEW t \in {"invalidated", "cancelled"}, t = "cancelled" => LaneCancelled(pp, b)
      PROVE  PoolInv(Ends(t))
  <2> DEFINE q == Ends(t)
  <2>2. t \in Tasks \ {"new", "running"}
    BY DEF Tasks
  <2>3. q = [pp EXCEPT !.task = [pp.task EXCEPT ![b] = t], !.cancel = pp.cancel \ {b},
                       !.stale = pp.stale]
    BY <1>0 DEF PoolStates
  <2> HIDE DEF q
  <2>4. PoolInv(q)
    BY ZenonT(90), <1>0, <1>1, <2>2, <2>3, TaskEnds
  <2>5. QED
    BY <2>4 DEF q
<1>2. CASE PP!Invalidated(b)
  <2>1. pp' = Ends("invalidated")
    BY <1>2 DEF PP!ResumeCancelled
  <2> HIDE DEF Ends
  <2>2. QED
    BY <1>1, <2>1
<1>3. CASE ~PP!Invalidated(b)
  <2>1. pp' = PP!Aborted(Ends("cancelled"))
    BY <1>3 DEF PP!ResumeCancelled
  <2>2. LaneCancelled(pp, b)
    BY <1>0, <1>3 DEF PoolInv, CancelledByLane, PP!Invalidated
  <2> HIDE DEF Ends
  <2>3. QED
    BY <1>1, <2>1, <2>2, AbortedInv
<1>. QED
    BY <1>2, <1>3

\* The lane enters another phase: it cancels running batches C of its own, and
\* goes back to work only when no batch ended cancelled.
LEMMA PhaseInv ==
  ASSUME NEW p, PoolInv(p), NEW h \in Phases, h = "stopped" => p.runner = PP!NoRunner,
         NEW a \in Nat, NEW C \in SUBSET PP!Ids, \A b \in C : p.task[b] = "running",
         NEW q, q = [p EXCEPT !.phase = h, !.awaited = a, !.cancel = p.cancel \union C],
         CancelledByLane(q)
  PROVE  PoolInv(q)
<1>0. p \in PoolStates /\ p.cancel \union C \in SUBSET PP!Ids
    BY DEF PoolInv, PoolStates
<1>1. q \in PoolStates
    BY <1>0 DEF PoolStates
<1>2. /\ q.gen = p.gen /\ q.next = p.next /\ q.generation = p.generation
      /\ q.invalidated = p.invalidated /\ q.runner = p.runner /\ q.pools = p.pools
      /\ q.task = p.task /\ q.stale = p.stale /\ q.phase = h /\ q.awaited = a
      /\ q.cancel = p.cancel \union C
    BY <1>0 DEF PoolStates
<1>3. LeftIsInvalidated(q) /\ RunnersPool(q) /\ Unsubmitted(q)
    BY <1>2 DEF PoolInv, LeftIsInvalidated, RunnersPool, Unsubmitted
<1>. QED
    BY <1>1, <1>3 DEF PoolInv

\* The lane gives up, with every running batch cancelled.
LEMMA GivesUpInv ==
  ASSUME PoolInv(pp)
  PROVE  PoolInv(PP!Aborted([pp EXCEPT !.phase = "stop", !.cancel = @ \union PP!Running]))
<1> DEFINE q == [pp EXCEPT !.phase = "stop", !.cancel = @ \union PP!Running]
<1>0. pp \in PoolStates /\ pp.awaited \in Nat
    BY DEF PoolInv, PoolStates
<1>1. q = [pp EXCEPT !.phase = "stop", !.awaited = pp.awaited,
                     !.cancel = pp.cancel \union PP!Running]
    BY <1>0 DEF PoolStates
<1>2. q.phase = "stop"
    BY <1>0 DEF PoolStates
<1> HIDE DEF q
<1>3. CancelledByLane(q)
    BY <1>2 DEF CancelledByLane, LaneCancelled
<1>4. PP!Running \in SUBSET PP!Ids /\ \A b \in PP!Running : pp.task[b] = "running"
    BY DEF PP!Running
<1>5. "stop" \in Phases /\ "stop" # "stopped"
    BY DEF Phases
<1>6. PoolInv(q)
    BY ZenonT(90), <1>0, <1>1, <1>3, <1>4, <1>5, PhaseInv
<1>. QED
    BY <1>6, AbortedInv DEF q

\* The lane's own steps.
LEMMA LaneInv ==
  ASSUME PoolInv(pp), PP!AbortBatches \/ PP!CancelLane \/ PP!LaneResumes \/ PP!LaneEnds
  PROVE  PoolInv(pp')
<1>0. pp \in PoolStates /\ pp.awaited \in Nat /\ Phases = {"run", "cancelling", "stop", "stopped"}
    BY DEF PoolInv, PoolStates, Phases
<1>1. CASE PP!AbortBatches
    BY SMTT(60), <1>1, GivesUpInv DEF PP!AbortBatches
<1>2. CASE PP!CancelLane
  <2> DEFINE b == CHOOSE x \in PP!Running : \A y \in PP!Running : x <= y
  <2>1. b \in PP!Running
    BY <1>2, OldestBatch DEF PP!CancelLane, PP!Running
  <2>2. pp' = [pp EXCEPT !.phase = "cancelling", !.awaited = b, !.cancel = pp.cancel \union {b}]
    BY <1>2 DEF PP!CancelLane
  <2> HIDE DEF b
  <2>3. b \in PP!Ids /\ b \in Nat /\ pp.task[b] = "running" /\ pp.phase = "run"
    BY <1>2, <2>1 DEF PP!CancelLane, PP!Running, PP!Ids
  <2>4. /\ pp'.phase = "cancelling" /\ pp'.awaited = b /\ pp'.task = pp.task
        /\ pp'.gen = pp.gen /\ pp'.invalidated = pp.invalidated
        /\ pp'.cancel = pp.cancel \union {b}
    BY <1>0, <2>2 DEF PoolStates
  <2>5. CancelledByLane(pp')
    BY <2>3, <2>4 DEF PoolInv, CancelledByLane, LaneCancelled
  <2>6. QED
    BY ZenonT(90), <1>0, <2>2, <2>3, <2>5, PhaseInv
<1>3. CASE PP!LaneResumes
  <2>1. CASE pp.task[pp.awaited] = "cancelled"
    BY <1>3, <2>1, GivesUpInv DEF PP!LaneResumes
  <2>2. CASE pp.task[pp.awaited] # "cancelled"
    <3>1. /\ pp' = [pp EXCEPT !.phase = "run", !.awaited = pp.awaited,
                              !.cancel = pp.cancel \union {}]
          /\ pp.phase = "cancelling" /\ pp.awaited \notin PP!Running
      BY <1>0, <1>3, <2>2 DEF PP!LaneResumes, PoolStates
    <3>2. /\ pp'.phase = "run" /\ pp'.task = pp.task /\ pp'.gen = pp.gen
          /\ pp'.invalidated = pp.invalidated /\ pp'.cancel = pp.cancel
      BY <1>0, <3>1 DEF PoolStates
    <3>3. CancelledByLane(pp')
      BY <2>2, <3>1, <3>2 DEF PoolInv, CancelledByLane, LaneCancelled, PP!Running
    <3>4. {} \in SUBSET PP!Ids /\ "run" # "stopped" /\ \A b \in {} : pp.task[b] = "running"
      OBVIOUS
    <3>5. QED
      BY ZenonT(90), <1>0, <3>1, <3>3, <3>4, PhaseInv
  <2>3. QED
    BY <2>1, <2>2
<1>4. CASE PP!LaneEnds
  <2>1. pp' = [pp EXCEPT !.phase = "stop", !.awaited = pp.awaited, !.cancel = pp.cancel \union {}]
    BY <1>0, <1>4 DEF PP!LaneEnds, PoolStates
  <2>2. pp'.phase = "stop"
    BY <1>0, <2>1 DEF PoolStates
  <2>3. CancelledByLane(pp')
    BY <2>2 DEF CancelledByLane, LaneCancelled
  <2>4. {} \in SUBSET PP!Ids /\ "stop" # "stopped" /\ \A b \in {} : pp.task[b] = "running"
    OBVIOUS
  <2>5. QED
    BY ZenonT(90), <1>0, <2>1, <2>3, <2>4, PhaseInv
<1>. QED
    BY <1>1, <1>2, <1>3, <1>4

\* on_stop leaves no pool behind.
LEMMA OnStopInv == ASSUME PoolInv(pp), PP!OnStop PROVE PoolInv(pp')
<1>0. pp \in PoolStates /\ pp.phase = "stop"
    BY DEF PoolInv, PP!OnStop
<1> DEFINE A == [b \in PP!Ids |-> IF b \in PP!Running /\ pp.answer[b] = "none"
                                  THEN "error" ELSE pp.answer[b]]
<1>1. pp' = [pp EXCEPT !.phase = "stopped", !.pools = {}, !.runner = PP!NoRunner, !.answer = A]
  <2>1. PP!Terminated(pp) = {}
    BY DEF PP!Terminated, PoolInv, RunnersPool
  <2>2. QED
    BY <2>1 DEF PP!OnStop
<1>2. A \in [PP!Ids -> Answers]
    BY <1>0 DEF PoolStates, Answers
<1> HIDE DEF A
<1>b. PP!NoRunner \in Int /\ "stopped" \in Phases /\ {} \in SUBSET Int
    BY DEF Phases, PP!NoRunner
<1>3. pp' \in PoolStates
    BY <1>0, <1>b, <1>1, <1>2 DEF PoolStates
<1>4. /\ pp'.gen = pp.gen /\ pp'.next = pp.next /\ pp'.generation = pp.generation
      /\ pp'.invalidated = pp.invalidated /\ pp'.runner = PP!NoRunner /\ pp'.pools = {}
      /\ pp'.task = pp.task /\ pp'.stale = pp.stale /\ pp'.phase = "stopped"
      /\ pp'.cancel = pp.cancel
    BY <1>0, <1>1 DEF PoolStates
<1>. QED
    BY <1>3, <1>4 DEF PoolInv, LeftIsInvalidated, RunnersPool, CancelledByLane, LaneCancelled,
       Unsubmitted

\* The invariant of the pool holds in every state.
LEMMA PoolInvariance == ASSUME PoolBounds PROVE PP!Spec => []PoolInv(pp)
<1>1. PP!Init => PoolInv(pp)
    BY PoolInit
<1>2. PoolInv(pp) /\ [PP!Next]_pp => PoolInv(pp)'
  <2> SUFFICES ASSUME PoolInv(pp), [PP!Next]_pp PROVE PoolInv(pp')
    BY DEF PoolInv, LeftIsInvalidated, RunnersPool, CancelledByLane, LaneCancelled, Unsubmitted
  <2>1. CASE pp' = pp
    BY <2>1
  <2>2. QED
    BY <2>1, SubmitInv, AnswersInv, ResumeInv, ResumeCancelledInv, LaneInv, OnStopInv
       DEF PP!Next, PP!Ends
<1>. QED
    BY <1>1, <1>2, PTL DEF PP!Spec

\* What the composed specification does to the pool is what ProcessPool does.
LEMMA PoolRuns == RuntimeSpec => PP!Spec
<1>1. RuntimeInit => PP!Init
    BY DEF RuntimeInit
<1>2. [RuntimeNext]_all => [PP!Next]_pp
    BY DEF RuntimeNext, all
<1>. QED
    BY <1>1, <1>2, PTL DEF RuntimeSpec, RuntimeSafety, PP!Spec

\* Whatever times out, dies or is cancelled, for any number of batches: no batch
\* succeeds with the result of an invalidated pool, no pool but the current one
\* runs, and a batch ends cancelled only if the lane cancelled it.
THEOREM PoolStaysCurrent == ASSUME PoolBounds PROVE RuntimeSpec => []PoolIsCurrent
<1>1. PoolInv(pp) => PoolIsCurrent
  <2> SUFFICES ASSUME PoolInv(pp) PROVE PoolIsCurrent
    OBVIOUS
  <2>1. PP!NoStaleResult /\ PP!OnePool
    BY DEF PoolInv, LeftIsInvalidated, RunnersPool, PP!NoStaleResult, PP!OnePool
  <2>2. PP!SiblingsFailNotCancelled
    BY DEF PoolInv, CancelledByLane, LaneCancelled, PP!SiblingsFailNotCancelled
  <2>3. QED
    BY <2>1, <2>2 DEF PP!PoolIsCurrent, PoolIsCurrent
<1>. QED
    BY <1>1, PoolInvariance, PoolRuns, PTL

-----------------------------------------------------------------------------
(* SourcePrefetch.                                                         *)

\* Any prefetch_limit, any length of the source.
PrefetchBounds == MaxRecords \in Nat /\ MaxLimit \in Nat

Item == [raw : Nat, checkpoint : Nat]

PrefetchStates ==
  [conf : [mode : {"python", "rust"}, limit : Nat, records : Nat, fails : BOOLEAN],
   pos : Nat, pending : Seq(Item), queue : Seq(Item), closed : BOOLEAN, held : BOOLEAN,
   prod : {"pull", "put", "puterror", "putdone", "push", "pushlast", "dead"},
   hand : Seq(Item),
   cons : {"get", "check", "wait", "yield", "lane", "abandoned", "leave", "join", "left"},
   out : Seq(Item), how : {"running", "end", "error", "aborted"}, open : BOOLEAN, late : Nat]

\* What a source hands over: its records, then an error if it fails, then the end.
ItemAt(c, i) ==
  IF i <= c.records THEN [raw |-> i, checkpoint |-> i]
  ELSE IF c.fails /\ i = c.records + 1 THEN SP!SourceQueueError ELSE SP!Done

\* q holds what comes after the first n items.
After(c, q, n) == \A i \in 1 .. Len(q) : q[i] = ItemAt(c, n + i)

Common(p) ==
  /\ p \in PrefetchStates
  /\ p.conf.limit > 0 /\ p.pos <= p.conf.records /\ p.conf.records <= MaxRecords
  /\ After(p.conf, p.out, 0) /\ Len(p.out) <= p.conf.records
  /\ Len(p.queue) <= p.conf.limit
  /\ p.open => p.late = 0
  /\ ~p.open => p.cons \in {"abandoned", "leave", "join", "left"}

\* The task's queue is still the lane's.
Flowing(p) == p.cons \in {"get", "lane", "abandoned"} \/ (p.cons = "leave" /\ p.how = "aborted")

\* Items the task has put into the queue.
Handed(p) ==
  LET marks == IF p.conf.fails THEN 1 ELSE 0
  IN CASE p.prod \in {"pull", "puterror"} -> p.pos
       [] p.prod = "put" -> p.pos - 1
       [] p.prod = "putdone" -> p.conf.records + marks
       [] OTHER -> p.conf.records + marks + 1

\* How far the task has read ahead of the lane.
TaskBounds(p) ==
  /\ p.pos <= Len(p.out) + p.conf.limit + 1
  /\ p.late <= p.pos - Len(p.out) /\ Len(p.out) <= p.pos

\* The queue continues what the lane has got.
TaskQueue(p) ==
  Flowing(p) =>
    /\ After(p.conf, p.queue, Len(p.out))
    /\ Len(p.out) + Len(p.queue) = Handed(p)
    /\ p.prod \in {"puterror", "putdone", "dead"} => p.pos = p.conf.records
    /\ p.prod = "puterror" => p.conf.fails
    /\ p.pending = (IF p.prod = "put" THEN <<ItemAt(p.conf, p.pos)>> ELSE <<>>)
    /\ p.prod = "put" => p.pos >= 1

\* The task ends, and the lane learns how.
TaskEnd(p) ==
  /\ p.prod \in {"pull", "put", "puterror", "putdone", "dead"}
  /\ p.cons \in {"get", "lane", "abandoned", "leave", "join", "left"}
  /\ p.held = FALSE /\ p.hand = <<>>
  /\ ~Flowing(p) => p.prod \in {"putdone", "dead"}
  /\ p.how = "end" => ~p.conf.fails /\ Len(p.out) = p.conf.records
  /\ p.how = "error" => p.conf.fails /\ Len(p.out) = p.conf.records
  /\ p.cons = "left" => p.prod = "dead"

TaskInv(p) == TaskBounds(p) /\ TaskQueue(p) /\ TaskEnd(p)

\* How far the thread has read ahead of the lane.
ThreadBounds(p) ==
  /\ Len(p.hand) <= p.conf.limit /\ Len(p.pending) <= p.conf.limit
  /\ p.prod = "pull" => Len(p.pending) < p.conf.limit
  /\ p.open = FALSE => p.late <= Len(p.queue) + Len(p.pending)
  /\ p.cons = "left" => p.pos <= Len(p.out) + 2 * p.conf.limit + Len(p.pending)

\* Generator, buffer and thread hold what comes after the lane's records.
ThreadQueue(p) ==
  p.cons # "left" =>
    /\ After(p.conf, p.hand, Len(p.out))
    /\ After(p.conf, p.queue, Len(p.out) + Len(p.hand))
    /\ After(p.conf, p.pending, Len(p.out) + Len(p.hand) + Len(p.queue))
    /\ p.pos = Len(p.out) + Len(p.hand) + Len(p.queue) + Len(p.pending)

\* The thread ends, and the lane learns how.
ThreadEnd(p) ==
  /\ p.prod \in {"pull", "push", "pushlast", "dead"}
  /\ p.prod = "pushlast" => p.pos = p.conf.records /\ ~p.conf.fails
  /\ p.cons \in {"get", "check", "wait"} => p.hand = <<>>
  /\ p.cons = "yield" => p.hand # <<>>
  /\ p.cons \in {"join", "left"} => p.closed
  /\ p.closed /\ p.cons \notin {"join", "left"} =>
       /\ p.prod = "dead" /\ p.pos = p.conf.records
       /\ p.held \/ (p.pending = <<>> /\ ~p.conf.fails)
  /\ p.how = "end" => /\ p.prod = "dead"
                      /\ p.held \/ (~p.conf.fails /\ Len(p.out) = p.conf.records)
  /\ p.cons = "left" /\ p.how = "end" => ~p.held

ThreadInv(p) == ThreadBounds(p) /\ ThreadQueue(p) /\ ThreadEnd(p)

PrefetchInv(p) ==
  /\ Common(p)
  /\ p.conf.mode = "python" => TaskInv(p)
  /\ p.conf.mode = "rust" => ThreadInv(p)

-----------------------------------------------------------------------------
(* Streams and parts of streams.                                           *)

\* Sequences have a length, which is zero for the empty one only.
LEMMA Lengths ==
  ASSUME NEW q \in Seq(Item)
  PROVE  Len(q) \in Nat /\ (q = <<>> <=> Len(q) = 0) /\ <<>> \in Seq(Item) /\ Len(<<>>) = 0
<1>1. q = <<>> <=> Len(q) = 0
    BY EmptySeq
<1>. QED
    BY <1>1

\* Records are told apart from the marks that come after them.
LEMMA Items ==
  ASSUME NEW c, c.records \in Nat, NEW i \in Nat \ {0}
  PROVE  /\ ItemAt(c, i) \in Item
         /\ ItemAt(c, i) \in {SP!Done, SP!SourceQueueError} <=> i > c.records
         /\ i <= c.records => ItemAt(c, i) = [raw |-> i, checkpoint |-> i]
         /\ ItemAt(c, c.records + 1) = SP!Done <=> ~c.fails
BY DEF ItemAt, Item, SP!Done, SP!SourceQueueError

\* The next item is put after the ones that are there.
LEMMA Grows ==
  ASSUME NEW c, NEW q \in Seq(Item), NEW n \in Nat, After(c, q, n), NEW x \in Item,
         x = ItemAt(c, n + Len(q) + 1)
  PROVE  /\ Append(q, x) \in Seq(Item) /\ Len(Append(q, x)) = Len(q) + 1
         /\ After(c, Append(q, x), n) /\ q \o <<x>> = Append(q, x)
<1>1. /\ Append(q, x) \in Seq(Item) /\ Len(Append(q, x)) = Len(q) + 1
      /\ \A i \in 1 .. Len(q) : Append(q, x)[i] = q[i]
      /\ Append(q, x)[Len(q) + 1] = x
    BY AppendProperties
<1>2. After(c, Append(q, x), n)
    BY <1>1, Lengths DEF After
<1>3. q \o <<x>> = Append(q, x)
    BY AppendIsConcat
<1>. QED
    BY <1>1, <1>2, <1>3

\* The oldest item is taken from the front.
LEMMA Shrinks ==
  ASSUME NEW c, NEW q \in Seq(Item), q # <<>>, NEW n \in Nat, After(c, q, n)
  PROVE  /\ Head(q) = ItemAt(c, n + 1) /\ Head(q) \in Item
         /\ Tail(q) \in Seq(Item) /\ Len(Tail(q)) = Len(q) - 1 /\ Len(q) > 0
         /\ After(c, Tail(q), n + 1)
<1>1. /\ Head(q) \in Item /\ Tail(q) \in Seq(Item) /\ Len(Tail(q)) = Len(q) - 1
      /\ \A i \in 1 .. Len(Tail(q)) : Tail(q)[i] = q[i + 1]
    BY HeadTailProperties
<1>2. Len(q) \in Nat /\ Len(q) > 0
    BY Lengths
<1>3. Head(q) = ItemAt(c, n + 1)
    BY <1>2 DEF After
<1>4. After(c, Tail(q), n + 1)
  <2> SUFFICES ASSUME NEW i \in 1 .. Len(Tail(q)) PROVE Tail(q)[i] = ItemAt(c, n + 1 + i)
    BY DEF After
  <2>1. i + 1 \in 1 .. Len(q) /\ n + 1 + i = n + (i + 1)
    BY <1>1, <1>2
  <2>2. QED
    BY <1>1, <2>1 DEF After
<1>. QED
    BY <1>1, <1>2, <1>3, <1>4

\* The fields of a state.
LEMMA PrefetchFields ==
  ASSUME NEW p \in PrefetchStates
  PROVE  /\ p.conf.mode \in {"python", "rust"} /\ p.conf.limit \in Nat /\ p.conf.records \in Nat
         /\ p.conf.fails \in BOOLEAN
         /\ p.pos \in Nat /\ p.late \in Nat
         /\ p.pending \in Seq(Item) /\ p.queue \in Seq(Item)
         /\ p.hand \in Seq(Item) /\ p.out \in Seq(Item)
         /\ p.closed \in BOOLEAN /\ p.held \in BOOLEAN /\ p.open \in BOOLEAN
BY DEF PrefetchStates

\* The lengths of a state.
LEMMA PrefetchLengths ==
  ASSUME NEW p \in PrefetchStates
  PROVE  /\ Len(p.pending) \in Nat /\ Len(p.queue) \in Nat /\ Len(p.hand) \in Nat
         /\ Len(p.out) \in Nat /\ Len(<<>>) = 0 /\ <<>> \in Seq(Item)
         /\ (p.pending = <<>> <=> Len(p.pending) = 0) /\ (p.queue = <<>> <=> Len(p.queue) = 0)
         /\ (p.hand = <<>> <=> Len(p.hand) = 0)
BY PrefetchFields, Lengths

\* The numbers of a state, by name.
LEMMA Numbers ==
  ASSUME NEW p \in PrefetchStates
  PROVE  \E n, o, k, h, d, m, r, l \in Nat :
           /\ p.pos = n /\ Len(p.out) = o /\ Len(p.queue) = k /\ Len(p.hand) = h
           /\ Len(p.pending) = d /\ p.conf.limit = m /\ p.conf.records = r /\ p.late = l
BY PrefetchLengths, PrefetchFields

-----------------------------------------------------------------------------
(* The asyncio task and its queue.                                         *)

\* The task pulls a record.
LEMMA TaskPulls ==
  ASSUME PrefetchInv(sp), sp.conf.mode = "python", SP!Pull PROVE PrefetchInv(sp')
<1>0. sp \in PrefetchStates /\ Common(sp) /\ TaskBounds(sp) /\ TaskQueue(sp) /\ TaskEnd(sp)
    BY DEF PrefetchInv, Common, TaskInv
<1>1. PICK n, o, k, h, d, m, r, l \in Nat :
           /\ sp.pos = n /\ Len(sp.out) = o /\ Len(sp.queue) = k /\ Len(sp.hand) = h
           /\ Len(sp.pending) = d /\ sp.conf.limit = m /\ sp.conf.records = r /\ sp.late = l
    BY <1>0, Numbers
<1>2. sp.prod = "pull" /\ n < r
    BY <1>1 DEF SP!Pull
<1>3. Flowing(sp) /\ sp.pending = <<>> /\ o + k = n /\ k <= m /\ l <= n - o
    BY <1>0, <1>1, <1>2 DEF TaskBounds, TaskQueue, TaskEnd, Handed, Common
<1> DEFINE x == ItemAt(sp.conf, n + 1)
<1>4. x \in Item /\ x = [raw |-> n + 1, checkpoint |-> n + 1]
    BY SMTT(60), <1>1, <1>2, Items
<1>5. Append(sp.pending, x) = <<x>> /\ <<x>> \in Seq(Item)
    BY <1>3, <1>4
<1>6. PICK j \in Nat :
        /\ sp' = [sp EXCEPT !.pos = n + 1, !.pending = <<x>>, !.prod = "put", !.late = j]
        /\ (sp.open => j = l) /\ j <= l + 1
  <2>1. sp' = [sp EXCEPT !.pos = n + 1, !.pending = <<x>>, !.prod = "put",
                         !.late = l + IF sp.open THEN 0 ELSE 1]
    BY <1>1, <1>4, <1>5 DEF SP!Pull, SP!Python, SP!SourceRecord
  <2>2. CASE sp.open
    <3>1. sp' = [sp EXCEPT !.pos = n + 1, !.pending = <<x>>, !.prod = "put", !.late = l + 0]
      BY <2>1, <2>2
    <3>2. l + 0 \in Nat /\ l + 0 = l /\ l + 0 <= l + 1
      OBVIOUS
    <3>3. QED
      BY ZenonT(90), <3>1, <3>2
  <2>3. CASE ~sp.open
    <3>1. sp' = [sp EXCEPT !.pos = n + 1, !.pending = <<x>>, !.prod = "put", !.late = l + 1]
      BY <2>1, <2>3
    <3>2. l + 1 \in Nat /\ l + 1 <= l + 1
      OBVIOUS
    <3>3. QED
      BY ZenonT(90), <2>3, <3>1, <3>2
  <2>4. QED
    BY ZenonT(90), <2>2, <2>3
<1>7. /\ n + 1 \in Nat /\ n + 1 <= o + m + 1 /\ j <= (n + 1) - o /\ o <= n + 1 /\ n + 1 <= r
      /\ o + k = (n + 1) - 1 /\ n + 1 >= 1
  <2>1. n < r /\ o + k = n /\ k <= m /\ l <= n - o /\ j <= l + 1
    BY <1>2, <1>3, <1>6
  <2>2. QED
    BY <2>1
<1> HIDE DEF x
<1>8. sp' \in PrefetchStates
    BY <1>0, <1>5, <1>6, <1>7 DEF PrefetchStates
<1>9. /\ sp'.conf = sp.conf /\ sp'.pos = n + 1 /\ sp'.pending = <<x>> /\ sp'.prod = "put"
      /\ sp'.late = j /\ sp'.queue = sp.queue /\ sp'.held = sp.held /\ sp'.hand = sp.hand
      /\ sp'.cons = sp.cons /\ sp'.out = sp.out /\ sp'.how = sp.how /\ sp'.open = sp.open
    BY <1>0, <1>6 DEF PrefetchStates
<1>10. Common(sp')
    BY ZenonT(90), <1>0, <1>1, <1>6, <1>7, <1>8, <1>9 DEF Common
<1>11. TaskBounds(sp')
    BY <1>1, <1>7, <1>9 DEF TaskBounds
<1>12. TaskQueue(sp')
    BY <1>0, <1>1, <1>3, <1>7, <1>9 DEF TaskQueue, Handed, x
<1>13. TaskEnd(sp')
    BY <1>0, <1>2, <1>3, <1>9 DEF TaskEnd, Flowing
<1>. QED
    BY <1>9, <1>10, <1>11, <1>12, <1>13 DEF PrefetchInv, TaskInv

\* The source has ended or raised, and the task puts the marks.
LEMMA TaskSourceEnds ==
  ASSUME PrefetchInv(sp), sp.conf.mode = "python", SP!SourceEnds PROVE PrefetchInv(sp')
<1>0. sp \in PrefetchStates /\ Common(sp) /\ TaskBounds(sp) /\ TaskQueue(sp) /\ TaskEnd(sp)
    BY DEF PrefetchInv, Common, TaskInv
<1>1. PICK n, o, k, h, d, m, r, l \in Nat :
           /\ sp.pos = n /\ Len(sp.out) = o /\ Len(sp.queue) = k /\ Len(sp.hand) = h
           /\ Len(sp.pending) = d /\ sp.conf.limit = m /\ sp.conf.records = r /\ sp.late = l
    BY <1>0, Numbers
<1>2. sp.prod = "pull" /\ n = r
    BY <1>1 DEF SP!SourceEnds
<1>3. Flowing(sp) /\ sp.pending = <<>> /\ o + k = n
    BY <1>0, <1>1, <1>2 DEF TaskQueue, TaskEnd, Handed
<1>4. PICK g \in {"puterror", "putdone"} :
        sp' = [sp EXCEPT !.prod = g] /\ (g = "puterror" <=> sp.conf.fails)
    BY <1>0, PrefetchFields DEF SP!SourceEnds, SP!Python
<1>5. sp' \in PrefetchStates
    BY <1>0, <1>4 DEF PrefetchStates
<1>6. /\ sp'.conf = sp.conf /\ sp'.pos = sp.pos /\ sp'.pending = <<>> /\ sp'.prod = g
      /\ sp'.late = sp.late /\ sp'.queue = sp.queue /\ sp'.held = sp.held /\ sp'.hand = sp.hand
      /\ sp'.cons = sp.cons /\ sp'.out = sp.out /\ sp'.how = sp.how /\ sp'.open = sp.open
    BY <1>0, <1>3, <1>4 DEF PrefetchStates
<1>7. Common(sp') /\ TaskBounds(sp')
    BY <1>0, <1>5, <1>6 DEF Common, TaskBounds
<1>8. TaskQueue(sp')
  <2>1. r + 0 = n
    BY <1>2
  <2>2. Handed(sp') = n
    BY <1>1, <1>2, <1>4, <1>6, <2>1 DEF Handed
  <2>3. QED
    BY <1>0, <1>1, <1>2, <1>3, <1>4, <1>6, <2>2 DEF TaskQueue
<1>9. TaskEnd(sp')
    BY <1>0, <1>3, <1>6 DEF TaskEnd, Flowing
<1>. QED
    BY <1>6, <1>7, <1>8, <1>9 DEF PrefetchInv, TaskInv

\* The task puts a record or a mark into the queue.
LEMMA TaskPuts ==
  ASSUME PrefetchInv(sp), sp.conf.mode = "python", SP!Put PROVE PrefetchInv(sp')
<1>0. sp \in PrefetchStates /\ Common(sp) /\ TaskBounds(sp) /\ TaskQueue(sp) /\ TaskEnd(sp)
    BY DEF PrefetchInv, Common, TaskInv
<1>1. PICK n, o, k, h, d, m, r, l \in Nat :
           /\ sp.pos = n /\ Len(sp.out) = o /\ Len(sp.queue) = k /\ Len(sp.hand) = h
           /\ Len(sp.pending) = d /\ sp.conf.limit = m /\ sp.conf.records = r /\ sp.late = l
    BY <1>0, Numbers
<1>2. sp.prod \in {"put", "puterror", "putdone"} /\ k < m
    BY SMTT(60), <1>1 DEF SP!Put, SP!Room, SP!Limit
<1>d. SP!Done \in Item /\ SP!SourceQueueError \in Item
    BY DEF SP!Done, SP!SourceQueueError, Item
<1>3. PICK x \in Item, P \in Seq(Item), g \in {"pull", "putdone", "dead"} :
        /\ sp' = [sp EXCEPT !.queue = Append(sp.queue, x), !.pending = P, !.prod = g]
        /\ Flowing(sp) => P = <<>> /\ x = ItemAt(sp.conf, o + k + 1)
        /\ \/ sp.prod = "put" /\ g = "pull"
           \/ sp.prod = "puterror" /\ g = "putdone"
           \/ sp.prod = "putdone" /\ g = "dead"
  <2>1. CASE sp.prod = "put"
    <3>1. Flowing(sp) /\ o + k = n - 1 /\ sp.pending = <<ItemAt(sp.conf, n)>> /\ n >= 1
      BY <1>0, <1>1, <2>1 DEF TaskQueue, TaskEnd, Handed
    <3>2. n = o + k + 1 /\ n \in Nat \ {0}
      BY <3>1
    <3>3. ItemAt(sp.conf, n) \in Item
      BY <1>1, <3>2, Items
    <3>4. sp.queue \in Seq(Item) /\ sp.queue \o <<ItemAt(sp.conf, n)>>
                                      = Append(sp.queue, ItemAt(sp.conf, n))
      BY <1>0, <3>3, AppendIsConcat, PrefetchFields
    <3>5. sp' = [sp EXCEPT !.queue = Append(sp.queue, ItemAt(sp.conf, n)), !.pending = <<>>,
                           !.prod = "pull"]
      BY <2>1, <3>1, <3>4 DEF SP!Put
    <3>6. <<>> \in Seq(Item)
      OBVIOUS
    <3>7. QED
      BY ZenonT(90), <2>1, <3>2, <3>3, <3>5, <3>6
  <2>2. CASE sp.prod = "puterror"
    <3>1. Flowing(sp) /\ o + k = r /\ sp.pending = <<>> /\ sp.conf.fails
      BY <1>0, <1>1, <2>2 DEF TaskQueue, TaskEnd, Handed
    <3>2. sp' = [sp EXCEPT !.queue = Append(sp.queue, SP!SourceQueueError), !.pending = <<>>,
                           !.prod = "putdone"]
      BY ZenonT(90), <1>0, <2>2, <3>1 DEF SP!Put, PrefetchStates
    <3>3. SP!SourceQueueError = ItemAt(sp.conf, o + k + 1)
      BY <1>1, <3>1 DEF ItemAt
    <3>4. <<>> \in Seq(Item)
      OBVIOUS
    <3>5. QED
      BY ZenonT(90), <1>d, <2>2, <3>1, <3>2, <3>3, <3>4
  <2>3. CASE sp.prod = "putdone"
    <3>1. sp.pending \in Seq(Item)
      BY <1>0, PrefetchFields
    <3>2. sp' = [sp EXCEPT !.queue = Append(sp.queue, SP!Done), !.pending = sp.pending,
                           !.prod = "dead"]
      BY <1>0, <2>3 DEF SP!Put, PrefetchStates
    <3>3. ASSUME Flowing(sp) PROVE sp.pending = <<>> /\ SP!Done = ItemAt(sp.conf, o + k + 1)
      <4>1. sp.pending = <<>> /\ o + k = r + (IF sp.conf.fails THEN 1 ELSE 0)
        BY <1>0, <1>1, <2>3, <3>3 DEF TaskQueue, Handed
      <4>2. QED
        BY <1>1, <4>1 DEF ItemAt
    <3>4. QED
      BY ZenonT(90), <1>d, <2>3, <3>1, <3>2, <3>3
  <2>4. QED
    BY ZenonT(90), <1>2, <2>1, <2>2, <2>3
<1>4. /\ Append(sp.queue, x) \in Seq(Item) /\ Len(Append(sp.queue, x)) = k + 1
      /\ Flowing(sp) => After(sp.conf, Append(sp.queue, x), o)
  <2>1. Append(sp.queue, x) \in Seq(Item) /\ Len(Append(sp.queue, x)) = k + 1
    BY SMTT(60), <1>0, <1>1, AppendProperties, PrefetchFields
  <2>2. ASSUME Flowing(sp) PROVE After(sp.conf, Append(sp.queue, x), o)
    BY <1>0, <1>1, <1>3, <2>2, Grows, PrefetchFields DEF TaskQueue
  <2>3. QED
    BY <2>1, <2>2
<1>5. sp' \in PrefetchStates
    BY <1>0, <1>3, <1>4 DEF PrefetchStates
<1>6. /\ sp'.conf = sp.conf /\ sp'.pos = sp.pos /\ sp'.pending = P /\ sp'.prod = g
      /\ sp'.late = sp.late /\ sp'.queue = Append(sp.queue, x) /\ sp'.held = sp.held
      /\ sp'.hand = sp.hand /\ sp'.cons = sp.cons /\ sp'.out = sp.out /\ sp'.how = sp.how
      /\ sp'.open = sp.open
    BY <1>0, <1>3 DEF PrefetchStates
<1>7. k + 1 <= m
    BY <1>2
<1>8. Common(sp') /\ TaskBounds(sp')
    BY <1>0, <1>1, <1>4, <1>5, <1>6, <1>7 DEF Common, TaskBounds
<1>9. TaskQueue(sp')
  <2>1. SUFFICES ASSUME Flowing(sp) PROVE TaskQueue(sp')
    BY <1>6 DEF TaskQueue, Flowing
  <2>2. o + k = Handed(sp)
    BY <1>0, <1>1, <2>1 DEF TaskQueue
  <2>3. Handed(sp') = o + k + 1
    <3>1. CASE sp.prod = "put"
      <4>1. o + k = n - 1 /\ Handed(sp') = n
        BY <1>1, <1>3, <1>6, <2>2, <3>1 DEF Handed
      <4>2. QED
        BY <4>1
    <3>2. CASE sp.prod = "puterror"
      <4>1. o + k = n /\ n = r /\ sp.conf.fails
        BY <1>0, <1>1, <2>1, <2>2, <3>2 DEF Handed, TaskQueue
      <4>2. Handed(sp') = r + 1
        BY <1>1, <1>3, <1>6, <3>2, <4>1 DEF Handed
      <4>3. QED
        BY <4>1, <4>2
    <3>3. CASE sp.prod = "putdone"
      <4>1. PICK j \in Nat : j = IF sp.conf.fails THEN 1 ELSE 0
        OBVIOUS
      <4>2. o + k = r + j /\ Handed(sp') = r + j + 1
        BY <1>1, <1>3, <1>6, <2>2, <3>3, <4>1 DEF Handed
      <4>3. QED
        BY <4>2
    <3>4. QED
      BY <1>2, <3>1, <3>2, <3>3
  <2>4. o + (k + 1) = o + k + 1
    OBVIOUS
  <2>5. sp.prod # "put" => n = r
    BY <1>0, <1>1, <1>2, <2>1 DEF TaskQueue
  <2>6. QED
    BY <1>1, <1>3, <1>4, <1>6, <2>1, <2>3, <2>4, <2>5 DEF TaskQueue
<1>10. TaskEnd(sp')
    BY <1>0, <1>3, <1>6 DEF TaskEnd, Flowing
<1>. QED
    BY <1>6, <1>8, <1>9, <1>10 DEF PrefetchInv, TaskInv

\* The generator takes a record for the lane, or learns that there is none.
LEMMA TaskGets ==
  ASSUME PrefetchInv(sp), sp.conf.mode = "python", SP!Get PROVE PrefetchInv(sp')
<1>0. sp \in PrefetchStates /\ Common(sp) /\ TaskBounds(sp) /\ TaskQueue(sp) /\ TaskEnd(sp)
    BY DEF PrefetchInv, Common, TaskInv
<1>1. PICK n, o, k, h, d, m, r, l \in Nat :
           /\ sp.pos = n /\ Len(sp.out) = o /\ Len(sp.queue) = k /\ Len(sp.hand) = h
           /\ Len(sp.pending) = d /\ sp.conf.limit = m /\ sp.conf.records = r /\ sp.late = l
    BY <1>0, Numbers
<1>2. sp.cons = "get" /\ sp.queue # <<>> /\ Flowing(sp)
    BY DEF SP!Get, Flowing
<1>3. /\ Head(sp.queue) = ItemAt(sp.conf, o + 1) /\ Head(sp.queue) \in Item
      /\ Tail(sp.queue) \in Seq(Item) /\ Len(Tail(sp.queue)) = k - 1 /\ k > 0
      /\ After(sp.conf, Tail(sp.queue), o + 1)
    BY ZenonT(90), <1>0, <1>1, <1>2, Shrinks, PrefetchFields DEF TaskQueue
<1>4. /\ o + k = Handed(sp) /\ l = 0 /\ sp.open /\ n <= r /\ o <= r /\ k <= m /\ n <= o + m + 1
      /\ o <= n
    BY <1>0, <1>1, <1>2, PrefetchFields DEF TaskQueue, Common, TaskBounds
<1>5. /\ k - 1 \in Nat /\ k - 1 <= m /\ (o + 1) + (k - 1) = o + k /\ o + 1 \in Nat \ {0}
      /\ n <= (o + 1) + m + 1
  <2>1. k > 0 /\ k <= m /\ n <= o + m + 1
    BY <1>3, <1>4
  <2>2. QED
    BY <2>1
<1>6. Head(sp.queue) \in {SP!Done, SP!SourceQueueError} <=> o + 1 > r
    BY <1>1, <1>3, <1>5, Items
<1>7. CASE o + 1 <= r
  <2>1. ~(o + 1 > r)
    BY <1>7
  <2>2. sp' = [sp EXCEPT !.out = Append(sp.out, Head(sp.queue)), !.queue = Tail(sp.queue),
                         !.cons = "lane"]
    BY <1>6, <2>1 DEF SP!Get, SP!Python
  <2>3. Head(sp.queue) = ItemAt(sp.conf, 0 + Len(sp.out) + 1) /\ 0 \in Nat
    <3>1. o + 1 = 0 + o + 1
      OBVIOUS
    <3>2. QED
      BY <1>1, <1>3, <3>1
  <2>4. /\ Append(sp.out, Head(sp.queue)) \in Seq(Item)
        /\ Len(Append(sp.out, Head(sp.queue))) = o + 1
        /\ After(sp.conf, Append(sp.out, Head(sp.queue)), 0)
    <3>1. sp.out \in Seq(Item) /\ After(sp.conf, sp.out, 0)
      BY <1>0, PrefetchFields DEF Common
    <3>2. PICK x \in Item : x = Head(sp.queue)
      BY <1>3
    <3>3. x = ItemAt(sp.conf, 0 + Len(sp.out) + 1) /\ 0 \in Nat
      BY <2>3, <3>2
    <3>4. /\ Append(sp.out, x) \in Seq(Item) /\ Len(Append(sp.out, x)) = Len(sp.out) + 1
          /\ After(sp.conf, Append(sp.out, x), 0)
      BY SMTT(60), <3>1, <3>3, Grows
    <3>5. QED
      BY <1>1, <3>2, <3>4
  <2>5. sp' \in PrefetchStates
    BY ZenonT(90), <1>0, <1>3, <2>2, <2>4 DEF PrefetchStates
  <2>6. /\ sp'.conf = sp.conf /\ sp'.pos = sp.pos /\ sp'.pending = sp.pending /\ sp'.prod = sp.prod
        /\ sp'.late = sp.late /\ sp'.queue = Tail(sp.queue) /\ sp'.held = sp.held
        /\ sp'.hand = sp.hand /\ sp'.cons = "lane" /\ sp'.out = Append(sp.out, Head(sp.queue))
        /\ sp'.how = sp.how /\ sp'.open = sp.open
    BY <1>0, <2>2 DEF PrefetchStates
  <2>7. o + 1 <= n
    <3>1. CASE sp.prod \in {"pull", "puterror"}
      <4>1. o + k = n
        BY <1>1, <1>4, <3>1 DEF Handed
      <4>2. QED
        BY <1>3, <4>1
    <3>2. CASE sp.prod = "put"
      <4>1. o + k = n - 1
        BY <1>1, <1>4, <3>2 DEF Handed
      <4>2. QED
        BY <1>3, <4>1
    <3>3. CASE sp.prod \in {"putdone", "dead"}
      BY <1>0, <1>1, <1>2, <1>7, <3>3 DEF TaskQueue
    <3>4. QED
      BY <1>0, <3>1, <3>2, <3>3 DEF TaskEnd
  <2>8. Common(sp')
    BY ZenonT(90), <1>0, <1>1, <1>3, <1>4, <1>5, <1>7, <2>4, <2>5, <2>6 DEF Common
  <2>9. 0 <= n - (o + 1)
    BY <2>7
  <2>10. TaskBounds(sp')
    BY <1>1, <1>4, <1>5, <2>4, <2>6, <2>7, <2>9 DEF TaskBounds
  <2>11. Handed(sp') = (o + 1) + (k - 1)
    BY <1>4, <1>5, <2>6 DEF Handed
  <2>12. TaskQueue(sp')
    BY <1>0, <1>2, <1>3, <2>4, <2>6, <2>11 DEF TaskQueue
  <2>13. sp.how \notin {"end", "error"}
    BY <1>0, <1>1, <1>7 DEF TaskEnd
  <2>14. TaskEnd(sp')
    BY <1>0, <2>6, <2>13 DEF TaskEnd, Flowing
  <2>. QED
    BY <2>6, <2>8, <2>10, <2>12, <2>14 DEF PrefetchInv, TaskInv
<1>8. CASE ~(o + 1 <= r)
  <2>1. o = r /\ o + 1 > r
    BY <1>4, <1>8
  <2>2. Head(sp.queue) = SP!Done <=> ~sp.conf.fails
    <3>1. o + 1 = r + 1 /\ 1 \in Nat \ {0}
      BY <2>1
    <3>2. Head(sp.queue) = ItemAt(sp.conf, sp.conf.records + 1) /\ sp.conf.records \in Nat
      BY <1>1, <1>3, <3>1
    <3>3. QED
      BY <3>1, <3>2, Items
  <2>3. PICK e \in {"end", "error"} :
          /\ sp' = [sp EXCEPT !.queue = Tail(sp.queue), !.cons = "leave", !.how = e]
          /\ (e = "end" <=> ~sp.conf.fails)
    BY <1>6, <2>1, <2>2 DEF SP!Get, SP!Python
  <2>4. sp' \in PrefetchStates
    BY <1>0, <1>3, <2>3 DEF PrefetchStates
  <2>5. /\ sp'.conf = sp.conf /\ sp'.pos = sp.pos /\ sp'.pending = sp.pending /\ sp'.prod = sp.prod
        /\ sp'.late = sp.late /\ sp'.queue = Tail(sp.queue) /\ sp'.held = sp.held
        /\ sp'.hand = sp.hand /\ sp'.cons = "leave" /\ sp'.out = sp.out
        /\ sp'.how = e /\ sp'.open = sp.open
    BY <1>0, <2>3 DEF PrefetchStates
  <2>6. sp.prod \in {"putdone", "dead"}
    <3>1. CASE sp.prod \in {"pull", "puterror"}
      <4>1. o + k = n
        BY <1>1, <1>4, <3>1 DEF Handed
      <4>2. QED
        BY <1>3, <1>4, <2>1, <4>1
    <3>2. CASE sp.prod = "put"
      <4>1. o + k = n - 1
        BY <1>1, <1>4, <3>2 DEF Handed
      <4>2. QED
        BY <1>3, <1>4, <2>1, <4>1
    <3>3. QED
      BY <1>0, <3>1, <3>2 DEF TaskEnd
  <2>7. Common(sp') /\ TaskBounds(sp')
    BY <1>0, <1>1, <1>3, <1>5, <2>4, <2>5 DEF Common, TaskBounds
  <2>8. TaskQueue(sp')
    BY <2>3, <2>5 DEF TaskQueue, Flowing
  <2>9. TaskEnd(sp')
    BY <1>0, <1>1, <2>1, <2>3, <2>5, <2>6 DEF TaskEnd, Flowing
  <2>. QED
    BY <2>5, <2>7, <2>8, <2>9 DEF PrefetchInv, TaskInv
<1>. QED
    BY <1>7, <1>8

\* The generator's and the lane's other steps, before the finally block.
LEMMA TaskMoves ==
  ASSUME PrefetchInv(sp), sp.conf.mode = "python", sp.cons \in {"get", "lane", "abandoned"},
         NEW g \in {"get", "abandoned", "leave"}, NEW e,
         sp' = [sp EXCEPT !.cons = g, !.how = e],
         g = "leave" => e = "aborted", g # "leave" => e = sp.how,
         g = "get" => sp.cons = "lane"
  PROVE  PrefetchInv(sp')
<1>0. sp \in PrefetchStates /\ Common(sp) /\ TaskBounds(sp) /\ TaskQueue(sp) /\ TaskEnd(sp)
    BY DEF PrefetchInv, Common, TaskInv
<1>1. sp' \in PrefetchStates
    BY <1>0 DEF PrefetchStates
<1>2. /\ sp'.conf = sp.conf /\ sp'.pos = sp.pos /\ sp'.pending = sp.pending /\ sp'.prod = sp.prod
      /\ sp'.late = sp.late /\ sp'.queue = sp.queue /\ sp'.held = sp.held
      /\ sp'.hand = sp.hand /\ sp'.cons = g /\ sp'.out = sp.out
      /\ sp'.how = e /\ sp'.open = sp.open
    BY <1>0 DEF PrefetchStates
<1>3. Common(sp') /\ TaskBounds(sp')
    BY <1>0, <1>1, <1>2 DEF Common, TaskBounds
<1>4. Flowing(sp) /\ Flowing(sp') /\ Handed(sp') = Handed(sp)
    BY <1>2 DEF Flowing, Handed
<1>5. TaskQueue(sp')
    BY <1>0, <1>2, <1>4 DEF TaskQueue
<1>6. TaskEnd(sp')
    BY <1>0, <1>2, <1>4 DEF TaskEnd
<1>. QED
    BY <1>2, <1>3, <1>5, <1>6 DEF PrefetchInv, TaskInv

\* The finally block empties the queue and cancels the task.
LEMMA TaskLeaves ==
  ASSUME PrefetchInv(sp), sp.conf.mode = "python", SP!Leave PROVE PrefetchInv(sp')
<1>0. sp \in PrefetchStates /\ Common(sp) /\ TaskBounds(sp) /\ TaskQueue(sp) /\ TaskEnd(sp)
    BY DEF PrefetchInv, Common, TaskInv
<1>1. PICK g \in {"putdone", "dead"} :
        sp' = [sp EXCEPT !.queue = <<>>, !.pending = <<>>, !.prod = g, !.cons = "join"]
    BY DEF SP!Leave, SP!CancelledProducer, SP!Python
<1>2. <<>> \in Seq(Item) /\ Len(<<>>) = 0
    OBVIOUS
<1>3. sp' \in PrefetchStates
    BY <1>0, <1>1, <1>2 DEF PrefetchStates
<1>4. /\ sp'.conf = sp.conf /\ sp'.pos = sp.pos /\ sp'.prod = g
      /\ sp'.late = sp.late /\ sp'.queue = <<>> /\ sp'.held = sp.held
      /\ sp'.hand = sp.hand /\ sp'.cons = "join" /\ sp'.out = sp.out
      /\ sp'.how = sp.how /\ sp'.open = sp.open
    BY <1>0, <1>1 DEF PrefetchStates
<1>5. sp.conf.limit >= 0
    BY <1>0, PrefetchFields
<1>6. Common(sp') /\ TaskBounds(sp')
    BY <1>0, <1>2, <1>3, <1>4, <1>5 DEF Common, TaskBounds
<1>7. TaskQueue(sp')
    BY <1>4 DEF TaskQueue, Flowing
<1>8. TaskEnd(sp')
    BY <1>0, <1>4 DEF TaskEnd, Flowing
<1>. QED
    BY <1>4, <1>6, <1>7, <1>8 DEF PrefetchInv, TaskInv

\* The generator has waited for the task.
LEMMA TaskJoins ==
  ASSUME PrefetchInv(sp), sp.conf.mode = "python", SP!Join PROVE PrefetchInv(sp')
<1>0. sp \in PrefetchStates /\ Common(sp) /\ TaskBounds(sp) /\ TaskQueue(sp) /\ TaskEnd(sp)
    BY DEF PrefetchInv, Common, TaskInv
<1>1. sp' = [sp EXCEPT !.cons = "left", !.hand = <<>>, !.queue = <<>>, !.how = sp.how]
    BY <1>0 DEF SP!Join, SP!Joined, TaskEnd
<1>2. <<>> \in Seq(Item) /\ Len(<<>>) = 0
    OBVIOUS
<1>3. sp' \in PrefetchStates
    BY <1>0, <1>1, <1>2 DEF PrefetchStates
<1>4. /\ sp'.conf = sp.conf /\ sp'.pos = sp.pos /\ sp'.prod = "dead"
      /\ sp'.late = sp.late /\ sp'.queue = <<>> /\ sp'.held = sp.held
      /\ sp'.hand = <<>> /\ sp'.cons = "left" /\ sp'.out = sp.out
      /\ sp'.how = sp.how /\ sp'.open = sp.open
    BY <1>0, <1>1 DEF PrefetchStates, SP!Join
<1>5. sp.conf.limit >= 0
    BY <1>0, PrefetchFields
<1>6. Common(sp') /\ TaskBounds(sp')
    BY <1>0, <1>2, <1>3, <1>4, <1>5 DEF Common, TaskBounds
<1>7. TaskQueue(sp')
    BY <1>4 DEF TaskQueue, Flowing
<1>8. TaskEnd(sp')
    BY <1>0, <1>4 DEF TaskEnd, Flowing
<1>. QED
    BY <1>4, <1>6, <1>7, <1>8 DEF PrefetchInv, TaskInv

-----------------------------------------------------------------------------
(* The thread and its buffer.                                              *)

\* The thread pulls a record into its batch.
LEMMA ThreadPulls ==
  ASSUME PrefetchInv(sp), sp.conf.mode = "rust", SP!Pull PROVE PrefetchInv(sp')
<1>0. /\ sp \in PrefetchStates /\ Common(sp)
      /\ ThreadBounds(sp) /\ ThreadQueue(sp) /\ ThreadEnd(sp)
    BY DEF PrefetchInv, Common, ThreadInv
<1>1. PICK n, o, k, h, d, m, r, l \in Nat :
           /\ sp.pos = n /\ Len(sp.out) = o /\ Len(sp.queue) = k /\ Len(sp.hand) = h
           /\ Len(sp.pending) = d /\ sp.conf.limit = m /\ sp.conf.records = r /\ sp.late = l
    BY <1>0, Numbers
<1>2. sp.prod = "pull" /\ n < r /\ d < m
    BY <1>0, <1>1 DEF SP!Pull, ThreadBounds
<1>3. PICK x \in Item : x = [raw |-> n + 1, checkpoint |-> n + 1] /\ x = ItemAt(sp.conf, n + 1)
  <2>1. n + 1 \in Nat \ {0} /\ n + 1 <= r
    BY <1>2
  <2>2. ItemAt(sp.conf, n + 1) \in Item
    BY <1>1, <2>1, Items
  <2>3. ItemAt(sp.conf, n + 1) = [raw |-> n + 1, checkpoint |-> n + 1]
    BY <1>1, <2>1, Items
  <2>4. QED
    BY <2>2, <2>3
<1>4. PICK P \in Seq(Item) : P = Append(sp.pending, x) /\ Len(P) = d + 1
  <2>1. sp.pending \in Seq(Item)
    BY <1>0, PrefetchFields
  <2>2. Append(sp.pending, x) \in Seq(Item) /\ Len(Append(sp.pending, x)) = Len(sp.pending) + 1
    BY <2>1, AppendProperties
  <2>3. QED
    BY <1>1, <2>2
<1>5. PICK j \in Nat, g \in {"pull", "push"} :
        /\ sp' = [sp EXCEPT !.pos = n + 1, !.pending = P, !.prod = g, !.late = j]
        /\ (sp.open => j = l) /\ j <= l + 1 /\ (g = "pull" => d + 1 < m)
  <2>1. PICK g \in {"pull", "push"} :
          /\ sp' = [sp EXCEPT !.pos = n + 1, !.pending = P, !.prod = g,
                              !.late = l + IF sp.open THEN 0 ELSE 1]
          /\ (g = "pull" <=> ~(d + 1 >= m))
    BY <1>1, <1>3, <1>4 DEF SP!Pull, SP!Python, SP!SourceRecord, SP!Limit
  <2>2. g = "pull" => d + 1 < m
    BY <2>1
  <2>3. CASE sp.open
    <3>1. sp' = [sp EXCEPT !.pos = n + 1, !.pending = P, !.prod = g, !.late = l + 0]
      BY <2>1, <2>3
    <3>2. l + 0 \in Nat /\ l + 0 = l /\ l + 0 <= l + 1
      OBVIOUS
    <3>3. QED
      BY ZenonT(90), <2>2, <3>1, <3>2
  <2>4. CASE ~sp.open
    <3>1. sp' = [sp EXCEPT !.pos = n + 1, !.pending = P, !.prod = g, !.late = l + 1]
      BY <2>1, <2>4
    <3>2. l + 1 \in Nat /\ l + 1 <= l + 1
      OBVIOUS
    <3>3. QED
      BY ZenonT(90), <2>2, <2>4, <3>1, <3>2
  <2>5. QED
    BY ZenonT(90), <2>3, <2>4
<1>6. n + 1 \in Nat /\ n + 1 <= r /\ d + 1 <= m
    BY <1>2
<1>7. sp' \in PrefetchStates
    BY <1>0, <1>4, <1>5, <1>6 DEF PrefetchStates
<1>8. /\ sp'.conf = sp.conf /\ sp'.pos = n + 1 /\ sp'.pending = P /\ sp'.queue = sp.queue
      /\ sp'.closed = sp.closed /\ sp'.held = sp.held /\ sp'.prod = g /\ sp'.hand = sp.hand
      /\ sp'.cons = sp.cons /\ sp'.out = sp.out /\ sp'.how = sp.how /\ sp'.open = sp.open
      /\ sp'.late = j
    BY <1>0, <1>5 DEF PrefetchStates
<1>9. Common(sp')
    BY ZenonT(90), <1>0, <1>1, <1>5, <1>6, <1>7, <1>8 DEF Common
<1>10. ThreadBounds(sp')
  <2>1. sp.open = FALSE => l <= k + d
    BY <1>0, <1>1 DEF ThreadBounds
  <2>2. sp.cons = "left" => n <= o + 2 * m + d
    BY <1>0, <1>1 DEF ThreadBounds
  <2>3. sp.open = FALSE => j <= k + (d + 1)
    BY SMTT(60), <1>5, <2>1
  <2>4. sp.cons = "left" => n + 1 <= o + 2 * m + (d + 1)
    BY <2>2
  <2>5. QED
    BY <1>0, <1>1, <1>4, <1>5, <1>6, <1>8, <2>3, <2>4 DEF ThreadBounds
<1>11. ThreadQueue(sp')
  <2> SUFFICES ASSUME sp.cons # "left" PROVE ThreadQueue(sp')
    BY <1>8 DEF ThreadQueue
  <2>1. n = o + h + k + d /\ After(sp.conf, sp.pending, o + h + k)
    BY <1>0, <1>1 DEF ThreadQueue
  <2>2. n + 1 = o + h + k + d + 1 /\ n + 1 = o + h + k + (d + 1) /\ o + h + k \in Nat
    BY <2>1
  <2>3. x = ItemAt(sp.conf, o + h + k + Len(sp.pending) + 1)
    BY <1>1, <1>3, <2>2
  <2>4. After(sp.conf, P, o + h + k)
    BY <1>0, <1>4, <2>1, <2>2, <2>3, Grows, PrefetchFields
  <2>5. QED
    BY <1>0, <1>1, <1>4, <1>8, <2>2, <2>4 DEF ThreadQueue
<1>12. ThreadEnd(sp')
    BY <1>0, <1>2, <1>5, <1>8 DEF ThreadEnd
<1>. QED
    BY <1>8, <1>9, <1>10, <1>11, <1>12 DEF PrefetchInv, ThreadInv

\* The source has ended or raised: the last batch is pushed, or dropped with the buffer closed.
LEMMA ThreadSourceEnds ==
  ASSUME PrefetchInv(sp), sp.conf.mode = "rust", SP!SourceEnds PROVE PrefetchInv(sp')
<1>0. /\ sp \in PrefetchStates /\ Common(sp)
      /\ ThreadBounds(sp) /\ ThreadQueue(sp) /\ ThreadEnd(sp)
    BY DEF PrefetchInv, Common, ThreadInv
<1>1. sp.prod = "pull" /\ sp.pos = sp.conf.records
    BY SMTT(60) DEF SP!SourceEnds
<1>2. PICK g \in {"pushlast", "dead"}, e \in BOOLEAN, z \in BOOLEAN :
        /\ sp' = [sp EXCEPT !.prod = g, !.held = e, !.closed = z]
        /\ \/ sp.conf.fails /\ g = "dead" /\ e /\ z
           \/ ~sp.conf.fails /\ g = "pushlast" /\ (e <=> sp.held) /\ (z <=> sp.closed)
  <2>1. sp = [sp EXCEPT !.held = sp.held, !.closed = sp.closed]
    BY <1>0 DEF PrefetchStates
  <2>2. sp.held \in BOOLEAN /\ sp.closed \in BOOLEAN
    BY <1>0, PrefetchFields
  <2>3. CASE sp.conf.fails
    BY ZenonT(90), <2>3 DEF SP!SourceEnds, SP!Python
  <2>4. CASE ~sp.conf.fails
    <3>1. sp' = [sp EXCEPT !.prod = "pushlast", !.held = sp.held, !.closed = sp.closed]
      BY <1>0, <2>4 DEF SP!SourceEnds, SP!Python, PrefetchStates
    <3>2. QED
      BY ZenonT(90), <2>2, <2>4, <3>1
  <2>5. QED
    BY ZenonT(90), <2>3, <2>4
<1>3. sp' \in PrefetchStates
    BY ZenonT(90), <1>0, <1>2 DEF PrefetchStates
<1>4. /\ sp'.conf = sp.conf /\ sp'.pos = sp.pos /\ sp'.pending = sp.pending
      /\ sp'.queue = sp.queue /\ sp'.closed = z /\ sp'.held = e /\ sp'.prod = g
      /\ sp'.hand = sp.hand /\ sp'.cons = sp.cons /\ sp'.out = sp.out /\ sp'.how = sp.how
      /\ sp'.open = sp.open /\ sp'.late = sp.late
    BY <1>0, <1>2 DEF PrefetchStates
<1>5. Common(sp') /\ ThreadBounds(sp') /\ ThreadQueue(sp')
    BY <1>0, <1>2, <1>3, <1>4 DEF Common, ThreadBounds, ThreadQueue
<1>6. ThreadEnd(sp')
    BY <1>0, <1>1, <1>2, <1>4 DEF ThreadEnd
<1>. QED
    BY <1>4, <1>5, <1>6 DEF PrefetchInv, ThreadInv

\* push_batch() hands a record over, has handed over the batch, or finds the buffer closed.
LEMMA ThreadPushes ==
  ASSUME PrefetchInv(sp), sp.conf.mode = "rust", SP!Push PROVE PrefetchInv(sp')
<1>0. /\ sp \in PrefetchStates /\ Common(sp)
      /\ ThreadBounds(sp) /\ ThreadQueue(sp) /\ ThreadEnd(sp)
    BY DEF PrefetchInv, Common, ThreadInv
<1>1. PICK n, o, k, h, d, m, r, l \in Nat :
           /\ sp.pos = n /\ Len(sp.out) = o /\ Len(sp.queue) = k /\ Len(sp.hand) = h
           /\ Len(sp.pending) = d /\ sp.conf.limit = m /\ sp.conf.records = r /\ sp.late = l
    BY <1>0, Numbers
<1>2. sp.prod \in {"push", "pushlast"}
    BY DEF SP!Push
<1>3. CASE sp.closed
  <2>1. sp' = [sp EXCEPT !.prod = "dead"]
    BY <1>3 DEF SP!Push
  <2>2. sp' \in PrefetchStates
    BY <1>0, <2>1 DEF PrefetchStates
  <2>3. /\ sp'.conf = sp.conf /\ sp'.pos = sp.pos /\ sp'.pending = sp.pending
        /\ sp'.queue = sp.queue /\ sp'.closed = sp.closed /\ sp'.held = sp.held
        /\ sp'.prod = "dead" /\ sp'.hand = sp.hand /\ sp'.cons = sp.cons /\ sp'.out = sp.out
        /\ sp'.how = sp.how /\ sp'.open = sp.open /\ sp'.late = sp.late
    BY <1>0, <2>1 DEF PrefetchStates
  <2>4. Common(sp') /\ ThreadBounds(sp') /\ ThreadQueue(sp')
    BY <1>0, <2>2, <2>3 DEF Common, ThreadBounds, ThreadQueue
  <2>5. ThreadEnd(sp')
    BY <1>0, <1>3, <2>3 DEF ThreadEnd
  <2>. QED
    BY <2>3, <2>4, <2>5 DEF PrefetchInv, ThreadInv
<1>4. CASE ~sp.closed /\ sp.pending # <<>>
  <2>1. sp.cons \notin {"join", "left"} /\ k < m
    BY <1>0, <1>1, <1>4 DEF ThreadEnd, SP!Push, SP!Room, SP!Limit
  <2>2. /\ n = o + h + k + d /\ After(sp.conf, sp.pending, o + h + k)
        /\ After(sp.conf, sp.queue, o + h) /\ o + h \in Nat /\ o + h + k \in Nat
    BY <1>0, <1>1, <2>1 DEF ThreadQueue
  <2>3. /\ Head(sp.pending) = ItemAt(sp.conf, o + h + k + 1) /\ Head(sp.pending) \in Item
        /\ Tail(sp.pending) \in Seq(Item) /\ Len(Tail(sp.pending)) = d - 1 /\ d > 0
        /\ After(sp.conf, Tail(sp.pending), o + h + k + 1)
    BY <1>0, <1>1, <1>4, <2>2, Shrinks, PrefetchFields
  <2>4. PICK x \in Item, P \in Seq(Item) :
          /\ x = Head(sp.pending) /\ x = ItemAt(sp.conf, o + h + k + 1)
          /\ P = Tail(sp.pending) /\ Len(P) = d - 1
          /\ After(sp.conf, P, o + h + k + 1)
    BY <2>3
  <2>5. PICK Q \in Seq(Item) :
          /\ Q = Append(sp.queue, x) /\ Len(Q) = k + 1 /\ After(sp.conf, Q, o + h)
    <3>1. x = ItemAt(sp.conf, o + h + Len(sp.queue) + 1)
      BY <1>1, <2>4
    <3>2. QED
      BY <1>0, <1>1, <2>2, <3>1, Grows, PrefetchFields
  <2>6. sp' = [sp EXCEPT !.queue = Q, !.pending = P]
    BY <1>4, <2>4, <2>5 DEF SP!Push
  <2>7. sp' \in PrefetchStates
    BY <1>0, <2>6 DEF PrefetchStates
  <2>8. /\ sp'.conf = sp.conf /\ sp'.pos = sp.pos /\ sp'.pending = P /\ sp'.queue = Q
        /\ sp'.closed = sp.closed /\ sp'.held = sp.held /\ sp'.prod = sp.prod
        /\ sp'.hand = sp.hand /\ sp'.cons = sp.cons /\ sp'.out = sp.out /\ sp'.how = sp.how
        /\ sp'.open = sp.open /\ sp'.late = sp.late
    BY <1>0, <2>6 DEF PrefetchStates
  <2>9. /\ k + 1 <= m /\ (k + 1) + (d - 1) = k + d /\ o + h + (k + 1) = o + h + k + 1
        /\ n = o + h + (k + 1) + (d - 1)
    <3>1. k < m /\ n = o + h + k + d
      BY <2>1, <2>2
    <3>2. QED
      BY <3>1
  <2>10. Common(sp')
    BY <1>0, <1>1, <2>5, <2>7, <2>8, <2>9 DEF Common
  <2>11. ThreadBounds(sp')
    <3>1. d <= m /\ (sp.prod = "pull" => d < m) /\ (sp.open = FALSE => l <= k + d) /\ h <= m
      BY <1>0, <1>1 DEF ThreadBounds
    <3>2. d - 1 <= m
      BY <3>1
    <3>3. QED
      BY <1>1, <1>2, <2>1, <2>4, <2>5, <2>8, <2>9, <3>1, <3>2 DEF ThreadBounds
  <2>12. ThreadQueue(sp')
    BY ZenonT(90), <1>0, <1>1, <2>1, <2>4, <2>5, <2>8, <2>9 DEF ThreadQueue
  <2>13. ThreadEnd(sp')
    BY <1>0, <1>4, <2>8 DEF ThreadEnd
  <2>. QED
    BY <2>8, <2>10, <2>11, <2>12, <2>13 DEF PrefetchInv, ThreadInv
<1>5. CASE ~sp.closed /\ sp.pending = <<>>
  <2>1. sp.cons \notin {"join", "left"} /\ d = 0
    BY <1>0, <1>1, <1>5, PrefetchLengths DEF ThreadEnd
  <2>2. PICK g \in {"pull", "dead"}, z \in BOOLEAN :
          /\ sp' = [sp EXCEPT !.prod = g, !.closed = z]
          /\ (z <=> g = "dead") /\ (g = "dead" <=> sp.prod = "pushlast")
    <3>1. CASE sp.prod = "push"
      <4>1. sp' = [sp EXCEPT !.prod = "pull", !.closed = FALSE]
        BY ZenonT(90), <1>0, <1>5, <3>1, PrefetchFields DEF SP!Push, PrefetchStates
      <4>2. QED
        BY ZenonT(90), <3>1, <4>1
    <3>2. CASE sp.prod = "pushlast"
      <4>1. sp' = [sp EXCEPT !.prod = "dead", !.closed = TRUE]
        BY <1>5, <3>2 DEF SP!Push
      <4>2. QED
        BY ZenonT(90), <3>2, <4>1
    <3>3. QED
      BY ZenonT(90), <1>2, <3>1, <3>2
  <2>3. sp' \in PrefetchStates
    BY <1>0, <2>2 DEF PrefetchStates
  <2>4. /\ sp'.conf = sp.conf /\ sp'.pos = sp.pos /\ sp'.pending = sp.pending
        /\ sp'.queue = sp.queue /\ sp'.closed = z /\ sp'.held = sp.held /\ sp'.prod = g
        /\ sp'.hand = sp.hand /\ sp'.cons = sp.cons /\ sp'.out = sp.out /\ sp'.how = sp.how
        /\ sp'.open = sp.open /\ sp'.late = sp.late
    BY <1>0, <2>2 DEF PrefetchStates
  <2>5. 0 < m
    BY <1>0, <1>1 DEF Common
  <2>6. Common(sp') /\ ThreadBounds(sp') /\ ThreadQueue(sp')
    BY <1>0, <1>1, <2>1, <2>3, <2>4, <2>5 DEF Common, ThreadBounds, ThreadQueue
  <2>7. ThreadEnd(sp')
    BY <1>0, <1>2, <1>5, <2>1, <2>2, <2>4 DEF ThreadEnd
  <2>. QED
    BY <2>4, <2>6, <2>7 DEF PrefetchInv, ThreadInv
<1>. QED
    BY <1>3, <1>4, <1>5

\* pop_batch() takes what the buffer holds.
LEMMA ThreadGets ==
  ASSUME PrefetchInv(sp), sp.conf.mode = "rust", SP!Get PROVE PrefetchInv(sp')
<1>0. /\ sp \in PrefetchStates /\ Common(sp)
      /\ ThreadBounds(sp) /\ ThreadQueue(sp) /\ ThreadEnd(sp)
    BY DEF PrefetchInv, Common, ThreadInv
<1>1. PICK n, o, k, h, d, m, r, l \in Nat :
           /\ sp.pos = n /\ Len(sp.out) = o /\ Len(sp.queue) = k /\ Len(sp.hand) = h
           /\ Len(sp.pending) = d /\ sp.conf.limit = m /\ sp.conf.records = r /\ sp.late = l
    BY <1>0, Numbers
<1>2. sp.cons = "get" /\ sp.queue # <<>> /\ sp.hand = <<>> /\ h = 0
    BY <1>0, <1>1, PrefetchLengths DEF SP!Get, ThreadEnd
<1>3. sp' = [sp EXCEPT !.hand = sp.queue, !.queue = <<>>, !.cons = "yield"]
    BY DEF SP!Get, SP!Python
<1>4. <<>> \in Seq(Item) /\ Len(<<>>) = 0 /\ sp.queue \in Seq(Item)
    BY <1>0, PrefetchFields
<1>5. sp' \in PrefetchStates
    BY <1>0, <1>3, <1>4 DEF PrefetchStates
<1>6. /\ sp'.conf = sp.conf /\ sp'.pos = sp.pos /\ sp'.pending = sp.pending
      /\ sp'.queue = <<>> /\ sp'.closed = sp.closed /\ sp'.held = sp.held
      /\ sp'.prod = sp.prod /\ sp'.hand = sp.queue /\ sp'.cons = "yield"
      /\ sp'.out = sp.out /\ sp'.how = sp.how /\ sp'.open = sp.open /\ sp'.late = sp.late
    BY <1>0, <1>3 DEF PrefetchStates
<1>7. /\ n = o + k + d /\ k <= m /\ sp.open /\ After(sp.conf, sp.queue, o)
      /\ After(sp.conf, sp.pending, o + k)
  <2>1. /\ n = o + 0 + k + d /\ k <= m /\ sp.open /\ After(sp.conf, sp.queue, o + 0)
        /\ After(sp.conf, sp.pending, o + 0 + k)
    BY <1>0, <1>1, <1>2 DEF ThreadQueue, Common
  <2>2. o + 0 = o /\ (n = o + 0 + k + d => n = o + k + d)
    OBVIOUS
  <2>3. QED
    BY <2>1, <2>2
<1>8. 0 <= m /\ o + k + 0 = o + k /\ o + k + 0 + d = o + k + d
    OBVIOUS
<1>9. Common(sp')
    BY <1>0, <1>1, <1>4, <1>5, <1>6, <1>7, <1>8 DEF Common
<1>10. ThreadBounds(sp')
    BY <1>0, <1>1, <1>6, <1>7 DEF ThreadBounds
<1>11. After(sp.conf, <<>>, o + k)
    BY <1>4 DEF After
<1>12. ThreadQueue(sp')
    BY <1>1, <1>4, <1>6, <1>7, <1>8, <1>11 DEF ThreadQueue
<1>13. ThreadEnd(sp')
    BY <1>0, <1>2, <1>6 DEF ThreadEnd
<1>. QED
    BY <1>6, <1>9, <1>10, <1>12, <1>13 DEF PrefetchInv, ThreadInv

\* The generator yields the next record of its batch.
LEMMA ThreadYields ==
  ASSUME PrefetchInv(sp), sp.conf.mode = "rust", SP!Yield PROVE PrefetchInv(sp')
<1>0. /\ sp \in PrefetchStates /\ Common(sp)
      /\ ThreadBounds(sp) /\ ThreadQueue(sp) /\ ThreadEnd(sp)
    BY DEF PrefetchInv, Common, ThreadInv
<1>1. PICK n, o, k, h, d, m, r, l \in Nat :
           /\ sp.pos = n /\ Len(sp.out) = o /\ Len(sp.queue) = k /\ Len(sp.hand) = h
           /\ Len(sp.pending) = d /\ sp.conf.limit = m /\ sp.conf.records = r /\ sp.late = l
    BY <1>0, Numbers
<1>2. sp.cons = "yield" /\ sp.hand # <<>>
    BY <1>0 DEF SP!Yield, ThreadEnd
<1>3. /\ n = o + h + k + d /\ After(sp.conf, sp.hand, o)
      /\ After(sp.conf, sp.queue, o + h) /\ After(sp.conf, sp.pending, o + h + k)
      /\ h <= m /\ n <= r /\ sp.open
    BY <1>0, <1>1, <1>2 DEF ThreadQueue, ThreadBounds, Common
<1>4. /\ Head(sp.hand) = ItemAt(sp.conf, o + 1) /\ Head(sp.hand) \in Item
      /\ Tail(sp.hand) \in Seq(Item) /\ Len(Tail(sp.hand)) = h - 1 /\ h > 0
      /\ After(sp.conf, Tail(sp.hand), o + 1)
    BY ZenonT(90), <1>0, <1>1, <1>2, <1>3, Shrinks, PrefetchFields
<1>5. PICK x \in Item, H \in Seq(Item) :
        /\ x = Head(sp.hand) /\ x = ItemAt(sp.conf, o + 1)
        /\ H = Tail(sp.hand) /\ Len(H) = h - 1 /\ After(sp.conf, H, o + 1)
    BY <1>4
<1>6. PICK O \in Seq(Item) :
        O = Append(sp.out, x) /\ Len(O) = o + 1 /\ After(sp.conf, O, 0)
  <2>1. o + 1 = 0 + o + 1 /\ 0 \in Nat
    OBVIOUS
  <2>2. x = ItemAt(sp.conf, 0 + Len(sp.out) + 1)
    BY <1>1, <1>5, <2>1
  <2>3. sp.out \in Seq(Item) /\ After(sp.conf, sp.out, 0)
    BY <1>0, PrefetchFields DEF Common
  <2>4. QED
    BY <1>1, <2>1, <2>2, <2>3, Grows
<1>7. sp' = [sp EXCEPT !.out = O, !.hand = H, !.cons = "lane"]
    BY <1>5, <1>6 DEF SP!Yield
<1>8. sp' \in PrefetchStates
    BY <1>0, <1>7 DEF PrefetchStates
<1>9. /\ sp'.conf = sp.conf /\ sp'.pos = sp.pos /\ sp'.pending = sp.pending
      /\ sp'.queue = sp.queue /\ sp'.closed = sp.closed /\ sp'.held = sp.held
      /\ sp'.prod = sp.prod /\ sp'.hand = H /\ sp'.cons = "lane" /\ sp'.out = O
      /\ sp'.how = sp.how /\ sp'.open = sp.open /\ sp'.late = sp.late
    BY <1>0, <1>7 DEF PrefetchStates
<1>10. /\ (o + 1) + (h - 1) = o + h /\ n = (o + 1) + (h - 1) + k + d /\ o + 1 <= r /\ h - 1 <= m
       /\ (o + 1) + (h - 1) + k = o + h + k
  <2>1. n = o + h + k + d /\ h <= m /\ n <= r /\ h > 0
    BY <1>3, <1>4
  <2>2. QED
    BY <2>1
<1>11. Common(sp')
    BY <1>0, <1>1, <1>3, <1>6, <1>8, <1>9, <1>10 DEF Common
<1>12. ThreadBounds(sp')
    BY <1>0, <1>1, <1>3, <1>5, <1>9, <1>10 DEF ThreadBounds
<1>13. ThreadQueue(sp')
    BY ZenonT(90), <1>1, <1>3, <1>5, <1>6, <1>9, <1>10 DEF ThreadQueue
<1>14. sp.how = "end" => sp.held
  <2>1. sp.how = "end" /\ ~sp.held => o = r
    BY <1>0, <1>1 DEF ThreadEnd
  <2>2. o # r
    BY <1>10
  <2>3. QED
    BY <2>1, <2>2
<1>15. ThreadEnd(sp')
    BY <1>0, <1>2, <1>9, <1>14 DEF ThreadEnd
<1>. QED
    BY <1>9, <1>11, <1>12, <1>13, <1>15 DEF PrefetchInv, ThreadInv

\* The buffer is done: whatever the source held has reached the lane, or an error is kept.
LEMMA ThreadIsDone ==
  ASSUME PrefetchInv(sp), sp.conf.mode = "rust", sp.cons \in {"check", "wait"}, SP!IsDone
  PROVE  sp.prod = "dead" /\ (sp.held \/ (~sp.conf.fails /\ Len(sp.out) = sp.conf.records))
<1>0. /\ sp \in PrefetchStates /\ Common(sp)
      /\ ThreadBounds(sp) /\ ThreadQueue(sp) /\ ThreadEnd(sp)
    BY DEF PrefetchInv, Common, ThreadInv
<1>1. PICK n, o, k, h, d, m, r, l \in Nat :
           /\ sp.pos = n /\ Len(sp.out) = o /\ Len(sp.queue) = k /\ Len(sp.hand) = h
           /\ Len(sp.pending) = d /\ sp.conf.limit = m /\ sp.conf.records = r /\ sp.late = l
    BY <1>0, Numbers
<1>2. sp.closed /\ h = 0 /\ k = 0
    BY <1>0, <1>1, PrefetchLengths DEF SP!IsDone, ThreadEnd
<1>3. /\ sp.prod = "dead" /\ n = r /\ n = o + h + k + d
      /\ sp.held \/ (sp.pending = <<>> /\ ~sp.conf.fails)
    BY <1>0, <1>1, <1>2 DEF ThreadEnd, ThreadQueue
<1>4. CASE sp.held
    BY <1>3, <1>4
<1>5. CASE sp.pending = <<>> /\ ~sp.conf.fails
  <2>1. d = 0
    BY <1>0, <1>1, <1>5, PrefetchLengths
  <2>2. o = r
    BY <1>2, <1>3, <2>1
  <2>3. QED
    BY <1>1, <1>3, <1>5, <2>2
<1>. QED
    BY <1>3, <1>4, <1>5

\* The generator's and the lane's other steps, before the finally block.
LEMMA ThreadMoves ==
  ASSUME PrefetchInv(sp), sp.conf.mode = "rust",
         sp.cons \in {"get", "check", "wait", "lane", "abandoned"},
         NEW g \in {"get", "check", "wait", "yield", "abandoned", "leave"},
         NEW e \in {"running", "end", "error", "aborted"},
         sp' = [sp EXCEPT !.cons = g, !.how = e],
         g # "leave" => e = sp.how,
         sp.cons = "abandoned" => g = "leave",
         sp.cons = "lane" /\ g # "abandoned" => g = (IF sp.hand = <<>> THEN "get" ELSE "yield"),
         sp.cons \in {"get", "check", "wait"} => g \in {"get", "check", "wait", "leave"},
         g = "leave" /\ e = "end" =>
             sp.prod = "dead" /\ (sp.held \/ (~sp.conf.fails /\ Len(sp.out) = sp.conf.records))
  PROVE  PrefetchInv(sp')
<1>0. /\ sp \in PrefetchStates /\ Common(sp)
      /\ ThreadBounds(sp) /\ ThreadQueue(sp) /\ ThreadEnd(sp)
    BY DEF PrefetchInv, Common, ThreadInv
<1>1. sp' \in PrefetchStates
    BY ZenonT(90), <1>0 DEF PrefetchStates
<1>2. /\ sp'.conf = sp.conf /\ sp'.pos = sp.pos /\ sp'.pending = sp.pending
      /\ sp'.queue = sp.queue /\ sp'.closed = sp.closed /\ sp'.held = sp.held
      /\ sp'.prod = sp.prod /\ sp'.hand = sp.hand /\ sp'.cons = g /\ sp'.out = sp.out
      /\ sp'.how = e /\ sp'.open = sp.open /\ sp'.late = sp.late
    BY <1>0 DEF PrefetchStates
<1>3. Common(sp') /\ ThreadBounds(sp') /\ ThreadQueue(sp')
    BY <1>0, <1>1, <1>2 DEF Common, ThreadBounds, ThreadQueue
<1>4. ThreadEnd(sp')
    BY <1>0, <1>2 DEF ThreadEnd
<1>. QED
    BY <1>2, <1>3, <1>4 DEF PrefetchInv, ThreadInv

\* The finally block closes the buffer.
LEMMA ThreadLeaves ==
  ASSUME PrefetchInv(sp), sp.conf.mode = "rust", SP!Leave PROVE PrefetchInv(sp')
<1>0. /\ sp \in PrefetchStates /\ Common(sp)
      /\ ThreadBounds(sp) /\ ThreadQueue(sp) /\ ThreadEnd(sp)
    BY DEF PrefetchInv, Common, ThreadInv
<1>1. sp.cons = "leave" /\ sp' = [sp EXCEPT !.closed = TRUE, !.cons = "join"]
    BY DEF SP!Leave, SP!Python
<1>2. sp' \in PrefetchStates
    BY <1>0, <1>1 DEF PrefetchStates
<1>3. /\ sp'.conf = sp.conf /\ sp'.pos = sp.pos /\ sp'.pending = sp.pending
      /\ sp'.queue = sp.queue /\ sp'.closed = TRUE /\ sp'.held = sp.held
      /\ sp'.prod = sp.prod /\ sp'.hand = sp.hand /\ sp'.cons = "join" /\ sp'.out = sp.out
      /\ sp'.how = sp.how /\ sp'.open = sp.open /\ sp'.late = sp.late
    BY <1>0, <1>1 DEF PrefetchStates
<1>4. Common(sp') /\ ThreadBounds(sp') /\ ThreadQueue(sp')
    BY <1>0, <1>1, <1>2, <1>3 DEF Common, ThreadBounds, ThreadQueue
<1>5. ThreadEnd(sp')
    BY <1>0, <1>1, <1>3 DEF ThreadEnd
<1>. QED
    BY <1>3, <1>4, <1>5 DEF PrefetchInv, ThreadInv

\* The generator has waited for the thread, or given up waiting.
LEMMA ThreadJoins ==
  ASSUME PrefetchInv(sp), sp.conf.mode = "rust", sp.cons = "join", sp' = SP!Joined(sp)
  PROVE  PrefetchInv(sp')
<1>0. /\ sp \in PrefetchStates /\ Common(sp)
      /\ ThreadBounds(sp) /\ ThreadQueue(sp) /\ ThreadEnd(sp)
    BY DEF PrefetchInv, Common, ThreadInv
<1>1. PICK n, o, k, h, d, m, r, l \in Nat :
           /\ sp.pos = n /\ Len(sp.out) = o /\ Len(sp.queue) = k /\ Len(sp.hand) = h
           /\ Len(sp.pending) = d /\ sp.conf.limit = m /\ sp.conf.records = r /\ sp.late = l
    BY <1>0, Numbers
<1>2. PICK e \in {"running", "end", "error", "aborted"} :
        /\ sp' = [sp EXCEPT !.cons = "left", !.hand = <<>>, !.how = e]
        /\ e = "end" => sp.how = "end" /\ ~sp.held
  <2>1. sp' = [sp EXCEPT !.cons = "left", !.hand = <<>>,
                         !.how = IF sp.how = "end" /\ sp.held THEN "error" ELSE sp.how]
    BY <1>0 DEF SP!Joined, PrefetchStates
  <2>2. sp.how \in {"running", "end", "error", "aborted"}
    BY <1>0 DEF PrefetchStates
  <2>3. QED
    BY <2>1, <2>2
<1>3. <<>> \in Seq(Item) /\ Len(<<>>) = 0
    OBVIOUS
<1>4. sp' \in PrefetchStates
    BY ZenonT(90), <1>0, <1>2, <1>3 DEF PrefetchStates
<1>5. /\ sp'.conf = sp.conf /\ sp'.pos = sp.pos /\ sp'.pending = sp.pending
      /\ sp'.queue = sp.queue /\ sp'.closed = sp.closed /\ sp'.held = sp.held
      /\ sp'.prod = sp.prod /\ sp'.hand = <<>> /\ sp'.cons = "left" /\ sp'.out = sp.out
      /\ sp'.how = e /\ sp'.open = sp.open /\ sp'.late = sp.late
    BY <1>0, <1>2 DEF PrefetchStates
<1>6. Common(sp')
    BY <1>0, <1>4, <1>5 DEF Common
<1>7. ThreadBounds(sp')
  <2>1. n = o + h + k + d /\ h <= m /\ k <= m
    BY <1>0, <1>1 DEF ThreadQueue, ThreadBounds, Common
  <2>2. n <= o + 2 * m + d /\ 0 <= m
    BY <2>1
  <2>3. QED
    BY <1>0, <1>1, <1>3, <1>5, <2>2 DEF ThreadBounds
<1>8. ThreadQueue(sp')
    BY <1>5 DEF ThreadQueue
<1>9. ThreadEnd(sp')
    BY <1>0, <1>2, <1>5 DEF ThreadEnd
<1>. QED
    BY <1>5, <1>6, <1>7, <1>8, <1>9 DEF PrefetchInv, ThreadInv

-----------------------------------------------------------------------------
(* Both.                                                                   *)

\* The runtime closes the source.
LEMMA SourceCloses ==
  ASSUME PrefetchInv(sp), SP!CloseSource PROVE PrefetchInv(sp')
<1>0. sp \in PrefetchStates /\ Common(sp)
    BY DEF PrefetchInv, Common
<1>1. sp.open /\ sp.cons \in {"abandoned", "left"} /\ sp' = [sp EXCEPT !.open = FALSE]
    BY DEF SP!CloseSource
<1>2. sp' \in PrefetchStates
    BY <1>0, <1>1 DEF PrefetchStates
<1>3. /\ sp'.conf = sp.conf /\ sp'.pos = sp.pos /\ sp'.pending = sp.pending
      /\ sp'.queue = sp.queue /\ sp'.closed = sp.closed /\ sp'.held = sp.held
      /\ sp'.prod = sp.prod /\ sp'.hand = sp.hand /\ sp'.cons = sp.cons /\ sp'.out = sp.out
      /\ sp'.how = sp.how /\ sp'.open = FALSE /\ sp'.late = sp.late
    BY <1>0, <1>1 DEF PrefetchStates
<1>4. Common(sp')
    BY <1>0, <1>1, <1>2, <1>3 DEF Common
<1>5. ASSUME TaskInv(sp) PROVE TaskInv(sp')
    BY ZenonT(90), <1>3, <1>5 DEF TaskInv, TaskBounds, TaskQueue, TaskEnd, Flowing, Handed
<1>6. ASSUME ThreadInv(sp) PROVE ThreadInv(sp')
  <2>1. PICK k, d \in Nat : Len(sp.queue) = k /\ Len(sp.pending) = d /\ sp.late = 0
    BY <1>0, <1>1, PrefetchLengths DEF Common
  <2>2. 0 <= k + d
    OBVIOUS
  <2>3. ThreadBounds(sp')
    BY <1>3, <1>6, <2>1, <2>2 DEF ThreadInv, ThreadBounds
  <2>4. ThreadQueue(sp') /\ ThreadEnd(sp')
    BY <1>3, <1>6 DEF ThreadInv, ThreadQueue, ThreadEnd
  <2>5. QED
    BY <2>3, <2>4 DEF ThreadInv
<1>. QED
    BY <1>3, <1>4, <1>5, <1>6 DEF PrefetchInv

\* The other steps of the generator and the lane keep the invariant.
LEMMA Moves ==
  ASSUME PrefetchInv(sp),
         \/ SP!Poll \/ SP!CheckDone \/ SP!WaitReturns
         \/ SP!Resume \/ SP!Abandon \/ SP!Finalize \/ SP!Cancelled
  PROVE  PrefetchInv(sp')
<1>0. sp \in PrefetchStates /\ sp.conf.mode \in {"python", "rust"}
    BY PrefetchFields DEF PrefetchInv, Common
<1>1. [sp EXCEPT !.how = sp.how] = sp /\ sp.how \in {"running", "end", "error", "aborted"}
    BY <1>0 DEF PrefetchStates
<1>2. CASE sp.conf.mode = "python"
  <2>0. TaskEnd(sp)
    BY <1>2 DEF PrefetchInv, TaskInv
  <2>1. PICK g \in {"get", "abandoned", "leave"}, e \in {"running", "end", "error", "aborted"} :
          /\ sp.cons \in {"get", "lane", "abandoned"}
          /\ sp' = [sp EXCEPT !.cons = g, !.how = e]
          /\ g = "leave" => e = "aborted"
          /\ g # "leave" => e = sp.how
          /\ g = "get" => sp.cons = "lane"
    <3>1. CASE SP!Poll \/ SP!CheckDone \/ SP!WaitReturns
      BY <1>2, <2>0, <3>1 DEF SP!Poll, SP!CheckDone, SP!WaitReturns, SP!Python, TaskEnd
    <3>2. CASE SP!Resume
      <4>1. sp.cons = "lane" /\ sp' = [sp EXCEPT !.cons = "get", !.how = sp.how]
        BY <1>0, <2>0, <3>2 DEF SP!Resume, TaskEnd, PrefetchStates
      <4>2. QED
        BY <1>1, <4>1
    <3>3. CASE SP!Abandon
      <4>1. sp.cons = "lane" /\ sp' = [sp EXCEPT !.cons = "abandoned", !.how = sp.how]
        BY <1>0, <3>3 DEF SP!Abandon, PrefetchStates
      <4>2. QED
        BY <1>1, <4>1
    <3>4. CASE SP!Finalize \/ SP!Cancelled
      <4>1. /\ sp.cons \in {"get", "abandoned"}
            /\ sp' = [sp EXCEPT !.cons = "leave", !.how = "aborted"]
        BY <2>0, <3>4 DEF SP!Finalize, SP!Cancelled, TaskEnd
      <4>2. QED
        BY <4>1
    <3>5. QED
      BY <3>1, <3>2, <3>3, <3>4
  <2>2. QED
    BY ZenonT(90), <1>2, <2>1, TaskMoves
<1>3. CASE sp.conf.mode = "rust"
  <2>1. PICK g \in {"get", "check", "wait", "yield", "abandoned", "leave"},
             e \in {"running", "end", "error", "aborted"} :
          /\ sp.cons \in {"get", "check", "wait", "lane", "abandoned"}
          /\ sp' = [sp EXCEPT !.cons = g, !.how = e]
          /\ g # "leave" => e = sp.how
          /\ sp.cons = "abandoned" => g = "leave"
          /\ sp.cons = "lane" /\ g # "abandoned" => g = (IF sp.hand = <<>> THEN "get" ELSE "yield")
          /\ sp.cons \in {"get", "check", "wait"} => g \in {"get", "check", "wait", "leave"}
          /\ g = "leave" /\ e = "end" => SP!IsDone /\ sp.cons \in {"check", "wait"}
    <3>1. CASE SP!Poll
      <4>1. sp.cons = "get" /\ sp' = [sp EXCEPT !.cons = "check", !.how = sp.how]
        BY <1>0, <3>1 DEF SP!Poll, PrefetchStates
      <4>2. QED
        BY <1>1, <4>1
    <3>2. CASE (SP!CheckDone \/ SP!WaitReturns) /\ SP!IsDone
      <4>1. /\ sp.cons \in {"check", "wait"}
            /\ sp' = [sp EXCEPT !.cons = "leave", !.how = "end"]
        BY <3>2 DEF SP!CheckDone, SP!WaitReturns
      <4>2. QED
        BY <3>2, <4>1
    <3>3. CASE (SP!CheckDone \/ SP!WaitReturns) /\ ~SP!IsDone
      <4>1. PICK g \in {"get", "wait"} :
              /\ sp.cons \in {"check", "wait"}
              /\ sp' = [sp EXCEPT !.cons = g, !.how = sp.how]
        <5>1. PICK g \in {"get", "wait"} :
                sp.cons \in {"check", "wait"} /\ sp' = [sp EXCEPT !.cons = g]
          BY <3>3 DEF SP!CheckDone, SP!WaitReturns
        <5>2. [sp EXCEPT !.cons = g] = [sp EXCEPT !.cons = g, !.how = sp.how]
          BY <1>0 DEF PrefetchStates
        <5>3. QED
          BY <5>1, <5>2
      <4>2. QED
        BY <1>1, <4>1
    <3>4. CASE SP!Resume
      <4>1. PICK g \in {"get", "yield"} :
              /\ sp.cons = "lane" /\ sp' = [sp EXCEPT !.cons = g, !.how = sp.how]
              /\ g = (IF sp.hand = <<>> THEN "get" ELSE "yield")
        BY <1>0, <3>4 DEF SP!Resume, PrefetchStates
      <4>2. QED
        BY <1>1, <4>1
    <3>5. CASE SP!Abandon
      <4>1. sp.cons = "lane" /\ sp' = [sp EXCEPT !.cons = "abandoned", !.how = sp.how]
        BY <1>0, <3>5 DEF SP!Abandon, PrefetchStates
      <4>2. QED
        BY <1>1, <4>1
    <3>6. CASE SP!Finalize \/ SP!Cancelled
      <4>1. /\ sp.cons \in {"get", "wait", "abandoned"}
            /\ sp' = [sp EXCEPT !.cons = "leave", !.how = "aborted"]
        BY <3>6 DEF SP!Finalize, SP!Cancelled
      <4>2. QED
        BY <4>1
    <3>7. QED
      BY <3>1, <3>2, <3>3, <3>4, <3>5, <3>6
  <2>2. g = "leave" /\ e = "end" =>
            sp.prod = "dead" /\ (sp.held \/ (~sp.conf.fails /\ Len(sp.out) = sp.conf.records))
    BY <1>3, <2>1, ThreadIsDone
  <2>3. QED
    BY <1>3, <2>1, <2>2, ThreadMoves
<1>. QED
    BY <1>0, <1>2, <1>3

\* Every step keeps the invariant.
LEMMA PrefetchStep ==
  ASSUME PrefetchInv(sp), SP!Next PROVE PrefetchInv(sp')
<1>0. sp.conf.mode \in {"python", "rust"}
    BY PrefetchFields DEF PrefetchInv, Common
<1>1. CASE SP!Poll \/ SP!CheckDone \/ SP!WaitReturns \/ SP!Resume \/ SP!Abandon \/ SP!Finalize
           \/ SP!Cancelled
    BY <1>1, Moves
<1>2. CASE SP!CloseSource
    BY <1>2, SourceCloses
<1>3. CASE SP!Ends
    BY <1>3 DEF SP!Ends
<1>4. CASE sp.conf.mode = "python" /\ (SP!Pull \/ SP!SourceEnds \/ SP!Put \/ SP!Push \/ SP!Get
           \/ SP!Yield \/ SP!Leave \/ SP!Join \/ SP!JoinTimeout)
  <2>1. TaskEnd(sp)
    BY <1>4 DEF PrefetchInv, TaskInv
  <2>2. ~SP!Push /\ ~SP!Yield /\ ~SP!JoinTimeout
    BY <1>4, <2>1 DEF SP!Push, SP!Yield, SP!JoinTimeout, SP!Python, TaskEnd
  <2>3. QED
    BY <1>4, <2>2, TaskPulls, TaskSourceEnds, TaskPuts, TaskGets, TaskLeaves, TaskJoins
<1>5. CASE sp.conf.mode = "rust" /\ (SP!Pull \/ SP!SourceEnds \/ SP!Put \/ SP!Push \/ SP!Get
           \/ SP!Yield \/ SP!Leave \/ SP!Join \/ SP!JoinTimeout)
  <2>1. ThreadEnd(sp)
    BY <1>5 DEF PrefetchInv, ThreadInv
  <2>2. ~SP!Put
    BY <2>1 DEF SP!Put, ThreadEnd
  <2>3. CASE SP!Join \/ SP!JoinTimeout
    <3>1. sp.cons = "join" /\ sp' = SP!Joined(sp)
      BY <2>3 DEF SP!Join, SP!JoinTimeout
    <3>2. QED
      BY <1>5, <3>1, ThreadJoins
  <2>4. QED
    BY <1>5, <2>2, <2>3, ThreadPulls, ThreadSourceEnds, ThreadPushes, ThreadGets, ThreadYields,
       ThreadLeaves
<1>. QED
    BY <1>0, <1>1, <1>2, <1>3, <1>4, <1>5 DEF SP!Next, SP!Producer, SP!Consumer, SP!Runtime

\* The invariant holds at the start.
LEMMA PrefetchStarts ==
  ASSUME PrefetchBounds, SP!Init PROVE PrefetchInv(sp)
<1>1. PICK c \in [mode : {"python", "rust"}, limit : 1 .. MaxLimit, records : 0 .. MaxRecords,
                  fails : BOOLEAN] :
        sp = [conf |-> c, pos |-> 0, pending |-> <<>>, queue |-> <<>>, closed |-> FALSE,
              held |-> FALSE, prod |-> "pull", hand |-> <<>>, cons |-> "get", out |-> <<>>,
              how |-> "running", open |-> TRUE, late |-> 0]
    BY DEF SP!Init
<1>2. PICK m, r \in Nat : /\ c.limit = m /\ c.records = r /\ m >= 1 /\ r <= MaxRecords
                          /\ c.mode \in {"python", "rust"} /\ c.fails \in BOOLEAN
    BY DEF PrefetchBounds
<1>3. c \in [mode : {"python", "rust"}, limit : Nat, records : Nat, fails : BOOLEAN]
    BY <1>2
<1>4. <<>> \in Seq(Item) /\ Len(<<>>) = 0
    OBVIOUS
<1>5. sp \in PrefetchStates
    BY <1>1, <1>3, <1>4 DEF PrefetchStates
<1>6. \A j \in Nat : After(c, <<>>, j)
    BY <1>4 DEF After
<1>7. /\ 0 <= r /\ 0 <= m /\ m > 0 /\ 0 <= 0 + m + 1 /\ 0 <= 0 - 0 /\ 0 + 0 = 0 /\ 0 + 0 + 0 = 0
      /\ 0 + 0 + 0 + 0 = 0 /\ 0 \in Nat
    BY <1>2
<1>8. Common(sp)
    BY <1>1, <1>2, <1>4, <1>5, <1>6, <1>7 DEF Common
<1>9. TaskInv(sp)
    BY <1>1, <1>2, <1>4, <1>6, <1>7 DEF TaskInv, TaskBounds, TaskQueue, TaskEnd, Flowing, Handed
<1>10. ThreadInv(sp)
    BY <1>1, <1>2, <1>4, <1>6, <1>7 DEF ThreadInv, ThreadBounds, ThreadQueue, ThreadEnd
<1>. QED
    BY <1>8, <1>9, <1>10 DEF PrefetchInv

\* The invariant says what the lane relies on.
LEMMA PrefetchSays ==
  ASSUME PrefetchBounds, PrefetchInv(sp) PROVE SP!StreamIsFaithful
<1>0. sp \in PrefetchStates /\ Common(sp) /\ sp.conf.mode \in {"python", "rust"}
    BY PrefetchFields DEF PrefetchInv, Common
<1>1. PICK n, o, k, h, d, m, r, l \in Nat :
           /\ sp.pos = n /\ Len(sp.out) = o /\ Len(sp.queue) = k /\ Len(sp.hand) = h
           /\ Len(sp.pending) = d /\ sp.conf.limit = m /\ sp.conf.records = r /\ sp.late = l
    BY <1>0, Numbers
<1>2. /\ n <= r /\ r <= MaxRecords /\ k <= m /\ o <= r /\ (sp.open => l = 0)
      /\ sp.open \in BOOLEAN
    BY <1>0, <1>1, PrefetchFields DEF Common
<1>3. SP!TypeOK
  <2>1. n \in 0 .. MaxRecords
    BY <1>2 DEF PrefetchBounds
  <2>2. QED
    BY <1>0, <1>1, <2>1 DEF SP!TypeOK, PrefetchStates
<1>4. SP!RecordsKeepTheirCheckpoint
  <2> SUFFICES ASSUME NEW i \in DOMAIN sp.out PROVE sp.out[i] = [raw |-> i, checkpoint |-> i]
    BY ZenonT(90) DEF SP!RecordsKeepTheirCheckpoint
  <2>1. DOMAIN sp.out = 1 .. o
    BY <1>0, <1>1, PrefetchFields, LenProperties
  <2>2. i \in 1 .. o /\ i \in Nat \ {0} /\ i <= r /\ 0 + i = i
    BY <1>2, <2>1
  <2>3. sp.out[i] = ItemAt(sp.conf, i)
    BY <1>0, <1>1, <2>2 DEF Common, After
  <2>4. QED
    BY <1>1, <2>2, <2>3, Items
<1>5. CASE sp.conf.mode = "python"
  <2>0. TaskBounds(sp) /\ TaskEnd(sp)
    BY <1>5 DEF PrefetchInv, TaskInv
  <2>1. SP!StreamEndIsTrue
    BY <2>0 DEF SP!StreamEndIsTrue, TaskEnd
  <2>2. n <= o + m + 1 /\ l <= n - o
    BY <1>1, <2>0 DEF TaskBounds
  <2>3. n - o <= m + 1 /\ l <= m + 1
    BY <2>2
  <2>4. SP!ReadAheadBounded
    BY <1>1, <1>5, <2>3 DEF SP!ReadAheadBounded, SP!Python, SP!Limit
  <2>5. SP!LateReadsBounded
    BY <1>1, <1>5, <2>0, <2>3 DEF SP!LateReadsBounded, SP!Python, SP!Limit, TaskEnd
  <2>6. QED
    BY <1>3, <1>4, <2>1, <2>4, <2>5 DEF SP!StreamIsFaithful
<1>6. CASE sp.conf.mode = "rust"
  <2>0. ThreadBounds(sp) /\ ThreadQueue(sp) /\ ThreadEnd(sp)
    BY <1>6 DEF PrefetchInv, ThreadInv
  <2>1. SP!StreamEndIsTrue
    BY <1>6, <2>0 DEF SP!StreamEndIsTrue, SP!Python, ThreadEnd
  <2>2. /\ h <= m /\ d <= m /\ (sp.open = FALSE => l <= k + d)
        /\ (sp.cons = "left" => n <= o + 2 * m + d)
        /\ (sp.cons # "left" => n = o + h + k + d)
    BY <1>1, <2>0 DEF ThreadBounds, ThreadQueue
  <2>3. l <= 2 * m
    <3>1. CASE sp.open
      BY <1>2, <3>1
    <3>2. CASE ~sp.open
      <4>1. l <= k + d /\ k <= m /\ d <= m
        BY <1>2, <2>2, <3>2
      <4>2. QED
        BY <4>1
    <3>3. QED
      BY <3>1, <3>2
  <2>4. n - o <= 3 * m
    <3>1. CASE sp.cons = "left"
      <4>1. n <= o + 2 * m + d /\ d <= m
        BY <2>2, <3>1
      <4>2. QED
        BY <4>1
    <3>2. CASE sp.cons # "left"
      <4>1. n = o + h + k + d /\ d <= m /\ h <= m /\ k <= m
        BY <1>2, <2>2, <3>2
      <4>2. QED
        BY <4>1
    <3>3. QED
      BY <3>1, <3>2
  <2>5. SP!ReadAheadBounded
    BY <1>1, <1>6, <2>4 DEF SP!ReadAheadBounded, SP!Python, SP!Limit
  <2>6. SP!LateReadsBounded
    BY <1>1, <1>6, <2>3 DEF SP!LateReadsBounded, SP!Python, SP!Limit
  <2>7. QED
    BY <1>3, <1>4, <2>1, <2>5, <2>6 DEF SP!StreamIsFaithful
<1>. QED
    BY <1>0, <1>5, <1>6

\* The invariant of the read-ahead holds in every state.
LEMMA PrefetchInvariance == ASSUME PrefetchBounds PROVE SP!Spec => []PrefetchInv(sp)
<1>1. SP!Init => PrefetchInv(sp)
    BY PrefetchStarts
<1>2. PrefetchInv(sp) /\ [SP!Next]_sp => PrefetchInv(sp)'
  <2> SUFFICES ASSUME PrefetchInv(sp), [SP!Next]_sp PROVE PrefetchInv(sp')
    BY DEF PrefetchInv, Common, After, ItemAt, TaskInv, TaskBounds, TaskQueue, TaskEnd, Flowing,
           Handed, ThreadInv, ThreadBounds, ThreadQueue, ThreadEnd, PrefetchStates, Item
  <2>1. CASE sp' = sp
    BY <2>1
  <2>2. QED
    BY <2>1, PrefetchStep
<1>. QED
    BY <1>1, <1>2, PTL DEF SP!Spec

\* What the composed specification does to the read-ahead is what SourcePrefetch
\* does.
LEMMA PrefetchRuns == RuntimeSpec => SP!Spec
<1>1. RuntimeInit => SP!Init
    BY DEF RuntimeInit
<1>2. [RuntimeNext]_all => [SP!Next]_sp
    BY DEF RuntimeNext, all
<1>. QED
    BY <1>1, <1>2, PTL DEF RuntimeSpec, RuntimeSafety, SP!Spec

\* Whatever the lane, the source and the collector of the generator do, and however the task or the
\* thread is scheduled: the lane gets the source's records in order, each with its own checkpoint;
\* a stream that ends quietly has delivered them all; and the source is read no further ahead, and
\* no longer after it was closed, than the buffers hold.
THEOREM StreamStaysFaithful == ASSUME PrefetchBounds PROVE RuntimeSpec => []StreamIsFaithful
<1>1. PrefetchInv(sp) => StreamIsFaithful
    BY PrefetchSays DEF StreamIsFaithful
<1>. QED
    BY <1>1, PrefetchInvariance, PrefetchRuns, PTL

-----------------------------------------------------------------------------
(* RunLifecycle.                                                           *)

\* The chain has a middleware, and the number of cancellations a bound.
LifecycleBounds == Chain \in Nat \ {0} /\ MaxCancels \in Nat

-----------------------------------------------------------------------------
(* The inductive invariant: what each await knows about the resources, the *)
(* flags of the run and the errors on their way out.                       *)

Starting == {"restore", "start", "rollback", "openWriter", "openDLQ", "closeDLQback",
             "closeWriterBack"}
Streaming  == {"report", "openSource", "stream", "closeSource"}
Sinking  == {"flushDLQ", "closeDLQ", "flushWriter", "closeWriter"}
Closing  == {"join", "stop", "closeStore"} \cup Sinking

\* TypeOK, with the flags and the errors one by one.
Typed ==
  /\ conf \in [dlq : BOOLEAN, raise : BOOLEAN]
  /\ pc \in RL!Awaits \cup {"ended"} /\ idx \in 0..Chain
  /\ st \in [RL!Resources -> {"new", "half", "open", "closed"}]
  /\ twice = {}
  /\ started \in BOOLEAN /\ writerOpened \in BOOLEAN
  /\ dlqOpened \in BOOLEAN /\ interrupted \in BOOLEAN
  /\ runErr \in RL!Errors /\ first \in RL!Errors /\ shutErr \in RL!Errors /\ esc \in RL!Errors
  /\ cancels \in 0..MaxCancels /\ metrics \in BOOLEAN
  /\ result \in (RL!Errors \ {"none"}) \cup {"running", "ok"}

\* The flags say how far starting came.
FlagsOK ==
  /\ pc \in {"restore", "start", "rollback"} => ~started
  /\ pc \in (Starting \ {"restore", "start", "rollback"}) \cup Streaming => started
  /\ pc \in Starting => ~writerOpened
  /\ pc \in Streaming => writerOpened
  /\ writerOpened => started /\ (dlqOpened <=> conf.dlq)
  /\ dlqOpened => writerOpened
  /\ pc = "stop" => started
  /\ pc \in {"flushDLQ", "closeDLQ"} => dlqOpened
  /\ pc \in {"flushWriter", "closeWriter"} => writerOpened
  /\ pc \in {"openDLQ", "closeDLQback"} => conf.dlq
  /\ pc \in {"start", "rollback", "stop"} => idx # 0
  /\ pc \in Starting \cup {"report"} => ~metrics
  /\ pc \in (Closing \ {"join"}) \cup {"ended"} => ~metrics

\* Middleware i is in state s.
MiddlewareIs(i, s) ==
  /\ pc = "restore" => s = "new"
  /\ pc = "start" => s = IF i < idx THEN "open" ELSE "new"
  /\ pc = "rollback" => /\ i < idx => s = "open"
                        /\ i = idx => s # "closed"
                        /\ i > idx => s \in {"new", "closed"}
  /\ started /\ pc \in Starting \cup Streaming \cup {"handle", "join"} => s = "open"
  /\ pc = "stop" => s = IF i <= idx THEN "open" ELSE "closed"
  /\ started /\ pc \in Sinking \cup {"closeStore"} => s = "closed"
  /\ ~started /\ cancels = 0 /\ pc \in {"handle"} \cup Closing => s \in {"new", "closed"}

MiddlewaresOK == \A i \in 1..Chain : MiddlewareIs(i, st[RL!Middleware(i)])

\* Writer and DLQ are in the states sk and d.
SinksAre(sk, d) ==
  /\ pc \in {"restore", "start", "rollback", "openWriter"} => sk = "new" /\ d = "new"
  /\ pc = "openDLQ" => sk = "open" /\ d = "new"
  /\ pc = "closeDLQback" => sk = "open" /\ d = "half"
  /\ pc = "closeWriterBack" => sk \in {"half", "open"} /\ d \in {"new", "closed"}
  /\ pc \in Streaming \cup {"handle", "join", "stop", "flushDLQ", "closeDLQ"}
       => (writerOpened => sk = "open") /\ (dlqOpened => d = "open")
  /\ pc \in {"flushWriter", "closeWriter"} => sk = "open" /\ (dlqOpened => d = "closed")
  /\ pc = "closeStore" => (writerOpened => sk = "closed") /\ (dlqOpened => d = "closed")
  /\ ~conf.dlq => d = "new"
  /\ ~writerOpened /\ cancels = 0 /\ pc \in {"handle"} \cup Closing
       => sk \in {"new", "closed"} /\ d \in {"new", "closed"}

SinksOK == SinksAre(st[RL!Writer], st[RL!DLQ])

\* The source is in state s.
SourceIs(s) ==
  /\ pc \in Starting \cup {"report", "openSource"} => s = "new"
  /\ pc \in {"stream", "closeSource"} => s = "open"
  /\ pc \in {"handle"} \cup Closing => /\ cancels = 0 => s # "open"
                                       /\ first = "none" => s = "closed"

SourceOK == SourceIs(st[RL!Source])

\* The first failure is in run_error or already on its way out.
ErrorsOK ==
  /\ pc \in Starting \cup (Streaming \ {"closeSource"}) => first = "none" /\ ~interrupted
  /\ pc \in Starting \cup Streaming => runErr = "none" /\ esc = "none"
  /\ pc = "handle" => runErr = first /\ first # "none" /\ esc = "none"
  /\ pc \in Closing => /\ esc \in {"none", "dlq", "handled", "cancelled"}
                       /\ esc = "dlq" => /\ conf.dlq /\ conf.raise
                                         /\ first \notin {"fence", "delivery"}
                       /\ esc = "handled" => conf.dlq /\ first = "record"
                       /\ esc = "cancelled" => cancels # 0
                       /\ runErr \in {"none", first}
                       /\ first # "none" => esc # "none" \/ runErr = first
                       /\ first = "none" => writerOpened
  /\ first = "cancelled" => cancels # 0

LifecycleInv ==
  /\ Typed /\ FlagsOK /\ MiddlewaresOK /\ SinksOK /\ SourceOK /\ ErrorsOK
  /\ RL!AllReleased /\ RL!ReasonPreserved /\ RL!OkMeansFlushed

-----------------------------------------------------------------------------
(* Resources.                                                              *)

\* The resources of a run are different.
LEMMA Different ==
  /\ \A i, j : RL!Middleware(i) = RL!Middleware(j) => i = j
  /\ \A i : RL!Middleware(i) \notin {RL!Writer, RL!DLQ, RL!Source}
  /\ RL!Writer # RL!DLQ /\ RL!Writer # RL!Source /\ RL!DLQ # RL!Source
BY DEF RL!Middleware, RL!Writer, RL!DLQ, RL!Source

\* Resources are the middlewares, the writer, the DLQ and the source.
LEMMA ResourcesAre ==
  /\ \A i \in 1..Chain : RL!Middleware(i) \in RL!Resources
  /\ RL!Writer \in RL!Resources /\ RL!DLQ \in RL!Resources /\ RL!Source \in RL!Resources
  /\ \A r \in RL!Resources : \/ r \in {RL!Writer, RL!DLQ, RL!Source}
                            \/ \E i \in 1..Chain : r = RL!Middleware(i)
BY DEF RL!Resources

\* Typed is TypeOK, with no resource released twice.
LEMMA TypedIsTypeOK == Typed => RL!TypeOK /\ RL!ReleasedOnce
BY DEF Typed, RL!TypeOK, RL!ReleasedOnce, RL!flags

\* Opening, or failing to open, one resource.
LEMMA Sets ==
  ASSUME Typed, NEW r \in RL!Resources, NEW v \in {"half", "open"}, st' = [st EXCEPT ![r] = v]
  PROVE  /\ st' \in [RL!Resources -> {"new", "half", "open", "closed"}]
         /\ st'[r] = v
         /\ \A q \in RL!Resources : q # r => st'[q] = st[q]
BY DEF Typed

\* Releasing one resource that is not yet closed.
LEMMA Releases ==
  ASSUME Typed, NEW r \in RL!Resources, st[r] # "closed", RL!Release({r})
  PROVE  /\ st' \in [RL!Resources -> {"new", "half", "open", "closed"}] /\ twice' = {}
         /\ st'[r] = "closed"
         /\ \A q \in RL!Resources : q # r => st'[q] = st[q]
BY DEF Typed, RL!Release

\* The invariant of the parts the properties are read off from.
PlaceKnown == FlagsOK /\ MiddlewaresOK /\ SinksOK /\ SourceOK /\ ErrorsOK

\* Nothing is claimed of the properties before the run has ended.
LEMMA NotEnded ==
  ASSUME Typed', PlaceKnown', pc' # "ended"
  PROVE  LifecycleInv'
BY DEF PlaceKnown, LifecycleInv, RL!AllReleased, RL!ReasonPreserved, RL!OkMeansFlushed

\* The initial states.
LEMMA InitLifecycle == LifecycleBounds /\ RL!Init => LifecycleInv
<1> SUFFICES ASSUME LifecycleBounds, RL!Init PROVE LifecycleInv
    OBVIOUS
<1>0. /\ started \in BOOLEAN /\ writerOpened \in BOOLEAN /\ dlqOpened \in BOOLEAN
      /\ interrupted \in BOOLEAN /\ metrics \in BOOLEAN
      /\ st \in [RL!Resources -> {"new", "half", "open", "closed"}]
    BY DEF RL!Init
<1>1. Typed
    BY <1>0 DEF LifecycleBounds, RL!Init, Typed, RL!Awaits, RL!Errors
<1>2. FlagsOK /\ ErrorsOK
    BY DEF RL!Init, FlagsOK, ErrorsOK, Starting, Streaming, Closing, Sinking
<1>3. MiddlewaresOK /\ SinksOK /\ SourceOK
    BY ResourcesAre DEF RL!Init, MiddlewaresOK, MiddlewareIs, SinksOK, SinksAre, SourceOK, SourceIs,
       Starting, Streaming, Closing, Sinking
<1>4. RL!AllReleased /\ RL!ReasonPreserved /\ RL!OkMeansFlushed
    BY DEF RL!Init, RL!AllReleased, RL!ReasonPreserved, RL!OkMeansFlushed
<1>. QED
    BY <1>1, <1>2, <1>3, <1>4 DEF LifecycleInv

\* Restoring the checkpoint.
LEMMA RestoreInv == ASSUME LifecycleBounds, LifecycleInv, RL!Restore PROVE LifecycleInv'
<1> USE DEF LifecycleInv, RL!Restore, RL!flags
<1>1. Typed'
    BY DEF LifecycleBounds, Typed, RL!Awaits, RL!Errors
<1>2. FlagsOK' /\ ErrorsOK'
    BY DEF FlagsOK, ErrorsOK, Starting, Streaming, Closing, Sinking
<1>3. MiddlewaresOK' /\ SinksOK' /\ SourceOK'
    BY DEF MiddlewaresOK, MiddlewareIs, SinksOK, SinksAre, SourceOK, SourceIs, FlagsOK,
       Starting, Streaming, Closing, Sinking
<1>4. RL!AllReleased' /\ RL!ReasonPreserved' /\ RL!OkMeansFlushed'
    BY DEF RL!AllReleased, RL!ReasonPreserved, RL!OkMeansFlushed, ErrorsOK, Starting
<1>. QED
    BY <1>1, <1>2, <1>3, <1>4

\* Starting the middlewares.
LEMMA StartInv == ASSUME LifecycleBounds, LifecycleInv, RL!StartMiddleware PROVE LifecycleInv'
<1> USE DEF LifecycleInv
<1>0. idx \in 1..Chain /\ RL!Middleware(idx) \in RL!Resources /\ pc = "start" /\ started = FALSE
    BY ResourcesAre DEF Typed, FlagsOK, RL!StartMiddleware
<1>1. PICK v \in {"half", "open"} :
        /\ st' = [st EXCEPT ![RL!Middleware(idx)] = v]
        /\ \/ v = "open" /\ idx = Chain /\ pc' = "openWriter" /\ idx' = 0 /\ started' = TRUE
           \/ v = "open" /\ idx # Chain /\ pc' = "start" /\ idx' = idx + 1 /\ started' = FALSE
           \/ v = "half" /\ pc' = "rollback" /\ idx' = idx /\ started' = FALSE
    BY <1>0 DEF RL!StartMiddleware, RL!MarksStarted
<1>u. UNCHANGED <<conf, twice, writerOpened, dlqOpened, interrupted, runErr, first, shutErr,
                  esc, cancels, metrics, result>>
    BY DEF RL!StartMiddleware
<1>2. /\ st' \in [RL!Resources -> {"new", "half", "open", "closed"}]
      /\ st'[RL!Middleware(idx)] = v
      /\ \A q \in RL!Resources : q # RL!Middleware(idx) => st'[q] = st[q]
    BY <1>0, <1>1, Sets
<1>3. started' \in BOOLEAN
    BY <1>1
<1>4. pc' \in RL!Awaits /\ idx' \in 0..Chain
    BY <1>0, <1>1 DEF LifecycleBounds, RL!Awaits
<1>5. Typed'
    BY <1>u, <1>2, <1>3, <1>4 DEF Typed
<1>6. FlagsOK' /\ ErrorsOK'
    BY <1>0, <1>1, <1>u DEF FlagsOK, ErrorsOK, Starting, Streaming, Closing, Sinking
<1>7. SinksOK' /\ SourceOK'
    BY <1>0, <1>1, <1>2, <1>u, Different, ResourcesAre DEF SinksOK, SinksAre, SourceOK, SourceIs,
       Starting, Streaming, Closing, Sinking
<1>8. MiddlewaresOK'
  <2>1. SUFFICES ASSUME NEW i \in 1..Chain PROVE MiddlewareIs(i, st[RL!Middleware(i)])'
    BY DEF MiddlewaresOK
  <2>2. st'[RL!Middleware(i)] = IF i = idx THEN v ELSE IF i < idx THEN "open" ELSE "new"
    BY <1>0, <1>2, Different, ResourcesAre DEF MiddlewaresOK, MiddlewareIs
  <2>3. QED
    BY <1>0, <1>1, <2>2 DEF MiddlewareIs, Starting, Streaming, Closing, Sinking
<1>. QED
    BY <1>5, <1>6, <1>7, <1>8, <1>4, NotEnded DEF PlaceKnown, RL!Awaits

\* Rolling back the middlewares that were started.
LEMMA RollbackInv == ASSUME LifecycleBounds, LifecycleInv, RL!RollbackMiddleware PROVE LifecycleInv'
<1> USE DEF LifecycleInv
<1>0. idx \in 1..Chain /\ RL!Middleware(idx) \in RL!Resources /\ pc = "rollback" /\ ~started
      /\ first = "none" /\ ~writerOpened /\ ~dlqOpened
    BY ResourcesAre DEF Typed, FlagsOK, ErrorsOK, RL!RollbackMiddleware, Starting
<1>1. \/ idx = 1 /\ pc' = "handle" /\ idx' = 0 /\ first' = "other" /\ runErr' = "other"
      \/ idx # 1 /\ pc' = "rollback" /\ idx' = idx - 1 /\ UNCHANGED <<first, runErr>>
    BY <1>0 DEF RL!RollbackMiddleware, RL!Raises, RL!Goes, RL!Blame
<1>u. UNCHANGED <<conf, started, writerOpened, dlqOpened, shutErr, cancels, metrics, result,
                  interrupted, esc>>
    BY DEF RL!RollbackMiddleware, RL!Raises, RL!Goes
<1>2. /\ st' \in [RL!Resources -> {"new", "half", "open", "closed"}] /\ twice' = {}
      /\ st'[RL!Middleware(idx)] = "closed"
      /\ \A q \in RL!Resources : q # RL!Middleware(idx) => st'[q] = st[q]
    BY <1>0, Releases DEF RL!RollbackMiddleware, MiddlewaresOK, MiddlewareIs
<1>4. pc' \in RL!Awaits /\ idx' \in 0..Chain /\ first' \in RL!Errors /\ runErr' \in RL!Errors
    BY <1>0, <1>1 DEF RL!Awaits, RL!Errors, Typed, LifecycleBounds
<1>5. Typed'
    BY <1>u, <1>2, <1>4 DEF Typed
<1>6. FlagsOK' /\ ErrorsOK'
    BY <1>0, <1>1, <1>u DEF FlagsOK, ErrorsOK, Starting, Streaming, Closing, Sinking
<1>7. SinksOK' /\ SourceOK'
    BY <1>0, <1>1, <1>2, <1>u, Different, ResourcesAre DEF SinksOK, SinksAre, SourceOK, SourceIs,
       Starting, Streaming, Closing, Sinking
<1>8. MiddlewaresOK'
  <2>1. SUFFICES ASSUME NEW i \in 1..Chain PROVE MiddlewareIs(i, st[RL!Middleware(i)])'
    BY DEF MiddlewaresOK
  <2>2. /\ i < idx => st'[RL!Middleware(i)] = "open"
        /\ i >= idx => st'[RL!Middleware(i)] \in {"new", "closed"}
    BY <1>0, <1>2, Different, ResourcesAre DEF MiddlewaresOK, MiddlewareIs
  <2>3. QED
    BY <1>0, <1>1, <1>u, <2>2 DEF MiddlewareIs, Starting, Streaming, Closing, Sinking
<1>. QED
    BY <1>5, <1>6, <1>7, <1>8, <1>4, NotEnded DEF PlaceKnown, RL!Awaits

\* Opening the sinks.
LEMMA OpenSinksInv ==
  ASSUME LifecycleBounds, LifecycleInv, RL!OpenWriter \/ RL!OpenDLQ
  PROVE  LifecycleInv'
<1> USE DEF LifecycleInv
<1>0. /\ pc \in {"openWriter", "openDLQ"} /\ started /\ ~writerOpened /\ ~dlqOpened
      /\ (pc = "openDLQ" => conf.dlq) /\ conf.dlq \in BOOLEAN
    BY DEF Typed, FlagsOK, RL!OpenWriter, RL!OpenDLQ, Starting
<1>1. PICK r \in {RL!Writer, RL!DLQ}, v \in {"half", "open"} :
        /\ st' = [st EXCEPT ![r] = v] /\ r = (IF pc = "openWriter" THEN RL!Writer ELSE RL!DLQ)
        /\ \/ v = "half" /\ r = RL!Writer /\ pc' = "closeWriterBack"
              /\ writerOpened' = FALSE /\ dlqOpened' = FALSE
           \/ v = "half" /\ r = RL!DLQ /\ pc' = "closeDLQback"
              /\ writerOpened' = FALSE /\ dlqOpened' = FALSE
           \/ v = "open" /\ r = RL!Writer /\ conf.dlq /\ pc' = "openDLQ"
              /\ writerOpened' = FALSE /\ dlqOpened' = FALSE
           \/ v = "open" /\ r = RL!Writer /\ ~conf.dlq /\ pc' = "report"
              /\ writerOpened' = TRUE /\ dlqOpened' = FALSE
           \/ v = "open" /\ r = RL!DLQ /\ pc' = "report"
              /\ writerOpened' = TRUE /\ dlqOpened' = TRUE
  <2>1. CASE RL!OpenWriter
    BY <1>0, <2>1 DEF RL!OpenWriter, FlagsOK, Typed
  <2>2. CASE RL!OpenDLQ
    BY <1>0, <2>2 DEF RL!OpenDLQ, FlagsOK, Typed
  <2>3. QED
    BY <2>1, <2>2
<1>u. UNCHANGED <<conf, idx, twice, started, interrupted, runErr, first, shutErr, esc, cancels,
                  metrics, result>>
    BY DEF RL!OpenWriter, RL!OpenDLQ
<1>2. /\ st' \in [RL!Resources -> {"new", "half", "open", "closed"}]
      /\ st'[r] = v
      /\ \A q \in RL!Resources : q # r => st'[q] = st[q]
    BY ZenonT(90), <1>1, Sets, ResourcesAre
<1>3. writerOpened' \in BOOLEAN /\ dlqOpened' \in BOOLEAN /\ pc' \in RL!Awaits
    BY <1>1 DEF RL!Awaits
<1>5. Typed'
    BY <1>u, <1>2, <1>3 DEF Typed
<1>6. FlagsOK' /\ ErrorsOK'
    BY <1>0, <1>1, <1>u, Different DEF FlagsOK, ErrorsOK, Starting, Streaming, Closing, Sinking
<1>7. SourceOK'
    BY <1>0, <1>1, <1>2, <1>u, Different, ResourcesAre DEF SourceOK, SourceIs,
       Starting, Streaming, Closing, Sinking
<1>8. SinksOK'
    BY <1>0, <1>1, <1>2, <1>u, Different, ResourcesAre DEF SinksOK, SinksAre,
       Starting, Streaming, Closing, Sinking
<1>9. MiddlewaresOK'
  <2>1. SUFFICES ASSUME NEW i \in 1..Chain PROVE MiddlewareIs(i, st[RL!Middleware(i)])'
    BY DEF MiddlewaresOK
  <2>2. st'[RL!Middleware(i)] = "open"
    BY <1>0, <1>1, <1>2, Different, ResourcesAre DEF MiddlewaresOK, MiddlewareIs, Starting
  <2>3. QED
    BY <1>0, <1>1, <1>u, <2>2 DEF MiddlewareIs, Starting, Streaming, Closing, Sinking
<1>. QED
    BY <1>5, <1>6, <1>7, <1>8, <1>9, <1>3, NotEnded DEF PlaceKnown, RL!Awaits

\* Closing what a failed open_runtime_sinks has attempted.
LEMMA RollbackOpenInv == ASSUME LifecycleBounds, LifecycleInv, RL!RollbackOpen PROVE LifecycleInv'
<1> USE DEF LifecycleInv
<1>0. /\ pc \in {"closeDLQback", "closeWriterBack"} /\ started /\ ~writerOpened /\ ~dlqOpened
      /\ (pc = "closeDLQback" => conf.dlq) /\ first = "none"
    BY DEF Typed, FlagsOK, ErrorsOK, RL!RollbackOpen, Starting
<1>1. PICK r \in {RL!Writer, RL!DLQ} :
        /\ RL!Release({r}) /\ r = (IF pc = "closeDLQback" THEN RL!DLQ ELSE RL!Writer)
        /\ \/ r = RL!DLQ /\ pc' = "closeWriterBack" /\ UNCHANGED <<idx, first, runErr>>
           \/ r = RL!Writer /\ pc' = "handle" /\ idx' = 0 /\ first' = "other" /\ runErr' = "other"
    BY <1>0 DEF RL!RollbackOpen, RL!RollbackTargets, RL!Goes, RL!Raises, RL!Blame
<1>u. UNCHANGED <<conf, started, writerOpened, dlqOpened, shutErr, cancels, metrics, result,
                  interrupted, esc>>
    BY DEF RL!RollbackOpen, RL!Goes, RL!Raises
<1>2. /\ st' \in [RL!Resources -> {"new", "half", "open", "closed"}] /\ twice' = {}
      /\ st'[r] = "closed"
      /\ \A q \in RL!Resources : q # r => st'[q] = st[q]
    BY <1>0, <1>1, Releases, ResourcesAre DEF SinksOK, SinksAre
<1>4. pc' \in RL!Awaits /\ idx' \in 0..Chain /\ first' \in RL!Errors /\ runErr' \in RL!Errors
    BY <1>0, <1>1 DEF RL!Awaits, RL!Errors, Typed, LifecycleBounds
<1>5. Typed'
    BY <1>u, <1>2, <1>4 DEF Typed
<1>6. FlagsOK' /\ ErrorsOK'
    BY <1>0, <1>1, <1>u DEF FlagsOK, ErrorsOK, Starting, Streaming, Closing, Sinking
<1>7. SourceOK'
    BY <1>0, <1>1, <1>2, <1>u, Different, ResourcesAre DEF SourceOK, SourceIs,
       Starting, Streaming, Closing, Sinking
<1>8. SinksOK'
    BY <1>0, <1>1, <1>2, <1>u, Different, ResourcesAre DEF SinksOK, SinksAre,
       Starting, Streaming, Closing, Sinking
<1>9. MiddlewaresOK'
  <2>1. SUFFICES ASSUME NEW i \in 1..Chain PROVE MiddlewareIs(i, st[RL!Middleware(i)])'
    BY DEF MiddlewaresOK
  <2>2. st'[RL!Middleware(i)] = "open"
    BY <1>0, <1>1, <1>2, Different, ResourcesAre DEF MiddlewaresOK, MiddlewareIs, Starting
  <2>3. QED
    BY <1>0, <1>1, <1>u, <2>2 DEF MiddlewareIs, Starting, Streaming, Closing, Sinking
<1>. QED
    BY <1>5, <1>6, <1>7, <1>8, <1>9, <1>4, NotEnded DEF PlaceKnown, RL!Awaits

\* What the middlewares and the sinks are like while the run is under way.
LEMMA RunningKnown ==
  ASSUME LifecycleInv, pc \in Streaming
  PROVE  /\ started /\ writerOpened /\ (dlqOpened <=> conf.dlq)
         /\ \A i \in 1..Chain : st[RL!Middleware(i)] = "open"
         /\ st[RL!Writer] = "open" /\ (dlqOpened => st[RL!DLQ] = "open")
         /\ (~conf.dlq => st[RL!DLQ] = "new")
<1>1. started /\ writerOpened /\ (dlqOpened <=> conf.dlq)
    BY DEF LifecycleInv, FlagsOK
<1>2. QED
    BY <1>1 DEF LifecycleInv, MiddlewaresOK, MiddlewareIs, SinksOK, SinksAre

\* They stay so until the shutdown gets to them.
LEMMA RunningKept ==
  ASSUME LifecycleInv, pc \in Streaming, pc' \in Streaming \cup {"handle", "join"},
         \A r \in RL!Resources : r # RL!Source => st'[r] = st[r],
         UNCHANGED <<conf, started, writerOpened, dlqOpened>>
  PROVE  MiddlewaresOK' /\ SinksOK'
<1>1. MiddlewaresOK'
  <2>1. SUFFICES ASSUME NEW i \in 1..Chain PROVE MiddlewareIs(i, st[RL!Middleware(i)])'
    BY DEF MiddlewaresOK
  <2>2. st'[RL!Middleware(i)] = "open" /\ started'
    BY RunningKnown, ResourcesAre, Different
  <2>3. QED
    BY <2>2 DEF MiddlewareIs, Starting, Streaming, Closing, Sinking
<1>2. st'[RL!Writer] = st[RL!Writer] /\ st'[RL!DLQ] = st[RL!DLQ]
    BY ResourcesAre, Different
<1>3. SinksOK'
    BY <1>2, RunningKnown DEF SinksOK, SinksAre, Starting, Streaming, Closing, Sinking
<1>. QED
    BY <1>1, <1>3

\* The stream, between the live-metrics callback and the end of the source.
LEMMA StreamInv ==
  ASSUME LifecycleBounds, LifecycleInv, RL!Report \/ RL!Stream \/ RL!KeyboardInterrupts
  PROVE  LifecycleInv'
<1> USE DEF LifecycleInv
<1>0. pc \in {"report", "stream"} /\ pc \in Streaming /\ first = "none"
    BY DEF RL!Report, RL!Stream, RL!KeyboardInterrupts, Streaming, ErrorsOK
<1>1. /\ \/ pc = "report" /\ pc' = "openSource" /\ UNCHANGED <<first, interrupted>>
         \/ /\ pc = "stream" /\ pc' = "closeSource"
            /\ first' \in {"none", "fence", "delivery", "record", "other"}
      /\ metrics' \in BOOLEAN /\ interrupted' \in BOOLEAN
      /\ UNCHANGED <<conf, idx, st, twice, started, writerOpened, dlqOpened, runErr, shutErr, esc,
                     cancels, result>>
  <2>1. CASE RL!Report
    BY <1>0, <2>1 DEF RL!Report, RL!flags, Typed
  <2>2. CASE RL!Stream
    BY <1>0, <2>2 DEF RL!Stream, RL!flags, Typed, RL!Blame
  <2>3. CASE RL!KeyboardInterrupts
    BY <1>0, <2>3 DEF RL!KeyboardInterrupts, Typed
  <2>4. QED
    BY <2>1, <2>2, <2>3
<1>2. pc' \in RL!Awaits /\ first' \in RL!Errors
    BY <1>0, <1>1 DEF RL!Awaits, RL!Errors
<1>3. Typed'
    BY <1>1, <1>2 DEF Typed
<1>4. FlagsOK' /\ ErrorsOK'
    BY <1>0, <1>1 DEF FlagsOK, ErrorsOK, Starting, Streaming, Closing, Sinking
<1>5. SourceOK'
    BY <1>0, <1>1 DEF SourceOK, SourceIs, Starting, Streaming, Closing, Sinking
<1>6. MiddlewaresOK' /\ SinksOK'
    BY <1>0, <1>1, RunningKept DEF Streaming
<1>. QED
    BY <1>3, <1>4, <1>5, <1>6, <1>2, NotEnded DEF PlaceKnown, RL!Awaits

\* The source is opened.
LEMMA OpenSourceInv == ASSUME LifecycleBounds, LifecycleInv, RL!OpenSource PROVE LifecycleInv'
<1> USE DEF LifecycleInv
<1>0. pc = "openSource" /\ pc \in Streaming /\ first = "none" /\ runErr = "none" /\ esc = "none"
    BY DEF RL!OpenSource, Streaming, ErrorsOK
<1>1. PICK v \in {"half", "open"} :
        /\ st' = [st EXCEPT ![RL!Source] = v]
        /\ \/ v = "open" /\ pc' = "stream" /\ UNCHANGED <<idx, first, runErr>>
           \/ v = "half" /\ pc' = "handle" /\ idx' = 0 /\ first' = "other" /\ runErr' = "other"
    BY <1>0 DEF RL!OpenSource, RL!Goes, RL!Raises, RL!Blame
<1>u. UNCHANGED <<conf, twice, started, writerOpened, dlqOpened, shutErr, cancels, metrics, result,
                  interrupted, esc>>
    BY DEF RL!OpenSource, RL!Goes, RL!Raises
<1>2. /\ st' \in [RL!Resources -> {"new", "half", "open", "closed"}]
      /\ st'[RL!Source] = v
      /\ \A q \in RL!Resources : q # RL!Source => st'[q] = st[q]
    BY <1>1, Sets, ResourcesAre
<1>3. pc' \in RL!Awaits /\ first' \in RL!Errors /\ runErr' \in RL!Errors /\ idx' \in 0..Chain
    BY <1>0, <1>1 DEF RL!Awaits, RL!Errors, Typed, LifecycleBounds
<1>4. Typed'
    BY <1>u, <1>2, <1>3 DEF Typed
<1>5. FlagsOK' /\ ErrorsOK'
    BY <1>0, <1>1, <1>u DEF FlagsOK, ErrorsOK, Starting, Streaming, Closing, Sinking
<1>6. SourceOK'
    BY <1>1, <1>2 DEF SourceOK, SourceIs, Starting, Streaming, Closing, Sinking
<1>7. MiddlewaresOK' /\ SinksOK'
    BY <1>0, <1>1, <1>2, <1>u, RunningKept DEF Streaming
<1>. QED
    BY <1>4, <1>5, <1>6, <1>7, <1>3, NotEnded DEF PlaceKnown, RL!Awaits

\* The source is closed, and the stream's error, its own or none goes on.
LEMMA CloseSourceInv == ASSUME LifecycleBounds, LifecycleInv, RL!CloseSource PROVE LifecycleInv'
<1> USE DEF LifecycleInv
<1>0. /\ pc = "closeSource" /\ pc \in Streaming /\ runErr = "none" /\ esc = "none"
      /\ first \in RL!Errors
      /\ (first = "cancelled" => cancels # 0) /\ interrupted \in BOOLEAN
    BY DEF RL!CloseSource, Streaming, ErrorsOK, Typed
<1>1. \/ /\ pc' = "join" /\ idx' = 0 /\ first' = "cancelled" /\ first = "cancelled"
         /\ esc' = "cancelled" /\ runErr' = "none" /\ interrupted' = TRUE
      \/ /\ pc' = "handle" /\ idx' = 0 /\ first' \in RL!Errors \ {"none", "cancelled"}
         /\ runErr' = first' /\ esc' = "none" /\ interrupted' = interrupted
      \/ /\ pc' = "join" /\ idx' = 0 /\ first' = "none" /\ first = "none"
         /\ runErr' = "none" /\ esc' = "none" /\ interrupted' = interrupted
  <2>1. PICK bad \in BOOLEAN :
       IF first = "cancelled" THEN RL!Raises("cancelled")
       ELSE IF first # "none" THEN RL!Raises(first)
       ELSE IF bad /\ ~interrupted THEN RL!Raises("source")
       ELSE RL!Finally /\ UNCHANGED <<first, runErr, interrupted, esc>>
    BY DEF RL!CloseSource
  <2>2. QED
    BY <1>0, <2>1 DEF RL!Raises, RL!Blame, RL!Finally, RL!Errors
<1>u. UNCHANGED <<conf, started, writerOpened, dlqOpened, shutErr, cancels, metrics, result>>
    BY DEF RL!CloseSource
<1>2. /\ st' \in [RL!Resources -> {"new", "half", "open", "closed"}] /\ twice' = {}
      /\ st'[RL!Source] = "closed"
      /\ \A q \in RL!Resources : q # RL!Source => st'[q] = st[q]
    BY <1>0, Releases, ResourcesAre DEF RL!CloseSource, SourceOK, SourceIs
<1>b. interrupted' \in BOOLEAN
    BY <1>0, <1>1
<1>3. pc' \in RL!Awaits /\ first' \in RL!Errors /\ runErr' \in RL!Errors /\ idx' \in 0..Chain
      /\ esc' \in RL!Errors
    BY <1>0, <1>1 DEF RL!Awaits, RL!Errors, LifecycleBounds
<1>4. Typed'
    BY <1>u, <1>b, <1>2, <1>3 DEF Typed
<1>5. FlagsOK' /\ ErrorsOK'
    BY <1>0, <1>1, <1>u DEF FlagsOK, ErrorsOK, Starting, Streaming, Closing, Sinking
<1>6. SourceOK'
    BY <1>1, <1>2 DEF SourceOK, SourceIs, Starting, Streaming, Closing, Sinking
<1>7. MiddlewaresOK' /\ SinksOK'
    BY <1>0, <1>1, <1>2, <1>u, RunningKept DEF Streaming
<1>. QED
    BY <1>4, <1>5, <1>6, <1>7, <1>3, NotEnded DEF PlaceKnown, RL!Awaits

\* _handle_run_error, and the reporting task.
LEMMA HandleInv ==
  ASSUME LifecycleBounds, LifecycleInv, RL!HandleError \/ RL!Join
  PROVE  LifecycleInv'
<1> USE DEF LifecycleInv
<1>0. pc \in {"handle", "join"}
    BY DEF RL!HandleError, RL!Join
<1>1. /\ \/ /\ pc = "handle" /\ pc' = "join" /\ idx' = 0 /\ metrics' = metrics
            /\ esc' \in {"none", "dlq", "handled"}
            /\ esc' = "dlq" => conf.dlq /\ conf.raise /\ first \notin {"fence", "delivery"}
            /\ esc' = "handled" => conf.dlq /\ first = "record"
         \/ /\ pc = "join" /\ idx' = Chain /\ esc' = esc /\ metrics' = FALSE
            /\ \/ started /\ pc' = "stop"
               \/ ~started /\ pc' = "closeStore"
      /\ UNCHANGED <<conf, st, twice, started, writerOpened, dlqOpened, interrupted, runErr, first,
                     shutErr, cancels, result>>
    BY DEF RL!HandleError, RL!Join, RL!Finally, RL!StopReporting, RL!SinksDown, FlagsOK, ErrorsOK,
       RL!flags
<1>b. metrics' \in BOOLEAN
    BY <1>1 DEF Typed
<1>2. pc' \in RL!Awaits /\ idx' \in 0..Chain /\ esc' \in RL!Errors
    BY <1>0, <1>1 DEF RL!Awaits, RL!Errors, LifecycleBounds, Typed
<1>3. Typed'
    BY <1>b, <1>1, <1>2 DEF Typed
<1>4. FlagsOK' /\ ErrorsOK'
    BY <1>0, <1>1 DEF FlagsOK, ErrorsOK, Starting, Streaming, Closing, Sinking, LifecycleBounds
<1>5. SourceOK'
    BY <1>0, <1>1 DEF SourceOK, SourceIs, Starting, Streaming, Closing, Sinking
<1>6. SinksOK'
    BY <1>0, <1>1 DEF SinksOK, SinksAre, FlagsOK, Starting, Streaming, Closing, Sinking
<1>7. MiddlewaresOK'
  <2>1. SUFFICES ASSUME NEW i \in 1..Chain PROVE MiddlewareIs(i, st[RL!Middleware(i)])'
    BY DEF MiddlewaresOK
  <2>2. MiddlewareIs(i, st[RL!Middleware(i)])
    BY DEF MiddlewaresOK
  <2>3. QED
    BY <1>0, <1>1, <2>2 DEF MiddlewareIs, Starting, Streaming, Closing, Sinking, LifecycleBounds
<1>. QED
    BY <1>3, <1>4, <1>5, <1>6, <1>7, <1>2, NotEnded DEF PlaceKnown, RL!Awaits

\* stop_all, in reverse order.
LEMMA StopInv == ASSUME LifecycleBounds, LifecycleInv, RL!StopMiddleware PROVE LifecycleInv'
<1> USE DEF LifecycleInv
<1>0. pc = "stop" /\ started /\ idx \in 1..Chain /\ RL!Middleware(idx) \in RL!Resources
    BY ResourcesAre DEF RL!StopMiddleware, FlagsOK, Typed
<1>1. /\ idx' = idx - 1
      /\ \/ idx > 1 /\ pc' = "stop"
         \/ idx = 1 /\ dlqOpened /\ pc' = "flushDLQ"
         \/ idx = 1 /\ ~dlqOpened /\ writerOpened /\ pc' = "flushWriter"
         \/ idx = 1 /\ ~dlqOpened /\ ~writerOpened /\ pc' = "closeStore"
      /\ UNCHANGED <<conf, started, writerOpened, dlqOpened, interrupted, runErr, first, shutErr,
                     esc, cancels, metrics, result>>
    BY <1>0 DEF RL!StopMiddleware, RL!SinksDown, RL!flags
<1>2. /\ st' \in [RL!Resources -> {"new", "half", "open", "closed"}] /\ twice' = {}
      /\ st'[RL!Middleware(idx)] = "closed"
      /\ \A q \in RL!Resources : q # RL!Middleware(idx) => st'[q] = st[q]
    BY <1>0, Releases DEF RL!StopMiddleware, MiddlewaresOK, MiddlewareIs
<1>3. pc' \in RL!Awaits /\ idx' \in 0..Chain
    BY <1>0, <1>1 DEF RL!Awaits, LifecycleBounds
<1>4. Typed'
    BY <1>1, <1>2, <1>3 DEF Typed
<1>5. FlagsOK' /\ ErrorsOK'
    BY <1>0, <1>1 DEF FlagsOK, ErrorsOK, Starting, Streaming, Closing, Sinking
<1>k. st'[RL!Writer] = st[RL!Writer] /\ st'[RL!DLQ] = st[RL!DLQ] /\ st'[RL!Source] = st[RL!Source]
    BY <1>2, Different, ResourcesAre
<1>6. SourceOK'
    BY <1>0, <1>1, <1>k DEF SourceOK, SourceIs, Starting, Streaming, Closing, Sinking
<1>7. SinksOK'
    BY <1>0, <1>1, <1>k DEF SinksOK, SinksAre, FlagsOK, Starting, Streaming, Closing, Sinking
<1>8. MiddlewaresOK'
  <2>1. SUFFICES ASSUME NEW i \in 1..Chain PROVE MiddlewareIs(i, st[RL!Middleware(i)])'
    BY DEF MiddlewaresOK
  <2>2. st'[RL!Middleware(i)] = IF i < idx THEN "open" ELSE "closed"
    BY <1>0, <1>2, Different, ResourcesAre DEF MiddlewaresOK, MiddlewareIs
  <2>3. QED
    BY <1>0, <1>1, <2>2 DEF MiddlewareIs, Starting, Streaming, Closing, Sinking
<1>. QED
    BY <1>4, <1>5, <1>6, <1>7, <1>8, <1>3, NotEnded DEF PlaceKnown, RL!Awaits

\* _capture: flushing and closing the sinks, whatever fails.
LEMMA ShutdownInv == ASSUME LifecycleBounds, LifecycleInv, RL!ShutdownStep PROVE LifecycleInv'
<1> USE DEF LifecycleInv
<1>0. pc \in Sinking /\ started /\ writerOpened
    BY DEF RL!ShutdownStep, FlagsOK, Sinking
<1>1. /\ \/ pc = "flushDLQ" /\ pc' = "closeDLQ" /\ UNCHANGED <<st, twice>>
         \/ pc = "closeDLQ" /\ pc' = "flushWriter" /\ RL!Release({RL!DLQ})
         \/ pc = "flushWriter" /\ pc' = "closeWriter" /\ UNCHANGED <<st, twice>>
         \/ pc = "closeWriter" /\ pc' = "closeStore" /\ RL!Release({RL!Writer})
      /\ shutErr' \in {shutErr, "shutdown"}
      /\ UNCHANGED <<conf, idx, started, writerOpened, dlqOpened, interrupted, runErr, first, esc,
                     cancels, metrics, result>>
    BY <1>0 DEF RL!ShutdownStep, RL!NextStep, RL!AfterStep, RL!flags
<1>2. /\ st' \in [RL!Resources -> {"new", "half", "open", "closed"}] /\ twice' = {}
      /\ st'[RL!Writer] = (IF pc = "closeWriter" THEN "closed" ELSE st[RL!Writer])
      /\ st'[RL!DLQ] = (IF pc = "closeDLQ" THEN "closed" ELSE st[RL!DLQ])
      /\ \A q \in RL!Resources \ {RL!Writer, RL!DLQ} : st'[q] = st[q]
  <2>1. CASE pc = "closeDLQ"
    BY <1>1, <2>1, Releases, Different, ResourcesAre DEF SinksOK, SinksAre, FlagsOK
  <2>2. CASE pc = "closeWriter"
    BY <1>1, <2>2, Releases, Different, ResourcesAre DEF SinksOK, SinksAre
  <2>3. CASE pc \in {"flushDLQ", "flushWriter"}
    BY <1>1, <2>3, ResourcesAre DEF Typed
  <2>4. QED
    BY <1>0, <2>1, <2>2, <2>3 DEF Sinking
<1>3. pc' \in RL!Awaits /\ shutErr' \in RL!Errors
    BY <1>0, <1>1 DEF RL!Awaits, RL!Errors, Typed
<1>4. Typed'
    BY <1>1, <1>2, <1>3 DEF Typed
<1>5. FlagsOK' /\ ErrorsOK'
    BY <1>0, <1>1 DEF FlagsOK, ErrorsOK, Starting, Streaming, Closing, Sinking
<1>6. SourceOK'
    BY <1>0, <1>1, <1>2, Different, ResourcesAre DEF SourceOK, SourceIs, Starting, Streaming,
       Closing, Sinking
<1>7. SinksOK'
    BY <1>0, <1>1, <1>2 DEF SinksOK, SinksAre, FlagsOK, Starting, Streaming, Closing, Sinking
<1>8. MiddlewaresOK'
  <2>1. SUFFICES ASSUME NEW i \in 1..Chain PROVE MiddlewareIs(i, st[RL!Middleware(i)])'
    BY DEF MiddlewaresOK
  <2>2. st'[RL!Middleware(i)] = "closed"
    BY <1>0, <1>2, Different, ResourcesAre DEF MiddlewaresOK, MiddlewareIs
  <2>3. QED
    BY <1>0, <1>1, <2>2 DEF MiddlewareIs, Starting, Streaming, Closing, Sinking
<1>. QED
    BY <1>4, <1>5, <1>6, <1>7, <1>8, <1>3, NotEnded DEF PlaceKnown, RL!Awaits

\* A run that ends releases what it opened, if nothing cut the way there short.
LEMMA CloseStoreInv == ASSUME LifecycleBounds, LifecycleInv, RL!CloseStore PROVE LifecycleInv'
<1> USE DEF LifecycleInv
<1>0. pc = "closeStore" /\ pc' = "ended"
    BY DEF RL!CloseStore
<1>u. UNCHANGED <<conf, idx, st, twice, started, writerOpened, dlqOpened, interrupted, runErr,
                  first, esc, cancels, metrics>>
    BY DEF RL!CloseStore, RL!flags
<1>1. /\ shutErr' \in {shutErr, "shutdown"}
      /\ result' = IF esc # "none" THEN esc ELSE IF runErr # "none" THEN runErr
                   ELSE IF interrupted \/ shutErr' = "none" THEN "ok" ELSE shutErr'
    BY DEF RL!CloseStore, RL!Terminal
<1>2. shutErr' \in RL!Errors
    BY <1>1 DEF Typed, RL!Errors
<1>3. result' \in (RL!Errors \ {"none"}) \cup {"ok"}
    BY <1>1, <1>2 DEF Typed, RL!Errors
<1>4. Typed'
    BY <1>0, <1>u, <1>2, <1>3 DEF Typed
<1>5. FlagsOK' /\ ErrorsOK'
    BY <1>0, <1>u DEF FlagsOK, ErrorsOK, Starting, Streaming, Closing, Sinking
<1>6. MiddlewaresOK' /\ SinksOK' /\ SourceOK'
    BY <1>0, <1>u DEF MiddlewaresOK, MiddlewareIs, SinksOK, SinksAre, SourceOK, SourceIs,
       Starting, Streaming, Closing, Sinking
<1>m. \A i \in 1..Chain : /\ started => st[RL!Middleware(i)] = "closed"
                          /\ cancels = 0 => st[RL!Middleware(i)] \in {"new", "closed"}
    BY <1>0 DEF MiddlewaresOK, MiddlewareIs, Closing
<1>s. /\ writerOpened => st[RL!Writer] = "closed" /\ st[RL!DLQ] \in {"new", "closed"}
      /\ cancels = 0 => st[RL!Writer] \in {"new", "closed"} /\ st[RL!DLQ] \in {"new", "closed"}
    BY <1>0 DEF SinksOK, SinksAre, FlagsOK, Closing
<1>7. RL!AllReleased'
  <2>1. cancels = 0 => st[RL!Source] # "open"
    BY <1>0 DEF SourceOK, SourceIs, Closing
  <2>2. ASSUME cancels = 0 \/ writerOpened, NEW r \in RL!Resources \ {RL!Source}
        PROVE  st[r] \in {"new", "closed"}
    <3>1. CASE \E i \in 1..Chain : r = RL!Middleware(i)
      BY <1>m, <2>2, <3>1 DEF FlagsOK
    <3>2. CASE r \in {RL!Writer, RL!DLQ}
      BY <1>s, <2>2, <3>2
    <3>3. QED
      BY <3>1, <3>2, ResourcesAre
  <2>3. QED
    BY <1>u, <2>1, <2>2 DEF RL!AllReleased
<1>8. RL!ReasonPreserved'
    BY <1>0, <1>1, <1>u DEF RL!ReasonPreserved, ErrorsOK, Closing
<1>9. RL!OkMeansFlushed'
  <2>1. SUFFICES ASSUME result' = "ok", ~interrupted
                 PROVE  shutErr' = "none" /\ runErr = "none"
                        /\ \A r \in RL!Resources \ {RL!DLQ} : st[r] = "closed"
    BY <1>u DEF RL!OkMeansFlushed
  <2>2. esc = "none" /\ runErr = "none" /\ shutErr' = "none"
    BY <1>0, <1>1, <1>2, <2>1 DEF ErrorsOK, Closing, RL!Errors, Typed
  <2>3. first = "none" /\ writerOpened /\ started
    BY <1>0, <2>2 DEF ErrorsOK, FlagsOK, Closing
  <2>4. st[RL!Source] = "closed"
    BY <1>0, <2>3 DEF SourceOK, SourceIs, Closing
  <2>5. QED
    BY <1>m, <1>s, <2>2, <2>3, <2>4, ResourcesAre
<1>. QED
    BY <1>4, <1>5, <1>6, <1>7, <1>8, <1>9

\* The resource a cancelled await was about is left half open; every other one
\* stays as it was.
LEMMA HalfOpen ==
  ASSUME LifecycleInv, pc \in {"start", "openWriter", "openDLQ", "openSource", "closeSource"},
         st' = [st EXCEPT ![RL!Touched] = "half"]
  PROVE  /\ st' \in [RL!Resources -> {"new", "half", "open", "closed"}]
         /\ pc \in {"openSource", "closeSource"}
              => \A r \in RL!Resources : r # RL!Source => st'[r] = st[r]
         /\ pc # "start" => \A i \in 1..Chain : st'[RL!Middleware(i)] = st[RL!Middleware(i)]
         /\ pc # "openDLQ" => st'[RL!DLQ] = st[RL!DLQ]
<1>1. pc = "start" => idx \in 1..Chain
    BY DEF LifecycleInv, FlagsOK, Typed
<1>2. \/ pc = "start" /\ RL!Touched = RL!Middleware(idx)
      \/ pc = "openWriter" /\ RL!Touched = RL!Writer
      \/ pc = "openDLQ" /\ RL!Touched = RL!DLQ
      \/ pc \in {"openSource", "closeSource"} /\ RL!Touched = RL!Source
    BY DEF RL!Touched
<1>3. RL!Touched \in RL!Resources
    BY <1>1, <1>2, ResourcesAre
<1>4. /\ st' \in [RL!Resources -> {"new", "half", "open", "closed"}]
      /\ \A r \in RL!Resources : r # RL!Touched => st'[r] = st[r]
    BY <1>3, Sets DEF LifecycleInv
<1>5. QED
    BY <1>2, <1>4, ResourcesAre, Different

\* A cancellation while starting, opening or closing the source: the finally
\* block is next, and nothing more is claimed of what was being opened.
LEMMA CancelStartInv ==
  ASSUME LifecycleBounds, LifecycleInv, RL!Cancel,
         pc \in {"start", "openWriter", "openDLQ", "openSource", "closeSource", "rollback",
                 "closeDLQback", "closeWriterBack", "report"}
  PROVE  LifecycleInv'
<1> USE DEF LifecycleInv
<1>u. UNCHANGED <<conf, twice, started, writerOpened, dlqOpened, runErr, shutErr>>
    BY DEF RL!Cancel
<1>c. cancels' = cancels + 1 /\ cancels' \in 0..MaxCancels /\ cancels \in Nat /\ cancels' # 0
    BY DEF RL!Cancel, Typed, LifecycleBounds
<1>1. /\ interrupted' = TRUE /\ esc' = "cancelled" /\ pc' = "join" /\ idx' = 0
      /\ first' = (IF first = "none" THEN "cancelled" ELSE first)
      /\ UNCHANGED <<result, metrics>>
      /\ \/ st' = st
         \/ /\ pc \in {"start", "openWriter", "openDLQ", "openSource", "closeSource"}
            /\ st' = [st EXCEPT ![RL!Touched] = "half"]
    BY DEF RL!Cancel, RL!Blame, RL!Finally
<1>2. /\ st' \in [RL!Resources -> {"new", "half", "open", "closed"}]
      /\ pc \in Streaming => \A r \in RL!Resources : r # RL!Source => st'[r] = st[r]
      /\ pc # "start" => \A i \in 1..Chain : st'[RL!Middleware(i)] = st[RL!Middleware(i)]
      /\ pc # "openDLQ" => st'[RL!DLQ] = st[RL!DLQ]
  <2>1. CASE st' = st
    BY <2>1 DEF Typed
  <2>2. CASE /\ pc \in {"start", "openWriter", "openDLQ", "openSource", "closeSource"}
             /\ st' = [st EXCEPT ![RL!Touched] = "half"]
    BY <2>2, HalfOpen DEF Streaming
  <2>3. QED
    BY <1>1, <2>1, <2>2
<1>3. pc' \in RL!Awaits /\ first' \in RL!Errors /\ esc' \in RL!Errors /\ idx' \in 0..Chain
    BY <1>1 DEF RL!Awaits, RL!Errors, Typed, LifecycleBounds
<1>b. interrupted' \in BOOLEAN
    BY <1>1
<1>4. Typed'
    BY <1>u, <1>c, <1>1, <1>2, <1>3, <1>b DEF Typed
<1>5. FlagsOK'
    BY <1>u, <1>1 DEF FlagsOK, Starting, Streaming, Closing, Sinking
<1>6. ErrorsOK'
    BY <1>u, <1>c, <1>1 DEF ErrorsOK, Starting, Streaming, Closing, Sinking
<1>7. SourceOK'
    BY <1>c, <1>1 DEF SourceOK, SourceIs, Starting, Streaming, Closing, Sinking
<1>8. MiddlewaresOK' /\ SinksOK'
  <2>1. CASE pc \in Streaming
    BY <1>u, <1>1, <1>2, <2>1, RunningKept
  <2>2. CASE pc \notin Streaming
    <3>1. ~writerOpened /\ ~dlqOpened /\ (pc = "start" => ~started) /\ pc \in Starting
      BY <2>2 DEF FlagsOK, Starting, Streaming
    <3>2. ~conf.dlq => st'[RL!DLQ] = "new"
      BY <1>2 DEF SinksOK, SinksAre, FlagsOK
    <3>3. SinksOK'
      BY <1>c, <1>u, <1>1, <3>1, <3>2 DEF SinksOK, SinksAre, Starting, Streaming, Closing, Sinking
    <3>4. MiddlewaresOK'
      <4>1. SUFFICES ASSUME NEW i \in 1..Chain PROVE MiddlewareIs(i, st[RL!Middleware(i)])'
        BY DEF MiddlewaresOK
      <4>2. started => st'[RL!Middleware(i)] = "open"
        BY <1>2, <3>1 DEF MiddlewaresOK, MiddlewareIs
      <4>3. QED
        BY <1>c, <1>u, <1>1, <4>2 DEF MiddlewareIs, Starting, Streaming, Closing, Sinking
    <3>5. QED
      BY <3>3, <3>4
  <2>3. QED
    BY <2>1, <2>2
<1>. QED
    BY <1>1, <1>4, <1>5, <1>6, <1>7, <1>8, NotEnded DEF PlaceKnown

\* A cancellation of the stream: the source is still closed.
LEMMA CancelStreamInv ==
  ASSUME LifecycleBounds, LifecycleInv, RL!Cancel, pc \in {"stream", "handle"} PROVE LifecycleInv'
<1> USE DEF LifecycleInv
<1>c. cancels' = cancels + 1 /\ cancels' \in 0..MaxCancels /\ cancels \in Nat /\ cancels' # 0
    BY DEF RL!Cancel, Typed, LifecycleBounds
<1>1. /\ \/ /\ pc = "stream" /\ pc' = "closeSource" /\ first' = "cancelled"
            /\ UNCHANGED <<idx, esc>>
         \/ /\ pc = "handle" /\ pc' = "join" /\ esc' = "cancelled" /\ idx' = 0
            /\ UNCHANGED first
      /\ UNCHANGED <<conf, st, twice, started, writerOpened, dlqOpened, interrupted, runErr,
                     shutErr, metrics, result>>
    BY DEF RL!Cancel, RL!Blame, RL!Finally, ErrorsOK, Starting, Streaming
<1>2. pc' \in RL!Awaits /\ first' \in RL!Errors /\ esc' \in RL!Errors /\ idx' \in 0..Chain
    BY <1>1 DEF RL!Awaits, RL!Errors, Typed, LifecycleBounds
<1>3. Typed'
    BY <1>c, <1>1, <1>2 DEF Typed
<1>4. FlagsOK' /\ ErrorsOK'
    BY <1>c, <1>1 DEF FlagsOK, ErrorsOK, Starting, Streaming, Closing, Sinking
<1>5. SourceOK'
    BY <1>c, <1>1 DEF SourceOK, SourceIs, Starting, Streaming, Closing, Sinking
<1>6. SinksOK'
    BY <1>c, <1>1 DEF SinksOK, SinksAre, Starting, Streaming, Closing, Sinking
<1>7. MiddlewaresOK'
  <2>1. SUFFICES ASSUME NEW i \in 1..Chain PROVE MiddlewareIs(i, st[RL!Middleware(i)])'
    BY DEF MiddlewaresOK
  <2>2. MiddlewareIs(i, st[RL!Middleware(i)])
    BY DEF MiddlewaresOK
  <2>3. QED
    BY <1>c, <1>1, <2>2 DEF MiddlewareIs, Starting, Streaming, Closing, Sinking
<1>. QED
    BY <1>2, <1>3, <1>4, <1>5, <1>6, <1>7, NotEnded DEF PlaceKnown, RL!Awaits

\* A cancellation while restoring or shutting down ends the run there.
LEMMA CancelEndInv ==
  ASSUME LifecycleBounds, LifecycleInv, RL!Cancel, pc \in {"restore"} \cup Closing
  PROVE  LifecycleInv'
<1> USE DEF LifecycleInv
<1>c. cancels' = cancels + 1 /\ cancels' \in 0..MaxCancels /\ cancels \in Nat /\ cancels' # 0
    BY DEF RL!Cancel, Typed, LifecycleBounds
<1>1. /\ pc' = "ended" /\ result' = "cancelled" /\ metrics' = FALSE
      /\ UNCHANGED <<conf, idx, st, twice, started, writerOpened, dlqOpened, interrupted, runErr,
                     first, shutErr, esc>>
    BY DEF RL!Cancel, Closing, Sinking, FlagsOK, Starting, Typed
<1>2. result' \in RL!Errors \ {"none"}
    BY <1>1 DEF RL!Errors
<1>b. metrics' \in BOOLEAN
    BY <1>1
<1>3. Typed'
    BY <1>c, <1>1, <1>2, <1>b DEF Typed
<1>4. FlagsOK' /\ ErrorsOK'
    BY <1>c, <1>1 DEF FlagsOK, ErrorsOK, Starting, Streaming, Closing, Sinking
<1>5. MiddlewaresOK' /\ SinksOK' /\ SourceOK'
    BY <1>c, <1>1 DEF MiddlewaresOK, MiddlewareIs, SinksOK, SinksAre, SourceOK, SourceIs,
       Starting, Streaming, Closing, Sinking
<1>6. RL!AllReleased'
  <2>1. ~(cancels' = 1 /\ writerOpened' /\ first' = "cancelled")
    BY <1>c, <1>1 DEF ErrorsOK, FlagsOK, Starting
  <2>2. QED
    BY <1>c, <2>1 DEF RL!AllReleased
<1>7. RL!ReasonPreserved' /\ RL!OkMeansFlushed'
    BY <1>c, <1>1 DEF RL!ReasonPreserved, RL!OkMeansFlushed
<1>. QED
    BY <1>3, <1>4, <1>5, <1>6, <1>7

\* Every step keeps the invariant.
LEMMA NextLifecycle == ASSUME LifecycleBounds, LifecycleInv, [RL!Next]_(RL!vars) PROVE LifecycleInv'
<1>1. CASE RL!Step
    BY <1>1, RestoreInv, StartInv, RollbackInv, OpenSinksInv, RollbackOpenInv, StreamInv,
       OpenSourceInv, CloseSourceInv, HandleInv, StopInv, ShutdownInv, CloseStoreInv DEF RL!Step
<1>2. CASE RL!Cancel
  <2>1. \/ pc \in {"start", "openWriter", "openDLQ", "openSource", "closeSource", "rollback",
                   "closeDLQback", "closeWriterBack", "report"}
        \/ pc \in {"stream", "handle"}
        \/ pc \in {"restore"} \cup Closing
    BY <1>2 DEF RL!Cancel, Closing, Sinking
  <2>2. QED
    BY <1>2, <2>1, CancelStartInv, CancelStreamInv, CancelEndInv
<1>3. CASE UNCHANGED RL!vars
    BY <1>3 DEF RL!vars, RL!flags, LifecycleInv, Typed, FlagsOK, MiddlewaresOK, MiddlewareIs,
       SinksOK,
       SinksAre, SourceOK, SourceIs, ErrorsOK, RL!AllReleased, RL!ReasonPreserved, RL!OkMeansFlushed
<1>. QED
    BY <1>1, <1>2, <1>3 DEF RL!Next, RL!Ended

-----------------------------------------------------------------------------

\* LifecycleInv is an invariant of the run.
LEMMA Invariance == ASSUME LifecycleBounds PROVE RL!Spec => []LifecycleInv
<1>1. RL!Init => LifecycleInv
    BY InitLifecycle
<1>2. LifecycleInv /\ [RL!Next]_(RL!vars) => LifecycleInv'
    BY NextLifecycle
<1>. QED
    BY <1>1, <1>2, PTL DEF RL!Spec

\* What the composed specification does to a run is what RunLifecycle does.
LEMMA LifecycleRuns == RuntimeSpec => RL!Spec
<1>1. RuntimeInit => RL!Init
    BY DEF RuntimeInit
<1>2. [RuntimeNext]_all => [RL!Next]_(RL!vars)
    BY DEF RuntimeNext, all, rlvars, RL!vars, RL!flags
<1>. QED
    BY <1>1, <1>2, PTL DEF RuntimeSpec, RuntimeSafety, RL!Spec

\* Whatever fails, and however often the run's task is cancelled: what was opened
\* is released (by the rollbacks of start_all and open_runtime_sinks or by
\* shutdown_runtime), never twice, and the live-metrics task ends with the run.
THEOREM ReleasesAllOnce == RuntimeSpec => []AllReleasedOnce
<1>1. LifecycleInv => AllReleasedOnce
  <2>1. LifecycleInv => RL!MetricsTaskEnds
    BY DEF LifecycleInv, FlagsOK, RL!MetricsTaskEnds
  <2>2. QED
    BY <2>1, TypedIsTypeOK DEF LifecycleInv, RL!AllReleasedOnce, AllReleasedOnce
<1>2. RL!Spec => []LifecycleInv
    BY Invariance, LifecycleAssumption DEF LifecycleAssumption, LifecycleBounds
<1>. QED
    BY <1>1, <1>2, LifecycleRuns, PTL

\* The caller of execute gets the reason of the failure, and success only after
\* everything was flushed and closed.
THEOREM OutcomesAreTrue == RuntimeSpec => []OutcomeIsTrue
<1>1. LifecycleInv => OutcomeIsTrue
    BY DEF LifecycleInv, RL!OutcomeIsTrue, OutcomeIsTrue
<1>2. RL!Spec => []LifecycleInv
    BY Invariance, LifecycleAssumption DEF LifecycleAssumption, LifecycleBounds
<1>. QED
    BY <1>1, <1>2, LifecycleRuns, PTL

-----------------------------------------------------------------------------
(* Scheduler.                                                              *)

USE WorkersAssumption, BoundsAssumption DEF WorkersAssumption, BoundsAssumption

-----------------------------------------------------------------------------
(* The inductive invariant, by worker.                                     *)

\* The store and its client agree on who may hold the lease: under the token of
\* the last run, and unknown to its client only after a crash.
LeaseKnown(x) ==
  /\ w[x].local \in {0, w[x].fence}
  /\ lease.holder = x => lease.token = w[x].fence /\ w[x].fence # 0
  /\ lease.holder = x => w[x].local = w[x].fence
                         \/ (w[x].pool = "down" /\ w[x].task = "none")

\* A worker that waits or that came down in order has given the lease back.
LeaseReturned(x) ==
  /\ w[x].pc \in {"top", "wait"} => lease.holder # x
  /\ w[x].pool = "down" => w[x].pc = "ended" /\ (w[x].task # "none" => lease.holder # x)

\* Only a scheduler that is on its way out leaves a run task behind.
TaskKept(x) ==
  /\ w[x].pc \in {"top", "wait", "build", "backoff"} => w[x].task \notin Running
  /\ w[x].pc = "notify" /\ ~w[x].leave => w[x].task \notin Running

\* The loop is entered and re-entered with errors to spare.
BudgetLeft(x) ==
  w[x].pc \in {"top", "build", "running", "cancelling", "wait"} => w[x].errs < MaxErrors

\* What the run of record r has done since its lease went away; held says that its
\* worker is the holder.  The one late write of its task, and the one of its owner,
\* are those whose check had succeeded, so that no other check succeeds after them;
\* the shutdown has made no more calls than lie before the step it is at.
LateOf(r, held) ==
  /\ r.late <= 1 /\ (r.late # 0 => ~held /\ r.task \notin {"write", "flush", "report"})
  /\ r.ownerLate <= 1 /\ (r.ownerLate # 0 => ~held /\ r.owner \notin {"write", "last"})
  /\ r.spill <= 3
  /\ r.task \in {"work", "write", "drain", "report", "flushDLQ"} \/ r.pc = "build" => r.spill = 0
  /\ r.task = "closeDLQ" => r.spill <= 1
  /\ r.task \in {"check", "flush", "closeWriter"} => r.spill <= 2

LateOnce(x) == LateOf(w[x], lease.holder = x)

WorkerInv(x) ==
  /\ LeaseKnown(x) /\ LeaseReturned(x) /\ TaskKept(x) /\ BudgetLeft(x) /\ LateOnce(x)

SchedulerInv == TypeOK /\ \A x \in Workers : WorkerInv(x)

\* No worker has run yet and nobody holds the lease.
LEMMA InitScheduler == Init => SchedulerInv
BY DEF Init, SchedulerInv, TypeOK, Worker, WorkerInv, LeaseKnown, LeaseReturned, TaskKept,
       BudgetLeft, LateOnce, LateOf, Running, ShutdownSteps

\* Worker x moves to state r, and the store gives the lease to no other worker.
WorkerMoves(x, r) ==
  /\ r \in Worker /\ Set(x, r)
  /\ lease' \in [holder : Workers \cup {Elsewhere, None}, token : Nat]
  /\ \A y \in Workers : lease'.holder = y => y = x \/ lease' = lease

\* A step of one worker is judged by what it does to that worker: what the
\* invariant says of another one depends on the lease only while that one holds it.
LEMMA OnlyOneMoves ==
  ASSUME SchedulerInv, NEW x \in Workers, NEW r, WorkerMoves(x, r), w'[x] = r => WorkerInv(x)'
  PROVE  SchedulerInv'
<1> USE DEF WorkerMoves, Set, SchedulerInv
<1>1. TypeOK'
    BY DEF TypeOK
<1>2. w'[x] = r
    BY DEF TypeOK
<1>3. ASSUME NEW y \in Workers, y # x PROVE WorkerInv(y)'
  <2>1. w'[y] = w[y]
    BY <1>3 DEF TypeOK
  <2>2. lease'.holder = y => lease' = lease
    BY <1>3
  <2>3. WorkerInv(y)
    OBVIOUS
  <2>4. QED
    BY <2>1, <2>2, <2>3 DEF WorkerInv, LeaseKnown, LeaseReturned, TaskKept, BudgetLeft, LateOnce,
        LateOf
<1>4. QED
    BY <1>1, <1>2, <1>3

\* What is known of the worker that moves and of the lease.
LEMMA WorkerKnown ==
  ASSUME SchedulerInv, NEW x \in Workers
  PROVE  /\ w[x] \in Worker /\ WorkerInv(x)
         /\ lease.holder \in Workers \cup {Elsewhere, None} /\ lease.token \in Nat
         /\ Holds(x, w[x].fence) <=> lease.holder = x
         /\ Holds(x, w[x].local) <=> w[x].local # 0 /\ lease.holder = x
BY DEF SchedulerInv, TypeOK, Holds, WorkerInv, LeaseKnown, LeaseReturned, TaskKept

\* A step of worker x that does not touch the store.
LEMMA LeaseStays ==
  ASSUME SchedulerInv, NEW x \in Workers, NEW r \in Worker, Set(x, r), UNCHANGED lease,
         w'[x] = r => WorkerInv(x)'
  PROVE  SchedulerInv'
<1>1. WorkerMoves(x, r)
    BY DEF WorkerMoves, SchedulerInv, TypeOK
<1>2. QED
    BY <1>1, OnlyOneMoves

\* The store: the lease leaves its holder, or goes elsewhere.
LEMMA StoreStep ==
  ASSUME SchedulerInv, Expire \/ TakenElsewhere
  PROVE  SchedulerInv'
<1> USE DEF SchedulerInv, WorkerInv, LeaseKnown, LeaseReturned, TaskKept, BudgetLeft, LateOnce,
        LateOf
<1>1. CASE Expire
    BY <1>1 DEF Expire, TypeOK
<1>2. CASE TakenElsewhere
    BY <1>2 DEF TakenElsewhere, Granted, TypeOK
<1>. QED
    BY <1>1, <1>2

\* The store's client notices a loss and reports it.
LEMMA ClientStep ==
  ASSUME SchedulerInv, NEW x \in Workers,
         NoticeLoss(x) \/ LeaseLostCallback(x)
  PROVE  SchedulerInv'
<1> USE DEF WorkerInv, LeaseKnown, LeaseReturned, TaskKept, BudgetLeft, LateOnce, LateOf, Running,
        ShutdownSteps
<1>0. w[x] \in Worker /\ WorkerInv(x)
    BY WorkerKnown
<1>1. CASE NoticeLoss(x)
  <2> DEFINE r == [w[x] EXCEPT !.local = 0, !.lost = TRUE]
  <2>1. UNCHANGED lease /\ Set(x, r) /\ lease.holder # x
    BY <1>1, WorkerKnown DEF NoticeLoss
  <2>2. r \in Worker
    BY <1>0, <2>1 DEF Worker
  <2>3. ASSUME w'[x] = r PROVE WorkerInv(x)'
    BY <1>0, <2>1, <2>3 DEF Worker
  <2>4. QED
    BY <2>1, <2>2, <2>3, LeaseStays
<1>2. CASE LeaseLostCallback(x)
  <2> DEFINE r == [w[x] EXCEPT !.lost = FALSE, !.abort = TRUE]
  <2>1. UNCHANGED lease /\ Set(x, r) /\ w[x].pool # "down"
    BY <1>2, WorkerKnown DEF LeaseLostCallback
  <2>2. r \in Worker
    BY <1>0, <2>1 DEF Worker
  <2>3. ASSUME w'[x] = r PROVE WorkerInv(x)'
    BY <1>0, <2>1, <2>3 DEF Worker
  <2>4. QED
    BY <2>1, <2>2, <2>3, LeaseStays
<1>. QED
    BY <1>1, <1>2

\* The scheduler loop between two runs.
LEMMA LoopStep ==
  ASSUME SchedulerInv, NEW x \in Workers,
         \/ LoopEnds(x) \/ SkipRun(x) \/ HookFails(x)
         \/ WaitEnds(x) \/ BackoffEnds(x) \/ AbortedRunEnds(x)
  PROVE  SchedulerInv'
<1> USE DEF WorkerInv, LeaseKnown, LeaseReturned, TaskKept, BudgetLeft, LateOnce, LateOf, Running,
        ShutdownSteps
<1>0. w[x] \in Worker /\ WorkerInv(x)
    BY WorkerKnown
<1>1. CASE LoopEnds(x)
  <2> DEFINE r == [w[x] EXCEPT !.pc = "ended"]
  <2>1. UNCHANGED lease /\ Set(x, r)
    BY <1>1, WorkerKnown DEF LoopEnds
  <2>2. r \in Worker
    BY <1>0, <2>1 DEF Worker
  <2>3. ASSUME w'[x] = r PROVE WorkerInv(x)'
    BY <1>0, <2>1, <2>3 DEF Worker
  <2>4. QED
    BY <2>1, <2>2, <2>3, LeaseStays
<1>2. CASE SkipRun(x)
  <2> DEFINE r == [w[x] EXCEPT !.pc = IF ShouldContinue(w[x]) THEN "wait" ELSE "ended"]
  <2>1. UNCHANGED lease /\ Set(x, r) /\ w[x].pc = "top"
    BY <1>2, WorkerKnown DEF SkipRun
  <2>2. r \in Worker
    BY <1>0, <2>1 DEF Worker
  <2>3. ASSUME w'[x] = r PROVE WorkerInv(x)'
    BY <1>0, <2>1, <2>3 DEF Worker
  <2>4. QED
    BY <2>1, <2>2, <2>3, LeaseStays
<1>3. CASE HookFails(x)
  <2> DEFINE r == [w[x] EXCEPT !.pc = "ended"]
  <2>1. UNCHANGED lease /\ Set(x, r)
    BY <1>3, WorkerKnown DEF HookFails
  <2>2. r \in Worker
    BY <1>0, <2>1 DEF Worker
  <2>3. ASSUME w'[x] = r PROVE WorkerInv(x)'
    BY <1>0, <2>1, <2>3 DEF Worker
  <2>4. QED
    BY <2>1, <2>2, <2>3, LeaseStays
<1>4. CASE WaitEnds(x)
  <2> DEFINE r == [w[x] EXCEPT !.pc = "top"]
  <2>1. UNCHANGED lease /\ Set(x, r) /\ w[x].pc = "wait"
    BY <1>4, WorkerKnown DEF WaitEnds
  <2>2. r \in Worker
    BY <1>0, <2>1 DEF Worker
  <2>3. ASSUME w'[x] = r PROVE WorkerInv(x)'
    BY <1>0, <2>1, <2>3 DEF Worker
  <2>4. QED
    BY <2>1, <2>2, <2>3, LeaseStays
<1>5. CASE BackoffEnds(x)
  <2> DEFINE r == [w[x] EXCEPT !.pc = "notify"]
  <2>1. UNCHANGED lease /\ Set(x, r) /\ w[x].pc = "backoff"
    BY <1>5, WorkerKnown DEF BackoffEnds
  <2>2. r \in Worker
    BY <1>0, <2>1 DEF Worker
  <2>3. ASSUME w'[x] = r PROVE WorkerInv(x)'
    BY <1>0, <2>1, <2>3 DEF Worker
  <2>4. QED
    BY <2>1, <2>2, <2>3, LeaseStays
<1>6. CASE AbortedRunEnds(x)
  <2> DEFINE r == [w[x] EXCEPT !.pc = "notify"]
  <2>1. UNCHANGED lease /\ Set(x, r) /\ w[x].pc = "cancelling" /\ w[x].task = "done"
    BY <1>6, WorkerKnown DEF AbortedRunEnds
  <2>2. r \in Worker
    BY <1>0, <2>1 DEF Worker
  <2>3. ASSUME w'[x] = r PROVE WorkerInv(x)'
    BY <1>0, <2>1, <2>3 DEF Worker
  <2>4. QED
    BY <2>1, <2>2, <2>3, LeaseStays
<1>. QED
    BY <1>1, <1>2, <1>3, <1>4, <1>5, <1>6

\* How much a call of the run counts.
LEMMA LateIs ==
  ASSUME SchedulerInv, NEW x \in Workers
  PROVE  Late(x) \in {0, 1} /\ Late(x) \in Nat /\ (Late(x) # 0 => lease.holder # x)
BY WorkerKnown DEF Late

\* Only the owner of record r is cancelled.
LEMMA OwnerCancelledKnown ==
  ASSUME SchedulerInv, NEW x \in Workers, NEW r \in Worker, LateOf(r, lease.holder = x)
  PROVE  \E n \in Nat :
           /\ OwnerCancelled(x, r) = [r EXCEPT !.owner = "none", !.ownerLate = n]
           /\ n <= 1 /\ (n # 0 => lease.holder # x)
<1>1. CASE r.owner \in {"write", "last"}
  <2>1. r.ownerLate + Late(x) = Late(x)
    BY <1>1, LateIs DEF LateOf, Worker
  <2> DEFINE n == Late(x)
  <2>2. OwnerCancelled(x, r) = [r EXCEPT !.owner = "none", !.ownerLate = n]
    BY <1>1, <2>1 DEF OwnerCancelled
  <2>3. n \in Nat /\ n <= 1 /\ (n # 0 => lease.holder # x)
    BY LateIs
  <2> HIDE DEF n
  <2>4. QED
    BY <2>2, <2>3
<1>2. CASE r.owner \notin {"write", "last"}
  <2>1. r.ownerLate + 0 = r.ownerLate /\ r.ownerLate \in Nat
    BY DEF Worker
  <2>2. OwnerCancelled(x, r) = [r EXCEPT !.owner = "none", !.ownerLate = r.ownerLate]
    BY <1>2, <2>1 DEF OwnerCancelled
  <2>3. QED
    BY <2>1, <2>2 DEF LateOf
<1>. QED
    BY <1>1, <1>2

\* A cancelled run: nothing but the run changes, and the calls it was at, which
\* count as made, are the last ones of their kind.
LEMMA CancelledKnown ==
  ASSUME SchedulerInv, NEW x \in Workers, NEW c \in Cancelled(x)
  PROVE  /\ c \in Worker /\ LateOf(c, lease.holder = x) /\ c.task # "none"
         /\ c.pc = w[x].pc /\ c.local = w[x].local /\ c.fence = w[x].fence
         /\ c.pool = w[x].pool /\ c.errs = w[x].errs /\ c.leave = w[x].leave
<1>0. /\ w[x] \in Worker /\ LateOf(w[x], lease.holder = x)
      /\ (w[x].pc = "build" => w[x].task \notin Running)
    BY WorkerKnown DEF WorkerInv, LateOnce, TaskKept
<1>l. Late(x) \in {0, 1} /\ Late(x) \in Nat /\ (Late(x) # 0 => lease.holder # x)
    BY LateIs
<1> DEFINE r == [w[x] EXCEPT !.res = "cancelled"]
<1>1. CASE w[x].task \in {"work", "write"}
  <2>t. PICK t \in {"drain", "flushDLQ"} :
          c = [r EXCEPT !.late = @ + IF w[x].task = "write" THEN Late(x) ELSE 0, !.task = t]
    BY <1>1 DEF Cancelled
  <2>1. PICK n \in Nat :
          /\ c = [w[x] EXCEPT !.res = "cancelled", !.late = n, !.task = t]
          /\ n <= 1 /\ (n # 0 => lease.holder # x)
    <3> DEFINE k == w[x].late + IF w[x].task = "write" THEN Late(x) ELSE 0
    <3>1. k \in Nat /\ k <= 1 /\ (k # 0 => lease.holder # x)
      BY <1>0, <1>1, <1>l DEF LateOf, Worker
    <3>2. c = [w[x] EXCEPT !.res = "cancelled", !.late = k, !.task = t]
      BY <1>0, <2>t DEF Worker
    <3> HIDE DEF k
    <3>3. QED
      BY <3>1, <3>2
  <2>2. c \in Worker
    BY <1>0, <2>1 DEF Worker, ShutdownSteps
  <2>3. QED
    BY <1>0, <1>1, <2>1, <2>2 DEF LateOf, Worker, Running
<1>2. CASE w[x].task = "drain"
  <2>1. r \in Worker /\ LateOf(r, lease.holder = x)
    BY <1>0 DEF LateOf, Worker
  <2>2. PICK n \in Nat :
          /\ OwnerCancelled(x, r) = [r EXCEPT !.owner = "none", !.ownerLate = n]
          /\ n <= 1 /\ (n # 0 => lease.holder # x)
    BY <2>1, OwnerCancelledKnown
  <2>3. c = [w[x] EXCEPT !.res = "cancelled", !.owner = "none", !.ownerLate = n,
                         !.task = "flushDLQ"]
    BY <1>0, <1>2, <2>2 DEF Cancelled, Worker
  <2>4. c \in Worker
    BY <1>0, <2>3 DEF Worker, ShutdownSteps
  <2>5. QED
    BY <1>0, <1>2, <2>2, <2>3, <2>4 DEF LateOf, Worker, Running
<1>3. CASE w[x].task \in {"flush", "report"}
  <2>1. w[x].late + Late(x) = Late(x)
    BY <1>0, <1>l, <1>3 DEF LateOf, Worker
  <2>2. PICK t \in {"done", "flushDLQ"} :
          /\ c = [w[x] EXCEPT !.res = "cancelled", !.late = Late(x), !.task = t]
          /\ t = "flushDLQ" => w[x].task = "report"
    <3>1. CASE w[x].task = "flush"
      <4>1. c = [w[x] EXCEPT !.res = "cancelled", !.late = Late(x), !.task = "done"]
        BY <1>0, <2>1, <3>1 DEF Cancelled, Worker
      <4>2. QED
        BY <3>1, <4>1
    <3>2. CASE w[x].task = "report"
      <4>1. c = [w[x] EXCEPT !.res = "cancelled", !.late = Late(x), !.task = "flushDLQ"]
        BY <1>0, <2>1, <3>2 DEF Cancelled, Worker
      <4>2. QED
        BY <3>2, <4>1
    <3>3. QED
      BY <1>3, <3>1, <3>2
  <2>3. c \in Worker
    BY <1>0, <1>l, <2>2 DEF Worker, ShutdownSteps
  <2>4. QED
    BY <1>0, <1>l, <1>3, <2>2, <2>3 DEF LateOf, Worker, Running, ShutdownSteps
<1>4. CASE w[x].task \in {"flushDLQ", "closeDLQ", "closeWriter"}
  <2> DEFINE n == w[x].spill + Late(x)
  <2>1. n \in Nat /\ n <= 3
    BY <1>0, <1>l, <1>4 DEF LateOf, Worker
  <2>2. c = [w[x] EXCEPT !.res = "cancelled", !.spill = n, !.task = "done"]
    BY <1>0, <1>4 DEF Cancelled, Worker
  <2> HIDE DEF n
  <2>3. c \in Worker
    BY <1>0, <2>1, <2>2 DEF Worker
  <2>4. QED
    BY <1>0, <1>4, <2>1, <2>2, <2>3 DEF LateOf, Worker, Running, ShutdownSteps
<1>5. CASE w[x].task \in {"none", "check", "done"}
  <2>1. c = [w[x] EXCEPT !.res = "cancelled", !.task = "done"]
    BY <1>0, <1>5 DEF Cancelled, Worker
  <2>2. c \in Worker
    BY <1>0, <2>1 DEF Worker
  <2>3. QED
    BY <1>0, <1>5, <2>1, <2>2 DEF LateOf, Worker
<1>. QED
    BY <1>0, <1>1, <1>2, <1>3, <1>4, <1>5 DEF Worker, ShutdownSteps

\* The scheduler while a run is built, awaited, or given up.
LEMMA RunStep ==
  ASSUME SchedulerInv, NEW x \in Workers,
         Build(x) \/ RunEnds(x) \/ AbortRun(x)
  PROVE  SchedulerInv'
<1> USE DEF WorkerInv, LeaseKnown, LeaseReturned, TaskKept, BudgetLeft, LateOnce, LateOf, Running,
        ShutdownSteps
<1>0. w[x] \in Worker /\ WorkerInv(x)
    BY WorkerKnown
<1>1. CASE Build(x)
  <2>1. CASE Set(x, [w[x] EXCEPT !.pc = "running", !.task = "work"])
    <3> DEFINE r == [w[x] EXCEPT !.pc = "running", !.task = "work"]
    <3>1. UNCHANGED lease /\ Set(x, r) /\ w[x].pc = "build"
      BY <1>1, <2>1, WorkerKnown DEF Build
    <3>2. r \in Worker
      BY <1>0, <3>1 DEF Worker
    <3>3. ASSUME w'[x] = r PROVE WorkerInv(x)'
      BY <1>0, <3>1, <3>3 DEF Worker
    <3>4. QED
      BY <3>1, <3>2, <3>3, LeaseStays
  <2>2. CASE Set(x, [w[x] EXCEPT !.pc = "backoff", !.errs = @ + 1])
    <3> DEFINE r == [w[x] EXCEPT !.pc = "backoff", !.errs = @ + 1]
    <3>1. UNCHANGED lease /\ Set(x, r) /\ w[x].pc = "build" /\ w[x].errs + 1 \in 0..MaxErrors
      BY <1>1, <2>2, WorkerKnown DEF Build, Worker
    <3>2. r \in Worker
      BY <1>0, <3>1 DEF Worker
    <3>3. ASSUME w'[x] = r PROVE WorkerInv(x)'
      BY <1>0, <3>1, <3>3 DEF Worker
    <3>4. QED
      BY <3>1, <3>2, <3>3, LeaseStays
  <2>. QED
    BY <1>1, <2>1, <2>2 DEF Build
<1>2. CASE RunEnds(x)
  <2>1. CASE w[x].res = "ok"
    <3> DEFINE r == [w[x] EXCEPT !.pc = "notify", !.errs = 0]
    <3>1. /\ UNCHANGED lease /\ Set(x, r)
          /\ w[x].pc = "running" /\ w[x].task = "done" /\ 0 \in 0..MaxErrors
      BY <1>2, <2>1, WorkerKnown DEF RunEnds, Worker
    <3>2. r \in Worker
      BY <1>0, <3>1 DEF Worker
    <3>3. ASSUME w'[x] = r PROVE WorkerInv(x)'
      BY <1>0, <3>1, <3>3 DEF Worker
    <3>4. QED
      BY <3>1, <3>2, <3>3, LeaseStays
  <2>2. CASE ~(w[x].res = "ok")
    <3> DEFINE r == [w[x] EXCEPT !.pc = "backoff", !.errs = @ + 1]
    <3>1. /\ UNCHANGED lease /\ Set(x, r)
          /\ w[x].pc = "running" /\ w[x].task = "done" /\ w[x].errs + 1 \in 0..MaxErrors
      BY <1>2, <2>2, WorkerKnown DEF RunEnds, Worker
    <3>2. r \in Worker
      BY <1>0, <3>1 DEF Worker
    <3>3. ASSUME w'[x] = r PROVE WorkerInv(x)'
      BY <1>0, <3>1, <3>3 DEF Worker
    <3>4. QED
      BY <3>1, <3>2, <3>3, LeaseStays
  <2>. QED
    BY <1>2, <2>1, <2>2 DEF RunEnds
<1>3. CASE AbortRun(x)
  <2>1. PICK c \in Cancelled(x) : Set(x, [c EXCEPT !.pc = "cancelling"])
    BY <1>3 DEF AbortRun, CancelsTask
  <2> DEFINE r == [c EXCEPT !.pc = "cancelling"]
  <2>2. UNCHANGED lease /\ Set(x, r) /\ w[x].pc = "running"
    BY <1>3, <2>1 DEF AbortRun
  <2>3. /\ c \in Worker /\ LateOf(c, lease.holder = x) /\ c.task # "none"
        /\ c.local = w[x].local /\ c.fence = w[x].fence /\ c.pool = w[x].pool
        /\ c.errs = w[x].errs
    BY <2>2, CancelledKnown
  <2>4. r \in Worker
    BY <2>3 DEF Worker
  <2>5. ASSUME w'[x] = r PROVE WorkerInv(x)'
    BY <1>0, <2>2, <2>3, <2>5 DEF Worker
  <2>6. QED
    BY <2>2, <2>4, <2>5, LeaseStays
<1>. QED
    BY <1>1, <1>2, <1>3

\* The lane is over.
LEMMA OverStep ==
  ASSUME SchedulerInv, NEW x \in Workers, NEW e \in {"ok", "error"},
         w[x].task = "work", Over(x, e), UNCHANGED lease
  PROVE  SchedulerInv'
<1> USE DEF WorkerInv, LeaseKnown, LeaseReturned, TaskKept, BudgetLeft, LateOnce, LateOf, Running,
        ShutdownSteps
<1>0. w[x] \in Worker /\ WorkerInv(x)
    BY WorkerKnown
<1>1. PICK t \in {"drain", "flushDLQ", "report"} :
        Set(x, [w[x] EXCEPT !.res = e, !.task = t]) /\ (t = "report" => lease.holder = x)
    BY WorkerKnown DEF Over, AfterLane, FenceActive
<1> DEFINE r == [w[x] EXCEPT !.res = e, !.task = t]
<1>2. r \in Worker
    BY <1>0 DEF Worker
<1>3. ASSUME w'[x] = r PROVE WorkerInv(x)'
    BY <1>0, <1>1, <1>3 DEF Worker
<1>4. QED
    BY <1>1, <1>2, <1>3, LeaseStays

\* The lane: a check that succeeded before the lease was lost lets one write
\* through, and a check after it fails.
LEMMA LaneStep ==
  ASSUME SchedulerInv, NEW x \in Workers, Check(x) \/ Write(x) \/ StreamEnds(x)
  PROVE  SchedulerInv'
<1> USE DEF WorkerInv, LeaseKnown, LeaseReturned, TaskKept, BudgetLeft, LateOnce, LateOf, Running,
        ShutdownSteps
<1>0. w[x] \in Worker /\ WorkerInv(x)
    BY WorkerKnown
<1>l. Late(x) \in {0, 1} /\ Late(x) \in Nat /\ (Late(x) # 0 => lease.holder # x)
    BY LateIs
<1>1. CASE Check(x) /\ FenceActive(x)
  <2> DEFINE r == [w[x] EXCEPT !.task = "write"]
  <2>1. UNCHANGED lease /\ Set(x, r) /\ w[x].task = "work" /\ lease.holder = x
    BY <1>1, WorkerKnown DEF Check, FenceActive
  <2>2. r \in Worker
    BY <1>0, <1>l, <2>1 DEF Worker, ShutdownSteps
  <2>3. ASSUME w'[x] = r PROVE WorkerInv(x)'
    BY <1>0, <1>l, <2>1, <2>3 DEF Worker
  <2>4. QED
    BY <2>1, <2>2, <2>3, LeaseStays
<1>2. CASE Check(x) /\ ~FenceActive(x)
  <2>1. w[x].task = "work" /\ Over(x, "error") /\ UNCHANGED lease
    BY <1>2 DEF Check
  <2>2. QED
    BY <2>1, OverStep
<1>3. CASE Write(x)
  <2>0. w[x].task = "write" /\ w[x].late + Late(x) = Late(x)
    BY <1>0, <1>l, <1>3 DEF Write, Worker
  <2> DEFINE r == [w[x] EXCEPT !.task = "work", !.late = Late(x)]
  <2>1. UNCHANGED lease /\ Set(x, r)
    BY <1>3, <2>0 DEF Write
  <2>2. r \in Worker
    BY <1>0, <1>l, <2>1, <2>0 DEF Worker, ShutdownSteps
  <2>3. ASSUME w'[x] = r PROVE WorkerInv(x)'
    BY <1>0, <1>l, <2>1, <2>3, <2>0 DEF Worker
  <2>4. QED
    BY <2>1, <2>2, <2>3, LeaseStays
<1>4. CASE StreamEnds(x)
  <2>1. PICK e \in {"ok", "error"} : Over(x, e)
    BY <1>4 DEF StreamEnds
  <2>2. w[x].task = "work" /\ UNCHANGED lease
    BY <1>4 DEF StreamEnds
  <2>3. QED
    BY <2>1, <2>2, OverStep
<1>. QED
    BY <1>1, <1>2, <1>3, <1>4

\* The pending-write owner, the lane that waits for it, and the report of a failure.
LEMMA OwnerStep ==
  ASSUME SchedulerInv, NEW x \in Workers,
         OwnerStarts(x) \/ OwnerCheck(x) \/ OwnerWrite(x) \/ Drained(x) \/ Report(x)
  PROVE  SchedulerInv'
<1> USE DEF WorkerInv, LeaseKnown, LeaseReturned, TaskKept, BudgetLeft, LateOnce, LateOf, Running,
        ShutdownSteps
<1>0. w[x] \in Worker /\ WorkerInv(x)
    BY WorkerKnown
<1>l. Late(x) \in {0, 1} /\ Late(x) \in Nat /\ (Late(x) # 0 => lease.holder # x)
    BY LateIs
<1>1. CASE OwnerStarts(x)
  <2> DEFINE r == [w[x] EXCEPT !.owner = "idle"]
  <2>1. UNCHANGED lease /\ Set(x, r) /\ w[x].task = "work"
    BY <1>1 DEF OwnerStarts
  <2>2. r \in Worker
    BY <1>0, <1>l, <2>1 DEF Worker, ShutdownSteps
  <2>3. ASSUME w'[x] = r PROVE WorkerInv(x)'
    BY <1>0, <1>l, <2>1, <2>3 DEF Worker
  <2>4. QED
    BY <2>1, <2>2, <2>3, LeaseStays
<1>2. CASE OwnerCheck(x) /\ FenceActive(x)
  <2>0. PICK o \in {"write", "last"} : Set(x, [w[x] EXCEPT !.owner = o])
    BY <1>2 DEF OwnerCheck
  <2> DEFINE r == [w[x] EXCEPT !.owner = o]
  <2>1. UNCHANGED lease /\ Set(x, r) /\ lease.holder = x
    BY <1>2, <2>0, WorkerKnown DEF OwnerCheck, FenceActive
  <2>2. r \in Worker
    BY <1>0, <1>l, <2>1 DEF Worker, ShutdownSteps
  <2>3. ASSUME w'[x] = r PROVE WorkerInv(x)'
    BY <1>0, <1>l, <2>1, <2>3 DEF Worker
  <2>4. QED
    BY <2>1, <2>2, <2>3, LeaseStays
<1>3. CASE OwnerCheck(x) /\ ~FenceActive(x)
  <2> DEFINE r == [w[x] EXCEPT !.owner = "failed"]
  <2>1. UNCHANGED lease /\ Set(x, r)
    BY <1>3 DEF OwnerCheck
  <2>2. r \in Worker
    BY <1>0, <1>l, <2>1 DEF Worker, ShutdownSteps
  <2>3. ASSUME w'[x] = r PROVE WorkerInv(x)'
    BY <1>0, <1>l, <2>1, <2>3 DEF Worker
  <2>4. QED
    BY <2>1, <2>2, <2>3, LeaseStays
<1>4. CASE OwnerWrite(x)
  <2>0. w[x].owner \in {"write", "last"} /\ w[x].ownerLate + Late(x) = Late(x)
    BY <1>0, <1>l, <1>4 DEF OwnerWrite, Worker
  <2>p. PICK o \in {"none", "idle", "failed"} :
          Set(x, [w[x] EXCEPT !.owner = o, !.ownerLate = Late(x)])
    BY <1>4, <2>0 DEF OwnerWrite
  <2> DEFINE r == [w[x] EXCEPT !.owner = o, !.ownerLate = Late(x)]
  <2>1. UNCHANGED lease /\ Set(x, r)
    BY <1>4, <2>p DEF OwnerWrite
  <2>2. r \in Worker
    BY <1>0, <1>l, <2>1, <2>0 DEF Worker, ShutdownSteps
  <2>3. ASSUME w'[x] = r PROVE WorkerInv(x)'
    BY <1>0, <1>l, <2>1, <2>3, <2>0 DEF Worker
  <2>4. QED
    BY <2>1, <2>2, <2>3, LeaseStays
<1>5. CASE Drained(x)
  <2>e. PICK e \in {"ok", "error", "cancelled"} :
          \E t \in AfterLane(x, e) :
            Set(x, [w[x] EXCEPT !.task = t, !.owner = "none", !.res = e])
    BY <1>0, <1>5 DEF Drained, Failed, Worker
  <2>0. PICK t \in {"flushDLQ", "report"} :
          /\ Set(x, [w[x] EXCEPT !.task = t, !.owner = "none", !.res = e])
          /\ t = "report" => lease.holder = x
    BY <2>e, WorkerKnown DEF AfterLane, FenceActive
  <2> DEFINE r == [w[x] EXCEPT !.task = t, !.owner = "none", !.res = e]
  <2>1. UNCHANGED lease /\ Set(x, r) /\ w[x].task = "drain"
    BY <1>5, <2>0 DEF Drained
  <2>2. r \in Worker
    BY <1>0, <1>l, <2>1 DEF Worker, ShutdownSteps
  <2>3. ASSUME w'[x] = r PROVE WorkerInv(x)'
    BY <1>0, <1>l, <2>0, <2>1, <2>3 DEF Worker
  <2>4. QED
    BY <2>1, <2>2, <2>3, LeaseStays
<1>6. CASE Report(x)
  <2>0. w[x].task = "report" /\ w[x].late + Late(x) = Late(x)
    BY <1>0, <1>l, <1>6 DEF Report, Worker
  <2> DEFINE r == [w[x] EXCEPT !.task = "flushDLQ", !.late = Late(x)]
  <2>1. UNCHANGED lease /\ Set(x, r)
    BY <1>6, <2>0 DEF Report
  <2>2. r \in Worker
    BY <1>0, <1>l, <2>1, <2>0 DEF Worker, ShutdownSteps
  <2>3. ASSUME w'[x] = r PROVE WorkerInv(x)'
    BY <1>0, <1>l, <2>1, <2>3, <2>0 DEF Worker
  <2>4. QED
    BY <2>1, <2>2, <2>3, LeaseStays
<1>. QED
    BY <1>1, <1>2, <1>3, <1>4, <1>5, <1>6

\* The shutdown: each of its calls that ask no fence is made once.
LEMMA ShutdownStep ==
  ASSUME SchedulerInv, NEW x \in Workers,
         FlushDLQ(x) \/ CloseDLQ(x) \/ CheckFlush(x) \/ Flush(x) \/ CloseWriter(x)
  PROVE  SchedulerInv'
<1> USE DEF WorkerInv, LeaseKnown, LeaseReturned, TaskKept, BudgetLeft, LateOnce, LateOf, Running,
        ShutdownSteps
<1>0. w[x] \in Worker /\ WorkerInv(x)
    BY WorkerKnown
<1>l. Late(x) \in {0, 1} /\ Late(x) \in Nat /\ (Late(x) # 0 => lease.holder # x)
    BY LateIs
<1>f. \A e \in {"ok", "error", "cancelled"} : Failed(e) \in {"ok", "error", "cancelled"}
    BY DEF Failed
<1>1. CASE FlushDLQ(x) /\ Set(x, [w[x] EXCEPT !.task = "check"])
  <2> DEFINE r == [w[x] EXCEPT !.task = "check"]
  <2>1. UNCHANGED lease /\ Set(x, r) /\ w[x].task = "flushDLQ"
    BY <1>1 DEF FlushDLQ
  <2>2. r \in Worker
    BY <1>0, <1>l, <2>1 DEF Worker, ShutdownSteps
  <2>3. ASSUME w'[x] = r PROVE WorkerInv(x)'
    BY <1>0, <1>l, <2>1, <2>3 DEF Worker
  <2>4. QED
    BY <2>1, <2>2, <2>3, LeaseStays
<1>2. CASE FlushDLQ(x) /\ ~Set(x, [w[x] EXCEPT !.task = "check"])
  <2> DEFINE n == w[x].spill + Late(x)
  <2>0. /\ w[x].task = "flushDLQ" /\ UNCHANGED lease
        /\ n \in Nat /\ n <= 1
    BY <1>0, <1>l, <1>2 DEF FlushDLQ, Worker
  <2>p. PICK e \in {"ok", "error", "cancelled"} :
          Set(x, [w[x] EXCEPT !.task = "closeDLQ", !.res = e, !.spill = n])
    BY <1>0, <1>f, <1>2 DEF FlushDLQ, Worker
  <2> HIDE DEF n
  <2> DEFINE r == [w[x] EXCEPT !.task = "closeDLQ", !.res = e, !.spill = n]
  <2>1. UNCHANGED lease /\ Set(x, r)
    BY <2>0, <2>p
  <2>2. r \in Worker
    BY <1>0, <1>l, <2>1, <2>0 DEF Worker, ShutdownSteps
  <2>3. ASSUME w'[x] = r PROVE WorkerInv(x)'
    BY <1>0, <1>l, <2>1, <2>3, <2>0 DEF Worker
  <2>4. QED
    BY <2>1, <2>2, <2>3, LeaseStays
<1>3. CASE CloseDLQ(x)
  <2> DEFINE n == w[x].spill + Late(x)
  <2>0. /\ w[x].task = "closeDLQ" /\ UNCHANGED lease
        /\ n \in Nat /\ n <= 2
    BY <1>0, <1>l, <1>3 DEF CloseDLQ, Worker
  <2>p. PICK e \in {"ok", "error", "cancelled"} :
          Set(x, [w[x] EXCEPT !.task = "check", !.res = e, !.spill = n])
    BY <1>0, <1>f, <1>3 DEF CloseDLQ, Worker
  <2> HIDE DEF n
  <2> DEFINE r == [w[x] EXCEPT !.task = "check", !.res = e, !.spill = n]
  <2>1. UNCHANGED lease /\ Set(x, r)
    BY <2>0, <2>p
  <2>2. r \in Worker
    BY <1>0, <1>l, <2>1, <2>0 DEF Worker, ShutdownSteps
  <2>3. ASSUME w'[x] = r PROVE WorkerInv(x)'
    BY <1>0, <1>l, <2>1, <2>3, <2>0 DEF Worker
  <2>4. QED
    BY <2>1, <2>2, <2>3, LeaseStays
<1>4. CASE CloseWriter(x)
  <2> DEFINE n == w[x].spill + Late(x)
  <2>0. /\ w[x].task = "closeWriter" /\ UNCHANGED lease
        /\ n \in Nat /\ n <= 3
    BY <1>0, <1>l, <1>4 DEF CloseWriter, Worker
  <2>p. PICK e \in {"ok", "error", "cancelled"} :
          Set(x, [w[x] EXCEPT !.task = "done", !.res = e, !.spill = n])
    BY <1>0, <1>f, <1>4 DEF CloseWriter, Worker
  <2> HIDE DEF n
  <2> DEFINE r == [w[x] EXCEPT !.task = "done", !.res = e, !.spill = n]
  <2>1. UNCHANGED lease /\ Set(x, r)
    BY <2>0, <2>p
  <2>2. r \in Worker
    BY <1>0, <1>l, <2>1, <2>0 DEF Worker, ShutdownSteps
  <2>3. ASSUME w'[x] = r PROVE WorkerInv(x)'
    BY <1>0, <1>l, <2>1, <2>3, <2>0 DEF Worker
  <2>4. QED
    BY <2>1, <2>2, <2>3, LeaseStays
<1>5. CASE CheckFlush(x) /\ FenceActive(x)
  <2> DEFINE r == [w[x] EXCEPT !.task = "flush"]
  <2>1. UNCHANGED lease /\ Set(x, r) /\ w[x].task = "check" /\ lease.holder = x
    BY <1>5, WorkerKnown DEF CheckFlush, FenceActive
  <2>2. r \in Worker
    BY <1>0, <1>l, <2>1 DEF Worker, ShutdownSteps
  <2>3. ASSUME w'[x] = r PROVE WorkerInv(x)'
    BY <1>0, <1>l, <2>1, <2>3 DEF Worker
  <2>4. QED
    BY <2>1, <2>2, <2>3, LeaseStays
<1>6. CASE CheckFlush(x) /\ ~FenceActive(x)
  <2>0. PICK e \in {"ok", "error", "cancelled"} :
          Set(x, [w[x] EXCEPT !.task = "closeWriter", !.res = e])
    BY <1>0, <1>f, <1>6 DEF CheckFlush, Worker
  <2> DEFINE r == [w[x] EXCEPT !.task = "closeWriter", !.res = e]
  <2>1. UNCHANGED lease /\ Set(x, r) /\ w[x].task = "check"
    BY <1>6, <2>0 DEF CheckFlush
  <2>2. r \in Worker
    BY <1>0, <1>l, <2>1 DEF Worker, ShutdownSteps
  <2>3. ASSUME w'[x] = r PROVE WorkerInv(x)'
    BY <1>0, <1>l, <2>1, <2>3 DEF Worker
  <2>4. QED
    BY <2>1, <2>2, <2>3, LeaseStays
<1>7. CASE Flush(x)
  <2>0. w[x].task = "flush" /\ w[x].late + Late(x) = Late(x)
    BY <1>0, <1>l, <1>7 DEF Flush, Worker
  <2>p. PICK e \in {"ok", "error", "cancelled"} :
          Set(x, [w[x] EXCEPT !.task = "closeWriter", !.res = e, !.late = Late(x)])
    BY <1>0, <1>f, <1>7, <2>0 DEF Flush, Worker
  <2> DEFINE r == [w[x] EXCEPT !.task = "closeWriter", !.res = e, !.late = Late(x)]
  <2>1. UNCHANGED lease /\ Set(x, r)
    BY <1>7, <2>p DEF Flush
  <2>2. r \in Worker
    BY <1>0, <1>l, <2>1, <2>0 DEF Worker, ShutdownSteps
  <2>3. ASSUME w'[x] = r PROVE WorkerInv(x)'
    BY <1>0, <1>l, <2>1, <2>3, <2>0 DEF Worker
  <2>4. QED
    BY <2>1, <2>2, <2>3, LeaseStays
<1>. QED
    BY <1>1, <1>2, <1>3, <1>4, <1>5, <1>6, <1>7

\* The worker pool stops, cancels, dies or leaves its event loop.
LEMMA PoolStep ==
  ASSUME SchedulerInv, NEW x \in Workers,
         Stop(x) \/ ForceCancel(x) \/ PoolCancelled(x) \/ Crash(x) \/ CloseLoop(x)
  PROVE  SchedulerInv'
<1> USE DEF WorkerInv, LeaseKnown, LeaseReturned, TaskKept, BudgetLeft, LateOnce, LateOf, Running,
        ShutdownSteps
<1>0. w[x] \in Worker /\ WorkerInv(x)
    BY WorkerKnown
<1>1. CASE Stop(x)
  <2> DEFINE r == [w[x] EXCEPT !.pool = "stopping", !.stop = TRUE]
  <2>1. UNCHANGED lease /\ Set(x, r) /\ w[x].pool = "up"
    BY <1>1, WorkerKnown DEF Stop
  <2>2. r \in Worker
    BY <1>0, <2>1 DEF Worker
  <2>3. ASSUME w'[x] = r PROVE WorkerInv(x)'
    BY <1>0, <2>1, <2>3 DEF Worker
  <2>4. QED
    BY <2>1, <2>2, <2>3, LeaseStays
<1>2. ASSUME ForceCancel(x) \/ PoolCancelled(x) PROVE SchedulerInv'
  <2>0. /\ UNCHANGED lease /\ w[x].pool \in {"up", "stopping"}
        /\ \E r \in CancelScheduler(x) : Set(x, [r EXCEPT !.pool = "gathering"])
    BY <1>2 DEF ForceCancel, PoolCancelled
  <2>1. CASE w[x].pc \in {"build", "running", "backoff"}
    <3> DEFINE r == [w[x] EXCEPT !.pc = "notify", !.leave = TRUE, !.pool = "gathering"]
    <3>1. Set(x, r)
      BY <2>0, <2>1 DEF CancelScheduler
    <3>2. r \in Worker
      BY ZenonT(90), <1>0 DEF Worker
    <3>3. ASSUME w'[x] = r PROVE WorkerInv(x)'
      BY <1>0, <2>0, <3>3 DEF Worker
    <3>4. QED
      BY <2>0, <3>1, <3>2, <3>3, LeaseStays
  <2>2. CASE w[x].pc = "cancelling"
    <3>1. PICK c \in Cancelled(x) : Set(x, [c EXCEPT !.pool = "gathering"])
      BY <2>0, <2>2 DEF CancelScheduler
    <3> DEFINE r == [c EXCEPT !.pool = "gathering"]
    <3>2. /\ c \in Worker /\ LateOf(c, lease.holder = x) /\ c.task # "none"
          /\ c.pc = "cancelling" /\ c.local = w[x].local /\ c.fence = w[x].fence
          /\ c.errs = w[x].errs
      BY <2>2, CancelledKnown
    <3>3. r \in Worker
      BY <3>2 DEF Worker
    <3>4. ASSUME w'[x] = r PROVE WorkerInv(x)'
      BY <1>0, <2>0, <2>2, <3>2, <3>4 DEF Worker
    <3>5. QED
      BY <2>0, <3>1, <3>3, <3>4, LeaseStays
  <2>3. CASE w[x].pc \notin {"build", "running", "backoff", "cancelling"}
    <3> DEFINE r == [w[x] EXCEPT !.pc = "ended", !.pool = "gathering"]
    <3>1. Set(x, r)
      BY <1>0, <2>0, <2>3 DEF CancelScheduler, Worker
    <3>2. r \in Worker
      BY ZenonT(90), <1>0 DEF Worker
    <3>3. ASSUME w'[x] = r PROVE WorkerInv(x)'
      BY <1>0, <2>0, <3>3 DEF Worker
    <3>4. QED
      BY <2>0, <3>1, <3>2, <3>3, LeaseStays
  <2>. QED
    BY <2>1, <2>2, <2>3
<1>4. CASE Crash(x)
  <2> DEFINE r == [w[x] EXCEPT !.pool = "down", !.pc = "ended", !.task = "none",
                               !.owner = "none", !.local = 0]
  <2>1. UNCHANGED lease /\ Set(x, r)
    BY <1>4, WorkerKnown DEF Crash
  <2>2. r \in Worker
    BY ZenonT(90), <1>0, <2>1 DEF Worker
  <2>3. ASSUME w'[x] = r PROVE WorkerInv(x)'
    BY <1>0, <2>1, <2>3 DEF Worker
  <2>4. QED
    BY <2>1, <2>2, <2>3, LeaseStays
<1>5. CASE CloseLoop(x)
  <2>0. UNCHANGED lease /\ w[x].pool = "down" /\ w[x].pc = "ended"
    BY <1>0, <1>5 DEF CloseLoop
  <2>1. PICK c \in IF w[x].task \in Running THEN Cancelled(x) ELSE {w[x]} :
          Set(x, OwnerCancelled(x, c))
    BY <1>5 DEF CloseLoop
  <2>2. /\ c \in Worker /\ LateOf(c, lease.holder = x)
        /\ c.pc = "ended" /\ c.local = w[x].local /\ c.fence = w[x].fence
        /\ c.pool = "down" /\ (c.task # "none" => w[x].task # "none")
        /\ (c.task = "none" => w[x].task = "none")
    <3>1. CASE w[x].task \in Running
      BY <2>0, <2>1, <3>1, CancelledKnown
    <3>2. CASE w[x].task \notin Running
      BY <1>0, <2>0, <2>1, <3>2
    <3>3. QED
      BY <3>1, <3>2
  <2>3. PICK n \in Nat :
          /\ OwnerCancelled(x, c) = [c EXCEPT !.owner = "none", !.ownerLate = n]
          /\ n <= 1 /\ (n # 0 => lease.holder # x)
    BY <2>2, OwnerCancelledKnown
  <2> DEFINE r == [c EXCEPT !.owner = "none", !.ownerLate = n]
  <2>4. r \in Worker
    BY <2>2, <2>3 DEF Worker
  <2>5. ASSUME w'[x] = r PROVE WorkerInv(x)'
    BY <1>0, <2>0, <2>2, <2>3, <2>5 DEF Worker
  <2>6. QED
    BY <2>0, <2>1, <2>3, <2>4, <2>5, LeaseStays
<1>. QED
    BY <1>1, <1>2, <1>4, <1>5

\* The steps in which a worker takes the lease or gives it back.
LEMMA LeaseStep ==
  ASSUME SchedulerInv, NEW x \in Workers, StartRun(x) \/ Notify(x) \/ PoolEnds(x)
  PROVE  SchedulerInv'
<1> USE DEF WorkerInv, LeaseKnown, LeaseReturned, TaskKept, BudgetLeft, LateOnce, LateOf, Running,
        ShutdownSteps
<1>0. w[x] \in Worker /\ WorkerInv(x)
    BY WorkerKnown
<1>1. CASE StartRun(x)
  <2> DEFINE r == [w[x] EXCEPT !.pc = "build", !.runs = @ + 1, !.abort = FALSE, !.res = "ok",
                               !.late = 0, !.ownerLate = 0, !.spill = 0,
                               !.task = "none", !.owner = "none",
                               !.local = lease.token + 1, !.fence = lease.token + 1]
  <2>1. /\ lease' = [holder |-> x, token |-> lease.token + 1] /\ Set(x, r)
        /\ w[x].pc = "top" /\ w[x].runs < MaxRuns
    BY <1>1 DEF StartRun, Granted
  <2>2. /\ lease.token + 1 \in Nat \ {0} /\ w[x].runs + 1 \in 0..MaxRuns
        /\ w[x].pool # "down" /\ w[x].errs < MaxErrors
    BY <1>0, <2>1, WorkerKnown DEF Worker
  <2>3. r \in Worker
    BY ZenonT(90), <1>0, <2>2 DEF Worker
  <2>4. WorkerMoves(x, r)
    BY <2>1, <2>2, <2>3 DEF WorkerMoves
  <2>5. ASSUME w'[x] = r PROVE WorkerInv(x)'
    BY <1>0, <2>1, <2>2, <2>5 DEF Worker
  <2>6. QED
    BY <2>4, <2>5, OnlyOneMoves
<1>2. ASSUME Released(x), w[x].pool # "down"
      PROVE  /\ lease'.holder # x
             /\ lease' \in [holder : Workers \cup {Elsewhere, None}, token : Nat]
             /\ \A y \in Workers : lease'.holder = y => lease' = lease
  <2>1. lease \in [holder : Workers \cup {Elsewhere, None}, token : Nat]
    BY DEF SchedulerInv, TypeOK
  <2>2. CASE Holds(x, w[x].local)
    BY <1>2, <2>1, <2>2 DEF Released
  <2>3. CASE ~Holds(x, w[x].local)
    <3>1. lease' = lease
      BY <1>2, <2>3 DEF Released
    <3>2. lease.holder # x
      BY <1>0, <1>2, <2>3, WorkerKnown
    <3>3. QED
      BY <2>1, <3>1, <3>2
  <2>. QED
    BY <2>2, <2>3
<1>3. CASE Notify(x)
  <2> DEFINE r == [w[x] EXCEPT !.local = 0, !.leave = FALSE,
                     !.pc = IF w[x].leave \/ ~ShouldContinue(w[x]) THEN "ended" ELSE "wait"]
  <2>1. Released(x) /\ Set(x, r) /\ w[x].pc = "notify" /\ w[x].pool # "down"
    BY <1>0, <1>3 DEF Notify
  <2>2. r \in Worker
    BY ZenonT(90), <1>0 DEF Worker
  <2>3. WorkerMoves(x, r)
    BY <1>2, <2>1, <2>2 DEF WorkerMoves
  <2>4. ASSUME w'[x] = r PROVE WorkerInv(x)'
    <3>1. lease'.holder # x
      BY <1>2, <2>1
    <3>2. CASE w[x].leave \/ ~ShouldContinue(w[x])
      BY <1>0, <2>1, <2>4, <3>1, <3>2 DEF Worker
    <3>3. CASE ~w[x].leave /\ ShouldContinue(w[x])
      BY <1>0, <2>1, <2>4, <3>1, <3>3 DEF Worker, ShouldContinue
    <3>. QED
      BY <3>2, <3>3
  <2>5. QED
    BY <2>3, <2>4, OnlyOneMoves
<1>4. CASE PoolEnds(x)
  <2> DEFINE r == [w[x] EXCEPT !.pool = "down", !.local = 0]
  <2>1. Released(x) /\ Set(x, r) /\ w[x].pc = "ended" /\ w[x].pool # "down"
    BY <1>4 DEF PoolEnds
  <2>2. r \in Worker
    BY ZenonT(90), <1>0 DEF Worker
  <2>3. WorkerMoves(x, r)
    BY <1>2, <2>1, <2>2 DEF WorkerMoves
  <2>4. ASSUME w'[x] = r PROVE WorkerInv(x)'
    <3>1. lease'.holder # x
      BY <1>2, <2>1
    <3>2. QED
      BY <1>0, <2>1, <2>4, <3>1 DEF Worker
  <2>5. QED
    BY <2>3, <2>4, OnlyOneMoves
<1>. QED
    BY <1>1, <1>3, <1>4

\* SchedulerInv is inductive.
LEMMA NextScheduler == SchedulerInv /\ [Next]_vars => SchedulerInv'
<1> SUFFICES ASSUME SchedulerInv, [Next]_vars PROVE SchedulerInv'
    OBVIOUS
<1>1. CASE Expire \/ TakenElsewhere
    BY <1>1, StoreStep
<1>2. ASSUME NEW x \in Workers, NoticeLoss(x) \/ LeaseLostCallback(x) PROVE SchedulerInv'
    BY <1>2, ClientStep
<1>3. ASSUME NEW x \in Workers, HookFails(x) PROVE SchedulerInv'
    BY <1>3, LoopStep
<1>4. ASSUME NEW x \in Workers, Build(x) PROVE SchedulerInv'
    BY <1>4, RunStep
<1>5. ASSUME NEW x \in Workers, SchedulerStep(x) PROVE SchedulerInv'
    BY <1>5, LoopStep, RunStep, LeaseStep DEF SchedulerStep
<1>6. ASSUME NEW x \in Workers, Check(x) \/ Write(x) \/ StreamEnds(x) PROVE SchedulerInv'
    BY <1>6, LaneStep
<1>a. ASSUME NEW x \in Workers,
             OwnerStarts(x) \/ OwnerCheck(x) \/ OwnerWrite(x) \/ Drained(x) \/ Report(x)
      PROVE  SchedulerInv'
    BY <1>a, OwnerStep
<1>b. ASSUME NEW x \in Workers, Shutdown(x) PROVE SchedulerInv'
    BY <1>b, ShutdownStep DEF Shutdown
<1>7. ASSUME NEW x \in Workers,
             Stop(x) \/ ForceCancel(x) \/ PoolCancelled(x) \/ Crash(x) \/ CloseLoop(x)
      PROVE  SchedulerInv'
    BY <1>7, PoolStep
<1>8. ASSUME NEW x \in Workers, StartRun(x) \/ PoolEnds(x) PROVE SchedulerInv'
    BY <1>8, LeaseStep
<1>9. CASE UNCHANGED vars
    BY <1>9 DEF vars, SchedulerInv, TypeOK, WorkerInv, LeaseKnown, LeaseReturned, TaskKept,
                BudgetLeft, LateOnce, LateOf
<1>. QED
    BY <1>1, <1>2, <1>3, <1>4, <1>5, <1>6, <1>a, <1>b, <1>7, <1>8, <1>9 DEF Next, Finished

\* What the composed specification does to the scheduler is what Scheduler does.
LEMMA SchedulerHolds == RuntimeSpec => []SchedulerInv
<1>1. RuntimeInit => Init
    BY DEF RuntimeInit
<1>2. [RuntimeNext]_all => [Next]_vars
    BY DEF RuntimeNext, all
<1>3. QED
    BY <1>1, <1>2, InitScheduler, NextScheduler, PTL DEF RuntimeSpec, RuntimeSafety

\* What a run still does after its lease is gone, whether it was cancelled, orphaned
\* by a cancelled scheduler or overtaken by a lost heartbeat: one write of its task
\* and one of its owner, and the three calls of the shutdown that ask no fence.
THEOREM LateWrites == RuntimeSpec => []LateWritesBounded
<1>1. ASSUME SchedulerInv PROVE LateWritesBounded
  <2>1. \A x \in Workers : LateOf(w[x], lease.holder = x)
    BY <1>1 DEF SchedulerInv, WorkerInv, LateOnce
  <2>2. QED
    BY <2>1 DEF LateOf, LateWritesBounded
<1>2. QED
    BY <1>1, SchedulerHolds, PTL

\* The runs of a worker never overlap, the error budget stops the loop, and a
\* worker that sleeps or came down in order holds no lease.
THEOREM TakeTurns == RuntimeSpec => []RunsTakeTurns
<1>1. ASSUME SchedulerInv PROVE RunsTakeTurns
  <2>1. TypeOK
    BY <1>1 DEF SchedulerInv
  <2>2. OneRunAtATime /\ ErrorBudget
    BY <1>1 DEF SchedulerInv, WorkerInv, TaskKept, BudgetLeft, OneRunAtATime, ErrorBudget
  <2>3. IdleHoldsNoLease
    BY <1>1, WorkerKnown DEF WorkerInv, LeaseReturned, IdleHoldsNoLease
  <2>4. QED
    BY <2>1, <2>2, <2>3 DEF RunsTakeTurns
<1>2. QED
    BY <1>1, SchedulerHolds, PTL

=============================================================================
