-------------------------- MODULE BatchLane_proofs --------------------------
(***************************************************************************)
(* Theorems about BatchLane, for every number of records, every size of a  *)
(* batch, every stage limit, every set of configurations and every number  *)
(* of runs.                                                                *)
(***************************************************************************)
EXTENDS BatchLane, Delivery_proofs

USE NAssumption, ConfigsAssumption, MaxRunsAssumption
    DEF NAssumption, ConfigsAssumption, MaxRunsAssumption

-----------------------------------------------------------------------------
(* Type and control.                                                       *)

\* A batch has left the stage, or never entered it, and is being finalized.
Finalizing == {"await", "write", "route", "resolve", "persist", "hooks"}

\* There is a current batch exactly while it is finalized; a future that is
\* done belongs to a batch in the stage, or to the awaited one.
CurrentOK ==
  /\ pc \in Finalizing <=> cur # {}
  /\ pc # "await" => ready \subseteq queue
  /\ pc = "write" => live # {}
  /\ pc = "await" => live = {} /\ todo = {} /\ acks = {}

\* The source loop has an outcome exactly when it is over.
FateOK ==
  /\ pc \in {"pull", "loop", "drain"} => fate = "none"
  /\ pc \in Finalizing /\ back # "final" => fate = "none"
  /\ fate = "ok" => next = N + 1
  /\ pc = "done" => fate = "ok"

\* All of the batch a comes before all of the batch b.
Before(a, b) == \A p \in a, q \in b : p < q

\* The batches in the stage are pieces of the source between what the writer
\* was given and the cursor, one before the other.
StageOK ==
  /\ \A b \in queue : b # {} /\ \A p \in b : lastSink < p /\ p < next
  /\ \A a, b \in queue : a = b \/ Before(a, b) \/ Before(b, a)

\* What is awaited or written lies in front of the stage and behind what the
\* writer was given before.
InOrder ==
  /\ lastSink < next /\ \A p \in cur : p < next
  /\ pc \in {"await", "write"} => /\ \A p \in cur : lastSink < p
                                  /\ \A b \in queue : Before(cur, b)

\* TypeOK by what the variables are about: the lane, and the batch in hand.
LaneT ==
  /\ pc \in Halted \cup Busy /\ run \in 0..MaxRuns /\ next \in 1..(N + 1)
  /\ queue \subseteq SUBSET Position /\ ready \subseteq queue \cup {cur}
  /\ fate \in {"none", "ok", "error"} /\ fenced \in BOOLEAN
  /\ back \in {"loop", "drain", "final"} /\ lastSink \in 0..N

BatchT ==
  /\ cur \subseteq Position /\ live \subseteq cur /\ todo \subseteq cur
  /\ part \subseteq live /\ acks \subseteq cur

NoteT ==
  /\ count \in Nat /\ last \in 0..N /\ halt \in 0..N /\ due \in 0..N
  /\ stage \in {"none", "chain", "sink"} /\ routed \in {"yes", "no"}

Typed   == WorldTypeOK /\ LaneT /\ BatchT /\ NoteT
Control == Typed /\ CurrentOK /\ FateOK /\ StageOK /\ InOrder

\* The parts make up TypeOK.
LEMMA TypedIsTypeOK == Typed => TypeOK
BY DEF Typed, TypeOK, LaneT, BatchT, NoteT

\* The initial states.
LEMMA InitControl == Init => Control
<1> SUFFICES ASSUME Init PROVE Control
    OBVIOUS
<1> USE DEF Init, WorldInit, Halted, Busy
<1>1. WorldTypeOK
    BY DEF WorldTypeOK, Position
<1>2. queue \subseteq SUBSET Position /\ ready \subseteq queue \cup {cur} /\ fenced \in BOOLEAN
    OBVIOUS
<1>3. LaneT /\ BatchT /\ NoteT
    BY <1>2 DEF LaneT, BatchT, NoteT
<1>4. QED
    BY <1>1, <1>3 DEF Control, Typed, CurrentOK, FateOK, StageOK, InOrder, Finalizing

\* First returns the least position of a batch that is not empty.
LEMMA FirstIn ==
  ASSUME NEW S, S \subseteq Position, S # {}
  PROVE  First(S) \in S /\ First(S) \in 1..N /\ \A q \in S : First(S) <= q
<1>0. S \subseteq Nat /\ S \subseteq 1..N
    BY DEF Position
<1>1. \E p \in S : \A q \in S : p <= q
    BY <1>0, LeastPosition
<1>2. QED
    BY <1>0, <1>1 DEF First

\* OldestBatch returns the batch of the stage that comes before all others.
LEMMA OldestIn ==
  ASSUME Typed, StageOK, queue # {}
  PROVE  /\ OldestBatch(queue) \in queue
         /\ \A b \in queue : b = OldestBatch(queue) \/ Before(OldestBatch(queue), b)
<1> DEFINE F == {First(b) : b \in queue}
<1>1. \A b \in queue : b # {} /\ b \subseteq Position
    BY DEF Typed, LaneT, StageOK
<1>2. \A b \in queue : First(b) \in b /\ First(b) \in 1..N /\ \A q \in b : First(b) <= q
    BY <1>1, FirstIn
<1>3. F \subseteq Nat /\ F # {}
    BY <1>2
<1>4. PICK f \in F : \A g \in F : f <= g
    BY <1>3, LeastPosition
<1>5. PICK b \in queue : f = First(b)
    OBVIOUS
<1>6. \A x \in queue : First(b) <= First(x)
    BY <1>4, <1>5
<1>7. /\ OldestBatch(queue) \in queue
      /\ \A x \in queue : First(OldestBatch(queue)) <= First(x)
    BY <1>5, <1>6 DEF OldestBatch
<1>8. ASSUME NEW x \in queue, x # OldestBatch(queue)
      PROVE  Before(OldestBatch(queue), x)
  <2>1. ~Before(x, OldestBatch(queue))
    BY <1>2, <1>7 DEF Before
  <2>2. QED
    BY <1>7, <1>8, <2>1 DEF StageOK
<1>. QED
    BY <1>7, <1>8

\* The lane gives up what is in the stage.
LEMMA AbortControl ==
  ASSUME Control, Abort, WorldTypeOK', count' \in Nat, last' \in 0..N,
         UNCHANGED <<conf, run, next, fenced>>, lastSink' \in 0..N, lastSink' < next
  PROVE  Control'
<1> USE DEF Control, Typed, Abort, ClearFinal
<1>1. LaneT' /\ BatchT'
    BY DEF LaneT, BatchT, Halted
<1>2. NoteT'
    BY DEF NoteT
<1>3. CurrentOK' /\ FateOK'
    BY DEF CurrentOK, FateOK, Finalizing
<1>4. StageOK' /\ InOrder'
    BY DEF StageOK, InOrder
<1>. QED
    BY <1>1, <1>2, <1>3, <1>4

\* The batch is left and the lane goes on behind it.
LEMMA LeftControl ==
  ASSUME Control, pc \in Finalizing, pc # "await", ClearFinal,
         pc' \in {"loop", "drain", "final"}, UNCHANGED <<queue, ready, back>>,
         \/ pc' = back /\ fate' = fate
         \/ pc' = "final" /\ back # "final" /\ fate' = "error",
         WorldTypeOK', count' \in Nat, last' \in 0..N,
         UNCHANGED <<conf, run, next, fenced, lastSink>>
  PROVE  Control'
<1> USE DEF Control, Typed, ClearFinal
<1>1. LaneT'
    BY DEF LaneT, CurrentOK, Busy
<1>2. BatchT' /\ NoteT'
    BY DEF BatchT, NoteT
<1>3. CurrentOK' /\ FateOK'
    BY DEF CurrentOK, FateOK, Finalizing, LaneT
<1>4. StageOK' /\ InOrder'
    BY DEF StageOK, InOrder
<1>. QED
    BY <1>1, <1>2, <1>3, <1>4

\* The source loop ends with an error; what is in the stage is still drained.
LEMMA SoftErrorControl ==
  ASSUME Control, SoftError, pc \in Finalizing, pc # "await",
         WorldTypeOK', count' \in Nat, last' \in 0..N,
         UNCHANGED <<conf, run, next, fenced, lastSink>>
  PROVE  Control'
<1>1. CASE back = "final"
    BY <1>1, AbortControl DEF SoftError, Control, Typed, LaneT, InOrder
<1>2. CASE back # "final"
    BY <1>2, LeftControl DEF SoftError
<1>. QED
    BY <1>1, <1>2

\* The batch is done and the lane goes on where it left off.
LEMMA ReturnControl ==
  ASSUME Control, Return, pc \in Finalizing, pc # "await",
         WorldTypeOK', count' \in Nat, last' \in 0..N,
         UNCHANGED <<conf, run, next, fenced, lastSink>>
  PROVE  Control'
BY LeftControl DEF Return, Control, Typed, LaneT

\* A batch goes to its next stage.
LEMMA StaysControl ==
  ASSUME Control, pc \in Finalizing, pc' \in Finalizing, pc' # "await", WorldTypeOK', BatchT',
         NoteT', UNCHANGED <<conf, run, next, queue, cur, back, fate, fenced>>,
         ready' = ready \ {cur} \/ (ready' = ready /\ pc # "await"),
         pc' = "write" => live' # {},
         \/ pc' = "write" /\ pc \in {"await", "write"} /\ lastSink' = lastSink
         \/ pc' # "write" /\ lastSink' = lastSink
         \/ pc' # "write" /\ pc = "write" /\ lastSink' \in cur
  PROVE  Control'
<1> USE DEF Control, Typed
<1>c. \A p \in cur : p \in 0..N /\ p < next
    BY DEF BatchT, Position, InOrder
<1>0. lastSink' \in 0..N /\ lastSink' < next
    BY <1>c DEF LaneT, InOrder
<1>1. LaneT'
    BY <1>0 DEF LaneT, Busy, Finalizing
<1>2. CurrentOK' /\ FateOK'
    BY DEF CurrentOK, FateOK, Finalizing, LaneT
<1>3. InOrder'
    BY <1>0 DEF InOrder
<1>4. StageOK'
  <2>1. \A b \in queue : \A p \in b : lastSink' < p
    BY DEF StageOK, InOrder, Before
  <2>2. QED
    BY <2>1 DEF StageOK
<1>. QED
    BY <1>1, <1>2, <1>3, <1>4

\* The start of a run.
LEMMA StartControl == ASSUME Control, StartRun PROVE Control'
<1> USE DEF Control, Typed, StartRun, ClearFinal
<1>1. next' \in 1..(N + 1) /\ run' \in 0..MaxRuns
    BY DEF ResumeValues, ResumePosition, WorldTypeOK, LaneT
<1>2. WorldTypeOK' /\ BatchT' /\ NoteT'
    BY DEF WorldTypeOK, BatchT, NoteT, world
<1>q. queue' \subseteq SUBSET Position /\ ready' \subseteq queue' \cup {cur'} /\ fenced' \in BOOLEAN
    OBVIOUS
<1>3. LaneT'
    BY <1>1, <1>q DEF LaneT, Busy
<1>4. CurrentOK' /\ FateOK'
    BY <1>1 DEF CurrentOK, FateOK, Finalizing
<1>5. StageOK' /\ InOrder'
    BY <1>1 DEF StageOK, InOrder
<1>. QED
    BY <1>2, <1>3, <1>4, <1>5

\* A batch of the source: the next records, up to the size of a batch.
LEMMA NextBatch ==
  ASSUME Typed, next <= N, NEW b \in NextBatches
  PROVE  /\ b # {} /\ b \subseteq Position /\ Latest(b) \in next..N
         /\ b = next..Latest(b) /\ \A p \in b : next <= p /\ p <= Latest(b)
<1>0. next \in 1..N /\ conf.batch \in Nat \ {0}
    BY DEF Typed, LaneT, WorldTypeOK, ConfigType
<1>1. PICK m \in next..(IF next + conf.batch - 1 < N THEN next + conf.batch - 1 ELSE N) :
        b = next..m
    BY DEF NextBatches
<1>2. m \in next..N
    BY <1>0, <1>1
<1>3. b # {} /\ b \subseteq Position /\ m \in b
    BY <1>0, <1>1, <1>2 DEF Position
<1>4. Latest(b) \in b /\ \A q \in b : q <= Latest(b)
    BY <1>3, LatestIn
<1>5. Latest(b) = m
    BY <1>0, <1>1, <1>2, <1>3, <1>4
<1>. QED
    BY <1>0, <1>1, <1>2, <1>3, <1>5

\* The next batch joins the stage behind those that are there.
LEMMA SubmitControl == ASSUME Control, Submit PROVE Control'
<1> USE DEF Control, Typed, Submit
<1>0. pc = "pull" /\ cur = {} /\ fate = "none" /\ ready \subseteq queue
    BY DEF CurrentOK, FateOK, Finalizing
<1>1. PICK b \in NextBatches : queue' = queue \cup {b} /\ next' = Latest(b) + 1
    OBVIOUS
<1>2. /\ b # {} /\ b \subseteq Position /\ Latest(b) \in next..N
      /\ \A p \in b : next <= p /\ p <= Latest(b)
    BY <1>1, NextBatch
<1>3. next \in 1..N /\ next' \in 1..(N + 1) /\ next < next'
    BY <1>1, <1>2 DEF LaneT
<1>4. WorldTypeOK' /\ BatchT' /\ NoteT'
    BY DEF WorldTypeOK, BatchT, NoteT, world, final
<1>5. LaneT'
    BY <1>0, <1>1, <1>2, <1>3 DEF LaneT, Busy, final
<1>6. CurrentOK' /\ FateOK'
    BY <1>0, <1>1 DEF CurrentOK, FateOK, Finalizing, final
<1>7. StageOK'
  <2>1. \A p \in b : p \in 1..N /\ next <= p /\ p < next' /\ lastSink < p
    BY <1>1, <1>2, <1>3 DEF Position, InOrder, LaneT
  <2>q. \A a \in queue : \A p \in a : p \in 1..N /\ p < next /\ lastSink < p
    BY DEF StageOK, LaneT, Position
  <2>2. \A a \in queue : \A p \in a : p \in 1..N /\ p < next /\ p < next' /\ lastSink < p
    BY <1>3, <2>q
  <2>3. \A a \in queue : Before(a, b)
    BY <1>3, <2>1, <2>2 DEF Before
  <2>4. \A a \in queue' : a # {} /\ \A p \in a : lastSink < p /\ p < next'
    BY <1>1, <1>2, <2>1, <2>2 DEF StageOK
  <2>5. \A a, c \in queue' : a = c \/ Before(a, c) \/ Before(c, a)
    BY <1>1, <2>3 DEF StageOK
  <2>6. QED
    BY <2>4, <2>5 DEF StageOK
<1>8. InOrder'
    BY <1>0, <1>3 DEF InOrder, final, LaneT
<1>. QED
    BY <1>4, <1>5, <1>6, <1>7, <1>8

\* What the cadence finds due is a number, and the end of the batch.
LEMMA Saved ==
  ASSUME Typed, NEW S, S \subseteq Position
  PROVE  /\ Counted(count, S) \in Nat /\ BatchEndDue(count, last, S) \in 0..N
         /\ BatchEndDue(count, last, S) \in {0, Latest(S)}
         /\ BatchEndDue(count, last, S) # 0 => conf.store
<1>1. Counted(count, S) \in Nat /\ BatchEndDue(count, last, S) \in 0..N
    BY CountedNat, BatchEndDueIn DEF Typed, NoteT
<1>2. QED
    BY <1>1 DEF BatchEndDue

\* The chain in front of the stage fails, or empties the batch.
LEMMA PrefixControl == ASSUME Control, PrefixFinalizes PROVE Control'
<1> USE DEF Control, Typed, PrefixFinalizes
<1>0. pc = "pull" /\ cur = {} /\ live = {} /\ todo = {} /\ part = {} /\ acks = {}
      /\ fate = "none" /\ ready \subseteq queue
    BY DEF CurrentOK, FateOK, Finalizing, BatchT
<1>1. PICK b \in NextBatches :
        /\ cur' = b /\ next' = Latest(b) + 1 /\ back' = "loop"
        /\ \/ /\ "fail" \in conf.mw
              /\ RouteBatch(b, "chain")
              /\ UNCHANGED <<dropped, count, due>>
           \/ /\ "drop" \in conf.mw /\ conf.flush = "arrow"
              /\ dropped' = dropped \cup b
              /\ SaveBatch(b)
              /\ UNCHANGED <<stage, todo, routed>>
    OBVIOUS
<1>2. /\ b # {} /\ b \subseteq Position /\ Latest(b) \in next..N
      /\ \A p \in b : next <= p /\ p <= Latest(b)
    BY <1>1, NextBatch
<1>3. next \in 1..N /\ next' \in 1..(N + 1) /\ next < next'
    BY <1>1, <1>2 DEF LaneT
<1>4. WorldTypeOK'
    BY <1>1, <1>2 DEF WorldTypeOK
<1>5. BatchT'
    BY <1>0, <1>1, <1>2 DEF BatchT, RouteBatch
<1>6. NoteT'
    BY <1>1, <1>2, Saved DEF NoteT, RouteBatch, SaveBatch
<1>7. pc' \in {"route", "persist"}
    BY <1>1 DEF RouteBatch, SaveBatch
<1>8. LaneT'
    BY <1>0, <1>1, <1>3, <1>7 DEF LaneT, Busy
<1>9. CurrentOK' /\ FateOK'
    BY <1>0, <1>1, <1>2, <1>7 DEF CurrentOK, FateOK, Finalizing
<1>10. StageOK' /\ InOrder'
  <2>1. \A a \in queue : \A p \in a : p \in 1..N /\ p < next'
    BY <1>3 DEF StageOK, LaneT, Position
  <2>2. \A p \in cur' : p < next'
    BY <1>1, <1>2, <1>3 DEF Position
  <2>3. QED
    BY <1>3, <1>7, <2>1, <2>2 DEF StageOK, InOrder, LaneT
<1>. QED
    BY <1>4, <1>5, <1>6, <1>8, <1>9, <1>10

\* The source loop, the stage and the lease.
LEMMA DrainControl ==
  ASSUME Control,
         \/ SourceEnds \/ CompleteFuture \/ LoopHead \/ PopHead \/ LeaveDrain \/ FinalEnd
         \/ FenceLost
  PROVE  Control'
<1> USE DEF Control, Typed
<1>1. WorldTypeOK' /\ NoteT'
    BY DEF SourceEnds, CompleteFuture, LoopHead, PopHead, LeaveDrain, FinalEnd, FenceLost,
       WorldTypeOK, NoteT, world, final
<1>2. CASE CompleteFuture \/ FenceLost
  <2> USE <1>2 DEF CompleteFuture, FenceLost, final
  <2>0. UNCHANGED <<pc, run, next, queue, cur, live, todo, part, acks, back, fate, lastSink>>
    OBVIOUS
  <2>f. fenced' \in BOOLEAN
    BY DEF LaneT
  <2>s. \A b : b \in queue \cup (IF pc = "await" THEN {cur} ELSE {}) => b \in queue \cup {cur}
    OBVIOUS
  <2>r. ready' \subseteq queue' \cup {cur'}
    BY <2>0, <2>s DEF LaneT
  <2>1. LaneT' /\ BatchT'
    BY <2>0, <2>f, <2>r DEF LaneT, BatchT
  <2>2. CurrentOK' /\ FateOK'
    BY <2>0 DEF CurrentOK, FateOK
  <2>3. StageOK' /\ InOrder'
    BY <2>0 DEF StageOK, InOrder
  <2>. QED
    BY <1>1, <2>1, <2>2, <2>3
<1>3. CASE SourceEnds \/ LoopHead \/ LeaveDrain \/ FinalEnd
  <2> USE <1>3 DEF SourceEnds, LoopHead, LeaveDrain, FinalEnd, final
  <2>0. UNCHANGED <<run, next, queue, ready, cur, live, todo, part, acks, back, fenced, lastSink>>
    OBVIOUS
  <2>p. /\ pc \notin Finalizing /\ pc' \notin Finalizing /\ pc' \in Halted \cup Busy
        /\ fate' \in {"none", "ok", "error"}
    BY DEF Finalizing, Halted, Busy, LaneT
  <2>1. LaneT' /\ BatchT'
    BY <2>0, <2>p DEF LaneT, BatchT
  <2>2. CurrentOK'
    BY <2>0, <2>p DEF CurrentOK, Finalizing
  <2>3. FateOK'
    BY <2>0, <2>p DEF FateOK, Finalizing
  <2>4. StageOK' /\ InOrder'
    BY <2>0, <2>p DEF StageOK, InOrder, Finalizing
  <2>. QED
    BY <1>1, <2>1, <2>2, <2>3, <2>4
<1>4. CASE PopHead
  <2> USE <1>4 DEF PopHead
  <2>0. cur = {} /\ live = {} /\ todo = {} /\ part = {} /\ acks = {} /\ ready \subseteq queue
    BY DEF CurrentOK, Finalizing, BatchT
  <2>1. /\ cur' \in queue /\ queue' = queue \ {cur'} /\ cur' \subseteq Position
        /\ \A b \in queue' : Before(cur', b)
    BY OldestIn DEF Popped, LaneT
  <2>2. /\ ready' \subseteq queue' \cup {cur'} /\ back' \in {"loop", "drain", "final"}
        /\ (back' # "final" => pc = "drain")
    BY <2>0, <2>1
  <2>3. LaneT' /\ BatchT'
    BY <2>0, <2>1, <2>2 DEF LaneT, BatchT, Busy
  <2>4. CurrentOK' /\ FateOK'
    BY <2>0, <2>1, <2>2 DEF CurrentOK, FateOK, Finalizing, StageOK
  <2>5. StageOK'
    BY <2>1 DEF StageOK
  <2>6. InOrder'
    BY <2>1 DEF InOrder, StageOK
  <2>. QED
    BY <1>1, <2>3, <2>4, <2>5, <2>6
<1>. QED
    BY <1>2, <1>3, <1>4

\* The stage's result.
LEMMA ResolveControl == ASSUME Control, Resolve PROVE Control'
<1> USE DEF Control, Typed, Resolve
<1>0. pc = "await" /\ pc \in Finalizing /\ cur \subseteq Position
    BY DEF Finalizing, BatchT
<1>1. CASE "fail" \in conf.mw /\ RouteBatch(cur, "chain")
           /\ UNCHANGED <<dropped, live, count, due, acks>>
  <2>1. WorldTypeOK'
    BY <1>1 DEF WorldTypeOK
  <2>2. BatchT' /\ NoteT'
    BY <1>1 DEF BatchT, NoteT, RouteBatch
  <2>3. pc' = "route"
    BY <1>1 DEF RouteBatch
  <2>. QED
    BY <1>0, <2>1, <2>2, <2>3, StaysControl DEF Finalizing
<1>2. ASSUME NEW keep \in SUBSET cur,
             live' = keep, dropped' = dropped \cup (cur \ keep),
             IF keep = {}
             THEN /\ SaveBatch(cur)
                  /\ acks' = IF conf.flush = "list" THEN cur ELSE {}
             ELSE pc' = "write" /\ UNCHANGED <<count, due, acks>>,
             UNCHANGED <<stage, todo, routed>>
      PROVE  Control'
  <2>1. WorldTypeOK'
    BY <1>0, <1>2 DEF WorldTypeOK
  <2>p. part = {}
    BY <1>0 DEF BatchT, CurrentOK
  <2>2. BatchT'
    BY <1>0, <1>2, <2>p DEF BatchT
  <2>3. NoteT'
    BY <1>0, <1>2, Saved DEF NoteT, SaveBatch
  <2>4. pc' \in {"persist", "write"} /\ (pc' = "write" => live' # {})
    BY <1>2 DEF SaveBatch
  <2>. QED
    BY <1>0, <2>1, <2>2, <2>3, <2>4, StaysControl DEF Finalizing
<1>. QED
    BY <1>1, <1>2

\* Rows the DLQ is given are rows of the batch; what is due is its end.
LEMMA BatchFacts ==
  ASSUME Control
  PROVE  /\ FailedRows \subseteq cur
         /\ live # {} => Latest(live) \in live
         /\ \A k : OutcomesDue(k) \in 0..N /\ OutcomesDue(k) \in {0, Latest(cur)}
                  /\ (OutcomesDue(k) # 0 => conf.store)
         /\ todo # {} => First(todo) \in todo /\ First(todo) \in 1..N
         /\ acks # {} => First(acks) \in acks
         /\ \A S \in SUBSET cur : Counted(count, S) \in Nat
<1> USE DEF Control, Typed, BatchT
<1>1. FailedRows \subseteq cur
    BY DEF FailedRows
<1>2. live \subseteq Position /\ todo \subseteq Position /\ acks \subseteq Position
    OBVIOUS
<1>3. live # {} => Latest(live) \in live
    BY <1>2, LatestIn
<1>4. Latest(cur) \in 0..N
    BY LatestIn
<1>5. \A k : OutcomesDue(k) \in 0..N /\ OutcomesDue(k) \in {0, Latest(cur)}
            /\ (OutcomesDue(k) # 0 => conf.store)
    BY <1>4 DEF OutcomesDue
<1>6. /\ todo # {} => First(todo) \in todo /\ First(todo) \in 1..N
      /\ acks # {} => First(acks) \in acks
    BY <1>2, FirstIn
<1>7. \A S \in SUBSET cur : Counted(count, S) \in Nat
    BY CountedNat DEF NoteT
<1>. QED
    BY <1>1, <1>3, <1>5, <1>6, <1>7

\* The writer.
LEMMA WriteControl ==
  ASSUME Control, WriteAccepted \/ WriteMixed \/ WriteRaises \/ WriteFenced
  PROVE  Control'
<1> USE DEF Control, Typed
<1>0. /\ pc = "write" /\ pc \in Finalizing /\ cur \subseteq Position /\ live \subseteq cur
      /\ live # {} /\ Latest(live) \in cur
    BY BatchFacts DEF WriteAccepted, WriteMixed, WriteRaises, WriteFenced, Finalizing, BatchT,
       CurrentOK
<1>1. CASE WriteAccepted
  <2> USE <1>1 DEF WriteAccepted
  <2>1. WorldTypeOK'
    BY <1>0 DEF WorldTypeOK
  <2>2. BatchT'
    BY DEF BatchT
  <2>3. count' \in Nat /\ due' \in 0..N /\ pc' = "persist"
    BY <1>0, BatchFacts, Saved DEF SaveBatch
  <2>4. NoteT'
    BY <2>3 DEF NoteT
  <2>. QED
    BY <1>0, <2>1, <2>2, <2>3, <2>4, StaysControl DEF Finalizing
<1>2. CASE WriteMixed
  <2> USE <1>2 DEF WriteMixed
  <2>1. WorldTypeOK'
    BY <1>0 DEF WorldTypeOK
  <2>2. BatchT'
    BY <1>0 DEF BatchT
  <2>3. NoteT'
    BY DEF NoteT
  <2>. QED
    BY <1>0, <2>1, <2>2, <2>3, StaysControl DEF Finalizing
<1>3. CASE WriteRaises
  <2> USE <1>3 DEF WriteRaises
  <2>1. WorldTypeOK'
    BY <1>0 DEF WorldTypeOK
  <2>2. BatchT' /\ pc' = "route"
    BY <1>0, BatchFacts DEF BatchT, RouteBatch
  <2>3. NoteT'
    BY DEF NoteT, RouteBatch
  <2>. QED
    BY <1>0, <2>1, <2>2, <2>3, StaysControl DEF Finalizing
<1>4. CASE WriteFenced
  <2> USE <1>4 DEF WriteFenced
  <2>1. WorldTypeOK' /\ count' \in Nat /\ last' \in 0..N
    BY DEF WorldTypeOK, world, NoteT
  <2>2. CASE SoftError
    BY <1>0, <2>1, <2>2, SoftErrorControl
  <2>3. CASE /\ RouteBatch(FailedRows, "sink")
             /\ UNCHANGED <<queue, ready, fate, back, cur, live, part, acks, halt, due>>
    <3>1. BatchT' /\ pc' = "route"
      BY <1>0, <2>3, BatchFacts DEF BatchT, RouteBatch
    <3>2. NoteT'
      BY <2>3 DEF NoteT, RouteBatch
    <3>. QED
      BY <1>0, <2>1, <2>3, <3>1, <3>2, StaysControl DEF Finalizing
  <2>. QED
    BY <2>2, <2>3
<1>. QED
    BY <1>1, <1>2, <1>3, <1>4

\* The DLQ, record by record and at the end of the batch.
LEMMA RouteControl == ASSUME Control, RouteOne \/ RouteEnd PROVE Control'
<1> USE DEF Control, Typed
<1>0. pc = "route" /\ pc \in Finalizing /\ cur \subseteq Position
    BY DEF RouteOne, RouteEnd, Finalizing, BatchT
<1>1. CASE RouteOne
  <2> USE <1>1 DEF RouteOne
  <2>1. First(todo) \in todo /\ First(todo) \in 1..N
    BY BatchFacts
  <2>2. WorldTypeOK' /\ count' \in Nat /\ last' \in 0..N
    BY <2>1 DEF WorldTypeOK, Captured, Position, NoteT
  <2>3. CASE SoftError
    BY <1>0, <2>2, <2>3, SoftErrorControl
  <2>4. CASE /\ todo' = todo \ {First(todo)} /\ routed' \in {routed, "no"}
             /\ UNCHANGED <<pc, queue, ready, fate, back, cur, live, stage, part, acks, halt, due>>
    <3>1. BatchT' /\ NoteT'
      BY <2>4 DEF BatchT, NoteT
    <3>. QED
      BY <1>0, <2>2, <2>4, <3>1, StaysControl
  <2>. QED
    BY <2>3, <2>4
<1>2. CASE RouteEnd
  <2> USE <1>2 DEF RouteEnd
  <2>1. WorldTypeOK'
    BY <1>0 DEF WorldTypeOK, Failed, BatchT
  <2>2. last' \in 0..N /\ count \in Nat
    BY DEF NoteT
  <2>3. CASE (SoftError \/ Return \/ Abort) /\ count' = count
    BY <1>0, <2>1, <2>2, <2>3, SoftErrorControl, ReturnControl, AbortControl
       DEF LaneT, InOrder
  <2>4. CASE /\ SaveBatch(cur) /\ acks' = BatchAcks
             /\ UNCHANGED <<queue, ready, fate, back, cur, live, stage, todo, routed, part, halt>>
    <3>1. BatchT'
      BY <2>4 DEF BatchT, BatchAcks
    <3>2. NoteT' /\ pc' = "persist"
      BY <1>0, <2>4, Saved DEF NoteT, SaveBatch
    <3>. QED
      BY <1>0, <2>1, <2>4, <3>1, <3>2, StaysControl DEF Finalizing
  <2>. QED
    BY <2>3, <2>4
<1>. QED
    BY <1>1, <1>2

\* The outcomes of single records.
LEMMA ResolveOneControl == ASSUME Control, ResolveOne \/ CommitOutcomes PROVE Control'
<1> USE DEF Control, Typed
<1>0. pc = "resolve" /\ pc \in Finalizing /\ cur \subseteq Position
    BY DEF ResolveOne, CommitOutcomes, Finalizing, BatchT
<1>1. CASE ResolveOne
  <2> USE <1>1 DEF ResolveOne
  <2>1. First(todo) \in todo /\ First(todo) \in 1..N
    BY BatchFacts
  <2>2. WorldTypeOK' /\ count' \in Nat /\ last' \in 0..N
    BY <2>1 DEF WorldTypeOK, Captured, GivenUp, Position, NoteT
  <2>3. CASE SoftError
    BY <1>0, <2>2, <2>3, SoftErrorControl
  <2>4. CASE /\ todo' = todo \ {First(todo)} /\ acks' \in {acks, acks \cup {First(todo)}}
             /\ halt' \in {halt, First(todo)}
             /\ UNCHANGED <<pc, queue, ready, fate, back, cur, live, stage, routed, part, due>>
    <3>1. BatchT'
      BY <2>1, <2>4 DEF BatchT
    <3>2. NoteT'
      BY <2>1, <2>4 DEF NoteT
    <3>. QED
      BY <1>0, <2>2, <2>4, <3>1, <3>2, StaysControl
  <2>. QED
    BY <2>3, <2>4
<1>2. CASE CommitOutcomes
  <2> USE <1>2 DEF CommitOutcomes
  <2> DEFINE S == (cur \ live) \cup {p \in live : halt = 0 \/ p < halt}
  <2>0. S \in SUBSET cur /\ acks' \subseteq acks /\ count' = Counted(count, S)
        /\ due' = OutcomesDue(Cardinality(S))
    BY DEF BatchT
  <2>1. WorldTypeOK' /\ BatchT'
    BY <2>0 DEF WorldTypeOK, BatchT, world
  <2>2. NoteT'
    <3> HIDE DEF S
    <3>. QED
      BY <2>0, BatchFacts DEF NoteT
  <2>. QED
    BY <1>0, <2>1, <2>2, StaysControl DEF Finalizing
<1>. QED
    BY <1>1, <1>2

\* The checkpoint and the hooks.
LEMMA CommitControl == ASSUME Control, Persist \/ RunHook \/ BatchEnd PROVE Control'
<1> USE DEF Control, Typed
<1>0. pc \in {"persist", "hooks"} /\ pc \in Finalizing /\ cur \subseteq Position
    BY DEF Persist, RunHook, BatchEnd, Finalizing, BatchT
<1>1. WorldTypeOK'
    BY BatchFacts DEF Persist, RunHook, BatchEnd, WorldTypeOK, NoteT, BatchT, world
<1>2. count' \in Nat /\ last' \in 0..N /\ lastSink' = lastSink
    BY DEF Persist, RunHook, BatchEnd, NoteT
<1>3. CASE SoftError \/ Return \/ Abort
    BY <1>0, <1>1, <1>2, <1>3, SoftErrorControl, ReturnControl, AbortControl
       DEF LaneT, InOrder, Persist, RunHook, BatchEnd
<1>4. CASE Persist /\ pc' = "hooks" /\ UNCHANGED <<queue, ready, fate, back, final>>
  <2>1. BatchT' /\ NoteT'
    BY <1>2, <1>4 DEF BatchT, NoteT, final
  <2>. QED
    BY <1>0, <1>1, <1>4, <2>1, StaysControl DEF Persist, Finalizing, final
<1>5. CASE /\ RunHook /\ acks' = acks \ {First(acks)}
           /\ UNCHANGED <<pc, queue, ready, fate, back, cur, live, stage, todo, routed, part,
                          halt, due>>
  <2>1. BatchT' /\ NoteT'
    BY <1>2, <1>5 DEF BatchT, NoteT
  <2>. QED
    BY <1>0, <1>1, <1>5, <2>1, StaysControl DEF RunHook
<1>6. CASE Persist
    BY <1>3, <1>4, <1>6 DEF Persist
<1>7. CASE RunHook
    BY <1>3, <1>5, <1>7 DEF RunHook
<1>8. CASE BatchEnd
    BY <1>3, <1>8 DEF BatchEnd
<1>. QED
    BY <1>6, <1>7, <1>8

\* The run's task is cancelled, or the process dies.
LEMMA EndControl == ASSUME Control, Cancel \/ Crash PROVE Control'
<1> USE DEF Control, Typed
<1>1. WorldTypeOK' /\ count' \in Nat /\ last' \in 0..N
    BY DEF Cancel, Crash, WorldTypeOK, NoteT, world
<1>2. CASE Cancel
    BY <1>1, <1>2, AbortControl DEF Cancel, LaneT, InOrder
<1>3. CASE Crash
  <2> USE <1>3 DEF Crash, ClearFinal
  <2>1. LaneT' /\ BatchT'
    BY DEF LaneT, BatchT, Halted
  <2>2. NoteT'
    BY DEF NoteT
  <2>3. CurrentOK' /\ FateOK'
    BY DEF CurrentOK, FateOK, Finalizing
  <2>4. StageOK' /\ InOrder'
    BY DEF StageOK, InOrder
  <2>. QED
    BY <1>1, <2>1, <2>2, <2>3, <2>4
<1>. QED
    BY <1>2, <1>3

\* Every step keeps the control invariant.
LEMMA NextControl == Control /\ [Next]_vars => Control'
<1> SUFFICES ASSUME Control, [Next]_vars PROVE Control'
    OBVIOUS
<1>1. CASE UNCHANGED vars
  <2> USE <1>1 DEF vars, lane, final, world, Control, Typed
  <2>1. WorldTypeOK' /\ NoteT'
    BY DEF WorldTypeOK, NoteT
  <2>2. LaneT' /\ BatchT'
    BY DEF LaneT, BatchT
  <2>3. CurrentOK' /\ FateOK'
    BY DEF CurrentOK, FateOK
  <2>4. StageOK' /\ InOrder'
    BY DEF StageOK, InOrder
  <2>. QED
    BY <2>1, <2>2, <2>3, <2>4
<1>. QED
    BY <1>1, StartControl, SubmitControl, PrefixControl, DrainControl, ResolveControl, WriteControl,
       RouteControl, ResolveOneControl, CommitControl, EndControl
       DEF Next, Pull, LaneStep, Finished

\* The control invariant holds in every state.
LEMMA ControlHolds == Spec => []Control
BY InitControl, NextControl, PTL DEF Spec

\* TypeOK is an invariant of the batch lane.
THEOREM TypeCorrect == Spec => []TypeOK
<1>1. Control => TypeOK
    BY TypedIsTypeOK DEF Control
<1>2. QED
    BY <1>1, ControlHolds, PTL

\* Batches reach the writer in source order, in whatever order the pipelined
\* stage finishes them, and whatever is finalized ahead of it.
THEOREM WritesInOrder == Spec => []SinkOrder
<1>1. Control => SinkOrder
  <2> SUFFICES ASSUME Control, pc = "write" PROVE First(live) > lastSink
    BY DEF SinkOrder
  <2>1. First(live) \in cur /\ First(live) \in 1..N
    BY FirstIn DEF Control, Typed, BatchT, CurrentOK
  <2>2. QED
    BY <2>1 DEF Control, Typed, LaneT, InOrder
<1>2. QED
    BY <1>1, ControlHolds, PTL

-----------------------------------------------------------------------------
(* The limit of the stage.                                                 *)

\* There is room for one more batch whenever one may be pulled, and while one
\* is finalized: the stage only grows when pulling.
BoundInv ==
  InFlightBounded /\ (pc \in Finalizing \cup {"pull"} => Cardinality(queue) < conf.inflight)

\* What the provers need to know about the size of the stage.
LEMMA Sizes ==
  ASSUME Typed
  PROVE  /\ Cardinality(queue) \in Nat
         /\ \A b \in queue : Cardinality(queue \ {b}) = Cardinality(queue) - 1
         /\ \A b : Cardinality(queue \cup {b}) \in 0..(Cardinality(queue) + 1)
         /\ \A S : S = {} => Cardinality(S) = 0
         /\ Cardinality(queue) < 1 => queue = {}
<1>1. IsFiniteSet(Position)
    BY FS_Interval DEF Position
<1>2. IsFiniteSet(SUBSET Position)
    BY <1>1, FS_SUBSET
<1>3. IsFiniteSet(queue)
    BY <1>2, FS_Subset DEF Typed, LaneT
<1>4. Cardinality(queue) \in Nat
    BY <1>3, FS_CardinalityType
<1>5. \A b \in queue : Cardinality(queue \ {b}) = Cardinality(queue) - 1
    BY <1>3, FS_RemoveElement
<1>6. ASSUME NEW b PROVE Cardinality(queue \cup {b}) \in 0..(Cardinality(queue) + 1)
  <2>1. Cardinality(queue \cup {b}) \in {Cardinality(queue), Cardinality(queue) + 1}
    BY <1>3, FS_AddElement
  <2>2. QED
    BY <1>4, <2>1
<1>7. \A S : S = {} => Cardinality(S) = 0
    BY FS_EmptySet, Zenon
<1>8. Cardinality(queue) < 1 => queue = {}
    BY <1>3, <1>4, FS_EmptySet
<1>. QED
    BY <1>4, <1>5, <1>6, <1>7, <1>8

\* Every step keeps the bound.
LEMMA NextBound == Control /\ BoundInv /\ [Next]_vars => BoundInv'
<1> SUFFICES ASSUME Control, BoundInv, [Next]_vars PROVE BoundInv'
    OBVIOUS
<1> USE DEF BoundInv, InFlightBounded
<1>t. Typed /\ conf.inflight \in Nat \ {0} /\ Cardinality(queue) \in Nat
    BY Sizes DEF Control, Typed, WorldTypeOK, ConfigType
<1>a. ASSUME queue' = {}, conf' = conf PROVE BoundInv'
  <2>1. Cardinality(queue') = 0
    BY <1>a, <1>t, Sizes
  <2>2. QED
    BY <1>a, <1>t, <2>1
<1>k. ASSUME UNCHANGED <<conf, queue>>,
             pc' \in Finalizing \cup {"pull"} => pc \in Finalizing \cup {"pull"}
      PROVE  BoundInv'
    BY <1>k
<1>s. ASSUME Abort \/ SoftError \/ Return, conf' = conf PROVE BoundInv'
    BY <1>s, <1>a, <1>k DEF Abort, SoftError, Return, Finalizing, Control, Typed, LaneT
<1>1. CASE StartRun
    BY <1>1, <1>a DEF StartRun
<1>2. CASE Submit
  <2>1. Cardinality(queue') \in 0..(Cardinality(queue) + 1)
    BY <1>2, <1>t, Sizes DEF Submit
  <2>2. QED
    BY <1>2, <1>t, <2>1 DEF Submit, Finalizing
<1>3. CASE PrefixFinalizes
    BY <1>3, <1>k DEF PrefixFinalizes
<1>4. CASE LoopHead \/ LeaveDrain
    BY <1>4, <1>t DEF LoopHead, LeaveDrain, Full, Finalizing
<1>5. CASE PopHead
  <2>1. Cardinality(queue') = Cardinality(queue) - 1
    BY <1>5, <1>t, OldestIn, Sizes DEF PopHead, Popped, Control
  <2>2. QED
    BY <1>5, <1>t, <2>1 DEF PopHead
<1>6. CASE SourceEnds \/ CompleteFuture \/ FenceLost \/ FinalEnd \/ UNCHANGED vars
    BY <1>6, <1>k DEF SourceEnds, CompleteFuture, FenceLost, FinalEnd, vars, lane, Finalizing
<1>7. CASE Resolve \/ WriteAccepted \/ WriteMixed \/ WriteRaises
    BY <1>7, <1>k DEF Resolve, WriteAccepted, WriteMixed, WriteRaises, Finalizing
<1>8. CASE WriteFenced \/ CommitOutcomes
    BY <1>8, <1>s, <1>k DEF WriteFenced, CommitOutcomes, Finalizing
<1>9. CASE RouteOne \/ ResolveOne
    BY <1>9, <1>s, <1>k DEF RouteOne, ResolveOne, Finalizing
<1>10. CASE RouteEnd
    BY <1>10, <1>s, <1>k DEF RouteEnd, Finalizing
<1>11. CASE Persist \/ RunHook \/ BatchEnd
    BY <1>11, <1>s, <1>k DEF Persist, RunHook, BatchEnd, Finalizing
<1>12. CASE Cancel \/ Crash
    BY <1>12, <1>a DEF Cancel, Crash, Abort
<1>. QED
    BY <1>1, <1>2, <1>3, <1>4, <1>5, <1>6, <1>7, <1>8, <1>9, <1>10, <1>11, <1>12
       DEF Next, Pull, LaneStep, Finished

\* Backpressure is real: never more than stage_limit batches in the stage.
THEOREM InFlightIsBounded == Spec => []InFlightBounded
<1>1. Init => BoundInv
  <2> SUFFICES ASSUME Init PROVE BoundInv
    OBVIOUS
  <2>1. Cardinality(queue) = 0
    BY FS_EmptySet DEF Init
  <2>2. conf.inflight \in Nat
    BY DEF Init, WorldInit, ConfigType
  <2>3. QED
    BY <2>1, <2>2 DEF Init, BoundInv, InFlightBounded, Finalizing
<1>2. BoundInv => InFlightBounded
    BY DEF BoundInv
<1>3. QED
    BY <1>1, <1>2, NextBound, ControlHolds, PTL DEF Spec

-----------------------------------------------------------------------------
(* Acknowledgements.                                                       *)

Accounted == written \cup dead \cup dropped

\* The records a failed batch has the DLQ take.
Target == IF stage = "chain" THEN cur ELSE FailedRows

\* What is known of a batch on its way through the writer and the DLQ: what the
\* chain removed is dropped, and while all were routed, they are in the DLQ.
Routing ==
  /\ pc \in {"route", "persist", "hooks"} \/ stage = "none"
  /\ pc \in {"write", "resolve"} \/ (pc = "route" /\ stage = "sink") =>
       cur \ live \subseteq dropped /\ (live = cur \/ "drop" \in conf.mw)
  /\ pc = "route" => /\ stage \in {"chain", "sink"}
                     /\ stage = "chain" => "fail" \in conf.mw
                     /\ routed = "yes" => conf.dlq \/ conf.flush = "arrow"
                     /\ routed = "yes" /\ conf.dlq => Target \ todo \subseteq dead

\* A record that is accounted for, or given up, stays so.
LEMMA AccountedGrows ==
  [Next]_vars => written \subseteq written' /\ dead \subseteq dead' /\ dropped \subseteq dropped'
                 /\ skipped \subseteq skipped'
<1> SUFFICES ASSUME [Next]_vars
             PROVE  written \subseteq written' /\ dead \subseteq dead' /\ dropped \subseteq dropped'
                    /\ skipped \subseteq skipped'
    OBVIOUS
<1>1. CASE PrefixFinalizes \/ Resolve \/ WriteAccepted \/ WriteMixed \/ WriteRaises
    BY <1>1 DEF PrefixFinalizes, Resolve, WriteAccepted, WriteMixed, WriteRaises
<1>2. CASE RouteOne \/ RouteEnd \/ ResolveOne
    BY <1>2 DEF RouteOne, RouteEnd, ResolveOne
<1>3. CASE UNCHANGED <<written, dead, dropped, skipped>>
    BY <1>3
<1>. QED
    BY <1>1, <1>2, <1>3 DEF Next, StartRun, Pull, Submit, SourceEnds, LaneStep, CompleteFuture,
       LoopHead, PopHead, LeaveDrain, FinalEnd, WriteFenced, CommitOutcomes, Persist, RunHook,
       BatchEnd, FenceLost, Cancel, Crash, Finished, vars, lane, world

\* The rows of a failed write depend on the batch alone.
LEMMA SameRows ==
  ASSUME UNCHANGED <<conf, cur, live>>
  PROVE  FailedRows' = FailedRows
BY DEF FailedRows

\* Every step keeps what is known of the batch.
LEMMA NextRouting == Control /\ Routing /\ [Next]_vars => Routing'
<1> SUFFICES ASSUME Control, Routing, [Next]_vars PROVE Routing'
    OBVIOUS
<1>g. dead \subseteq dead' /\ dropped \subseteq dropped'
    BY AccountedGrows
<1>o. ASSUME pc' \notin {"write", "resolve", "route"},
             pc' \in {"persist", "hooks"} \/ stage' = "none"
      PROVE  Routing'
    BY <1>o DEF Routing
<1>u. ASSUME UNCHANGED <<conf, pc, stage, cur, live, todo, routed>> PROVE Routing'
  <2>1. Target' = Target
    BY <1>u, SameRows DEF Target
  <2>2. QED
    BY <1>g, <1>u, <2>1 DEF Routing
<1>e. ASSUME Abort \/ SoftError \/ Return PROVE Routing'
    BY <1>e, <1>o DEF Abort, SoftError, Return, ClearFinal, Control, Typed, LaneT
<1>n. pc \notin {"route", "persist", "hooks"} => stage = "none"
    BY DEF Routing
<1>1. CASE Submit \/ SourceEnds \/ LoopHead \/ PopHead \/ LeaveDrain \/ FinalEnd \/ StartRun
    BY <1>1, <1>o, <1>n DEF Submit, SourceEnds, LoopHead, PopHead, LeaveDrain, FinalEnd, StartRun,
       ClearFinal, final, Halted
<1>2. CASE CompleteFuture \/ FenceLost \/ UNCHANGED vars
    BY <1>2, <1>u DEF CompleteFuture, FenceLost, vars, lane, final
<1>3. CASE Cancel \/ Crash
    BY <1>3, <1>o DEF Cancel, Crash, Abort, ClearFinal
<1>4. CASE PrefixFinalizes
  <2>1. PICK b \in NextBatches :
          /\ cur' = b
          /\ \/ "fail" \in conf.mw /\ RouteBatch(b, "chain")
             \/ SaveBatch(b)
    BY <1>4 DEF PrefixFinalizes
  <2>2. CASE SaveBatch(b)
    BY <2>2, <1>o DEF SaveBatch
  <2>3. CASE "fail" \in conf.mw /\ RouteBatch(b, "chain")
    <3>1. conf' = conf
      BY <1>4 DEF PrefixFinalizes
    <3>2. /\ pc' = "route" /\ stage' = "chain" /\ Target' = b
          /\ conf.dlq => todo' = b
          /\ routed' = "yes" => conf.dlq \/ conf.flush = "arrow"
      BY <2>1, <2>3 DEF RouteBatch, Target
    <3>3. QED
      BY <2>3, <3>1, <3>2 DEF Routing
  <2>. QED
    BY <2>1, <2>2, <2>3
<1>5. CASE Resolve
  <2>0. conf' = conf /\ cur' = cur /\ stage = "none"
    BY <1>5, <1>n DEF Resolve
  <2>1. CASE "fail" \in conf.mw /\ RouteBatch(cur, "chain")
    <3>2. /\ pc' = "route" /\ stage' = "chain" /\ Target' = cur
          /\ conf.dlq => todo' = cur
          /\ routed' = "yes" => conf.dlq \/ conf.flush = "arrow"
      BY <2>0, <2>1 DEF RouteBatch, Target
    <3>3. QED
      BY <2>0, <2>1, <3>2 DEF Routing
  <2>2. CASE pc' = "persist"
    BY <2>2, <1>o
  <2>3. CASE pc' = "write" /\ stage' = stage /\ live' \subseteq cur
             /\ dropped' = dropped \cup (cur \ live')
             /\ (live' # cur => "drop" \in conf.mw)
    BY <2>0, <2>3 DEF Routing
  <2>. QED
    BY <1>5, <2>1, <2>2, <2>3 DEF Resolve, SaveBatch
<1>w. pc = "write" => /\ cur \ live \subseteq dropped /\ (live = cur \/ "drop" \in conf.mw)
                      /\ stage = "none"
    BY DEF Routing
<1>r. ASSUME pc = "write", RouteBatch(FailedRows, "sink"), UNCHANGED <<conf, cur, live>>
      PROVE  Routing'
  <2>1. /\ pc' = "route" /\ stage' = "sink" /\ Target' = FailedRows
        /\ conf.dlq => todo' = FailedRows
        /\ routed' = "yes" => conf.dlq \/ conf.flush = "arrow"
    BY <1>r, SameRows DEF RouteBatch, Target
  <2>2. cur' \ live' \subseteq dropped' /\ (live' = cur' \/ "drop" \in conf'.mw)
    BY <1>g, <1>r, <1>w
  <2>3. QED
    BY <1>r, <2>1, <2>2 DEF Routing
<1>6. CASE WriteAccepted
    BY <1>6, <1>o DEF WriteAccepted, SaveBatch
<1>7. CASE WriteMixed
    BY <1>7, <1>g, <1>w DEF WriteMixed, Routing
<1>8. CASE WriteRaises
    BY <1>8, <1>r DEF WriteRaises
<1>9. CASE WriteFenced
    BY <1>9, <1>r, <1>e DEF WriteFenced
<1>10. CASE RouteOne
  <2>1. CASE SoftError
    BY <2>1, <1>e
  <2>2. CASE ~SoftError
    <3>1. PICK r \in FencedRoutes :
            /\ dead' = dead \cup Captured(r, {First(todo)})
            /\ todo' = todo \ {First(todo)}
            /\ routed' = IF r = "routed" THEN routed ELSE "no"
            /\ UNCHANGED <<pc, cur, live, stage>>
      BY <1>10, <2>2 DEF RouteOne
    <3>2. conf' = conf /\ Target' = Target /\ pc = "route"
      BY <1>10, <3>1, SameRows DEF RouteOne, Target
    <3>3. routed' = "yes" => routed = "yes" /\ First(todo) \in dead'
      BY <3>1 DEF Captured
    <3>4. routed' = "yes" /\ conf.dlq => Target' \ todo' \subseteq dead'
      BY <1>g, <3>1, <3>2, <3>3 DEF Routing
    <3>5. QED
      BY <1>g, <3>1, <3>2, <3>3, <3>4 DEF Routing
  <2>. QED
    BY <2>1, <2>2
<1>11. CASE RouteEnd
    BY <1>11, <1>e, <1>o DEF RouteEnd, SaveBatch
<1>12. CASE ResolveOne
  <2>1. CASE SoftError
    BY <2>1, <1>e
  <2>2. CASE UNCHANGED <<pc, cur, live, stage>>
    <3>1. pc = "resolve" /\ conf' = conf
      BY <1>12 DEF ResolveOne
    <3>2. QED
      BY <1>g, <2>2, <3>1 DEF Routing
  <2>. QED
    BY <1>12, <2>1, <2>2 DEF ResolveOne
<1>13. CASE CommitOutcomes
    BY <1>13, <1>o DEF CommitOutcomes
<1>14. CASE Persist
    BY <1>14, <1>e, <1>o DEF Persist
<1>15. CASE RunHook \/ BatchEnd
    BY <1>15, <1>e, <1>o DEF RunHook, BatchEnd
<1>. QED
    BY <1>1, <1>2, <1>3, <1>4, <1>5, <1>6, <1>7, <1>8, <1>9, <1>10, <1>11, <1>12, <1>13, <1>14,
       <1>15 DEF Next, Pull, LaneStep, Finished

\* The two kinds of batch lane there are.
Batching(c) == c.flush \in {"list", "arrow"}

\* A hook that is due belongs to a record that is accounted for.
AckedInv ==
  /\ AckedIsAccountedFor /\ acks \subseteq Accounted /\ part \subseteq written

\* Every step keeps the acknowledgement invariant.
LEMMA NextAcked ==
  ASSUME Control, Routing, Batching(conf), AckedInv, [Next]_vars
  PROVE  AckedInv'
<1>g. written \subseteq written' /\ Accounted \subseteq Accounted'
    BY AccountedGrows DEF Accounted
<1> USE DEF AckedInv, AckedIsAccountedFor
<1>a. acked \subseteq Accounted
    BY DEF Accounted
<1>k. ASSUME acked' \subseteq Accounted', acks' \subseteq Accounted', part' \in {part, {}}
      PROVE  AckedInv'
    BY <1>g, <1>k DEF Accounted
<1>u. ASSUME acked' = acked, acks' \in {acks, {}}, part' \in {part, {}} PROVE AckedInv'
    BY <1>g, <1>u, <1>k, <1>a
<1>e. ASSUME acked' = acked, Abort \/ SoftError \/ Return PROVE AckedInv'
    BY <1>e, <1>u DEF Abort, SoftError, Return, ClearFinal
<1>1. CASE Submit \/ SourceEnds \/ LoopHead \/ PopHead \/ LeaveDrain \/ FinalEnd \/ StartRun
    BY <1>1, <1>u DEF Submit, SourceEnds, LoopHead, PopHead, LeaveDrain, FinalEnd, StartRun, world,
       ClearFinal, final
<1>2. CASE CompleteFuture \/ FenceLost \/ UNCHANGED vars \/ Cancel \/ Crash
    BY <1>2, <1>u DEF CompleteFuture, FenceLost, vars, lane, world, final, Cancel, Crash, Abort,
       ClearFinal
<1>3. CASE PrefixFinalizes
    BY <1>3, <1>u DEF PrefixFinalizes
<1>4. CASE Resolve
  <2>1. acks' = acks \/ acks' = {} \/ (acks' = cur /\ cur \subseteq dropped')
    BY <1>4 DEF Resolve
  <2>2. QED
    BY <1>4, <1>a, <1>g, <1>k, <2>1 DEF Resolve, Accounted
<1>w. pc = "write" => cur \ live \subseteq dropped
    BY DEF Routing
<1>5. CASE WriteAccepted
  <2>1. acks' = acks \/ (acks' = cur /\ cur \subseteq Accounted')
    BY <1>5, <1>w DEF WriteAccepted, Accounted
  <2>2. QED
    BY <1>5, <1>a, <1>g, <1>k, <2>1 DEF WriteAccepted
<1>6. CASE WriteMixed
  <2>1. PICK part1, err1, none1 \in SUBSET live :
          /\ part1 \cap err1 = {} /\ part1 \cap none1 = {}
          /\ written' = written \cup (live \ (err1 \cup none1))
          /\ dropped' = dropped \cup none1
          /\ part' = part1 /\ todo' = part1 \cup err1
          /\ acks' = cur \ todo'
    BY <1>6 DEF WriteMixed
  <2>2. part' \subseteq written'
    BY <2>1
  <2>3. cur \ live \subseteq dropped /\ live \ (part1 \cup err1) \subseteq written' \cup dropped'
    BY <1>6, <1>w, <2>1 DEF WriteMixed
  <2>4. acks' \subseteq Accounted'
    BY <2>1, <2>3 DEF Accounted
  <2>5. QED
    BY <1>6, <1>a, <1>g, <2>2, <2>4 DEF WriteMixed, Accounted
<1>7. CASE WriteRaises
    BY <1>7, <1>u DEF WriteRaises
<1>8. CASE WriteFenced
    BY <1>8, <1>e, <1>u DEF WriteFenced, world
<1>9. CASE RouteOne
    BY <1>9, <1>e, <1>u DEF RouteOne
<1>10. CASE RouteEnd
  <2>1. CASE Abort \/ SoftError \/ Return
    BY <1>10, <2>1, <1>e DEF RouteEnd
  <2>2. CASE acks' = BatchAcks /\ part' = part
    <3>1. BatchAcks \subseteq Accounted
      <4>1. CASE conf.flush = "arrow" \/ stage = "chain"
        BY <4>1 DEF BatchAcks
      <4>2. CASE conf.flush = "list" /\ stage = "sink" /\ routed = "yes"
        <5>1. Target = live /\ live \subseteq dead /\ cur \ live \subseteq dropped
          BY <1>10, <4>2 DEF Routing, RouteEnd, Target, FailedRows
        <5>2. QED
          BY <5>1 DEF BatchAcks, Accounted
      <4>3. CASE conf.flush = "list" /\ stage = "sink" /\ routed # "yes"
        BY <1>10, <4>3 DEF Routing, RouteEnd, BatchAcks, Accounted
      <4>. QED
        BY <1>10, <4>1, <4>2, <4>3 DEF Batching, Routing, RouteEnd
    <3>2. QED
      BY <1>10, <1>a, <1>g, <1>k, <2>2, <3>1 DEF RouteEnd
  <2>. QED
    BY <1>10, <2>1, <2>2 DEF RouteEnd
<1>11. CASE ResolveOne
  <2>1. CASE SoftError
    BY <1>11, <2>1, <1>e DEF ResolveOne
  <2>2. CASE ~SoftError
    <3>1. PICK r \in FencedRoutes :
            /\ dead' = dead \cup Captured(r, {First(todo)})
            /\ acks' = IF Continues(r) /\ AckDue(r, First(todo) \in part)
                       THEN acks \cup {First(todo)} ELSE acks
            /\ part' = part
      BY <1>11, <2>2 DEF ResolveOne
    <3>2. acks' \subseteq Accounted'
      BY <1>g, <3>1 DEF AckDue, Captured, Accounted
    <3>3. QED
      BY <1>11, <1>a, <1>g, <1>k, <3>1, <3>2 DEF ResolveOne
  <2>. QED
    BY <2>1, <2>2
<1>12. CASE CommitOutcomes
  <2>1. acks' \subseteq acks
    BY <1>12 DEF CommitOutcomes
  <2>2. QED
    BY <1>12, <1>a, <1>g, <1>k, <2>1 DEF CommitOutcomes, world
<1>13. CASE Persist
    BY <1>13, <1>e, <1>u DEF Persist, final
<1>14. CASE RunHook
  <2>1. CASE SoftError /\ acked' = acked
    BY <2>1, <1>e
  <2>2. CASE acked' = acked \cup {First(acks)} /\ acks' = acks \ {First(acks)} /\ part' = part
    <3>1. First(acks) \in acks
      BY <1>14, BatchFacts DEF RunHook
    <3>2. QED
      BY <1>a, <1>g, <1>k, <2>2, <3>1
  <2>. QED
    BY <1>14, <2>1, <2>2 DEF RunHook
<1>15. CASE BatchEnd
    BY <1>15, <1>e DEF BatchEnd, world
<1>. QED
    BY <1>1, <1>2, <1>3, <1>4, <1>5, <1>6, <1>7, <1>8, <1>9, <1>10, <1>11, <1>12, <1>13, <1>14,
       <1>15 DEF Next, Pull, LaneStep, Finished

\* The configuration is the same in every step.
LEMMA SameConfig == [Next]_vars => conf' = conf
BY DEF Next, StartRun, Pull, Submit, PrefixFinalizes, SourceEnds, LaneStep, CompleteFuture,
   LoopHead, PopHead, LeaveDrain, FinalEnd, Resolve, WriteAccepted, WriteMixed, WriteRaises,
   WriteFenced, RouteOne, RouteEnd, ResolveOne, CommitOutcomes, Persist, RunHook, BatchEnd,
   FenceLost, Cancel, Crash, Finished, vars

\* The initial states know nothing of a batch.
LEMMA InitRouting == Init => Routing /\ AckedInv /\ BoundInv
<1> SUFFICES ASSUME Init PROVE Routing /\ AckedInv /\ BoundInv
    OBVIOUS
<1>1. Cardinality(queue) = 0
    BY FS_EmptySet DEF Init
<1>2. conf.inflight \in Nat
    BY DEF Init, WorldInit, ConfigType
<1>3. QED
    BY <1>1, <1>2 DEF Init, WorldInit, Routing, AckedInv, AckedIsAccountedFor, BoundInv,
       InFlightBounded, Finalizing

\* The source is told only about records that were written, captured by the DLQ
\* or dropped, although a batch is acknowledged as a whole.
THEOREM AcknowledgedIsAccountedFor == Batching(conf) /\ Spec => []AckedIsAccountedFor
<1>1. AckedInv => AckedIsAccountedFor
    BY DEF AckedInv
<1>2. Control /\ Routing /\ Batching(conf) /\ AckedInv /\ [Next]_vars
        => Routing' /\ Batching(conf)' /\ AckedInv'
    BY NextAcked, NextRouting, SameConfig DEF Batching
<1>3. QED
    BY <1>1, <1>2, InitRouting, ControlHolds, PTL DEF Spec

-----------------------------------------------------------------------------
(* Coverage.  The code keeps the promise of the checkpoint in the          *)
(* configurations Trusted describes; README has what goes wrong in the     *)
(* others.                                                                 *)

\* No batch vanishes: one the chain of the list lane failed on, or the sink of
\* an Arrow lane without a DLQ, is given up by policy or does not occur.
NoneVanish(c) ==
  \/ c.sinkPolicy = LOG_AND_CONTINUE
  \/ IF c.flush = "list" THEN ~(c.dlq /\ "fail" \in c.mw) ELSE c.dlq

\* There is no store, or a batch is checkpointed only when all of it and all
\* before it is handled: single records do not stop the run, and with more than
\* one batch in the stage nothing overtakes it and no exception is left behind.
KeepsOrder(c) ==
  c.store =>
    /\ c.flush = "list" /\ "record" \in c.errors => c.sinkPolicy = LOG_AND_CONTINUE
    /\ \/ c.inflight = 1
       \/ /\ "fail" \notin c.mw /\ (c.flush = "arrow" => "drop" \notin c.mw)
          /\ c.dlq => c.dlqPolicy # RAISE

Trusted(c) == Batching(c) /\ NoneVanish(c) /\ KeepsOrder(c)

\* The source loop failed and what it left unhandled cannot reach the store: the
\* lease is gone, there is no store, or nothing is left to drain.
Excused == fate = "error" /\ (fenced \/ ~conf.store \/ (pc = "final" /\ queue = {}))

\* Behind the cursor, a record is handled, in the stage or in the current batch.
NothingLost ==
  pc \in Busy /\ ~Excused => 1..(next - 1) \subseteq Handled \cup cur \cup UNION queue

\* The current batch lies in front of the stage where its checkpoint counts, and
\* is handled before its checkpoint is looked at.
CurrentCovers ==
  /\ conf.store => halt = 0 /\ \A b \in queue : Before(cur, b)
  /\ pc = "resolve" => /\ conf.flush = "list" /\ "record" \in conf.errors
                       /\ halt = 0 => cur \ todo \subseteq Handled
  /\ pc \in {"persist", "hooks"} => /\ halt = 0 => cur \subseteq Handled
                                    /\ due \in {0, Latest(cur)} /\ (due # 0 => conf.store)

Covered == CheckpointCovers /\ NothingLost /\ CurrentCovers /\ CompletedRunHandledAll

\* What the coverage proofs use besides.
Base == Control /\ Routing /\ BoundInv /\ Trusted(conf)

\* A terminal outcome is never taken back, in this run or a later one.
LEMMA HandledGrows == [Next]_vars => Handled \subseteq Handled'
BY AccountedGrows DEF Handled

\* Nothing is claimed for a run that is over without having completed.
LEMMA EndedCovered ==
  ASSUME Covered, Handled \subseteq Handled', durable' = durable,
         pc' \in {"failed", "idle"}, queue' = {}, halt' = 0
  PROVE  Covered'
<1>1. CheckpointCovers'
    BY DEF Covered, CheckpointCovers
<1>2. NothingLost' /\ CurrentCovers' /\ CompletedRunHandledAll'
    BY DEF NothingLost, CurrentCovers, CompletedRunHandledAll, Busy
<1>. QED
    BY <1>1, <1>2 DEF Covered

\* A run that is not over: two conjuncts of the invariant to look at.
LEMMA BusyCovered ==
  ASSUME Covered, Handled \subseteq Handled', durable' = durable, pc' \in Busy, NothingLost',
         CurrentCovers'
  PROVE  Covered'
BY DEF Covered, CheckpointCovers, CompletedRunHandledAll, Busy

\* The current batch stays the current one.
LEMMA StaysCovered ==
  ASSUME Covered, Handled \subseteq Handled', durable' = durable, pc \in Busy,
         pc' \in Busy, UNCHANGED <<conf, next, cur, queue>>, pc = "final" => pc' = "final",
         fenced => fenced', fate' = fate \/ fate = "none", CurrentCovers'
  PROVE  Covered'
<1>1. NothingLost'
    BY DEF Covered, NothingLost, Excused
<1>. QED
    BY <1>1, BusyCovered

\* The batch is handled and the lane goes on where it left off, or drains the
\* stage after an error; without a store, without the lease or with nothing left
\* to drain the batch need not be handled.
LEMMA LeftCovered ==
  ASSUME Base, Covered, Handled \subseteq Handled', durable' = durable, pc \in Finalizing,
         UNCHANGED <<conf, next, fenced>>,
         \/ Return /\ cur \subseteq Handled'
         \/ SoftError /\ (cur \subseteq Handled' \/ ~conf.store \/ fenced \/ queue = {})
  PROVE  Covered'
<1> USE DEF Base, Control, Typed
<1>1. CASE Abort
    BY <1>1, EndedCovered DEF Abort, ClearFinal
<1>2. CASE ~Abort
  <2>1. /\ pc' \in {"loop", "drain", "final"} /\ cur' = {} /\ queue' = queue /\ halt' = 0
        /\ \/ fate' = fate /\ cur \subseteq Handled'
           \/ /\ fate' = "error" /\ pc' = "final" /\ fate # "error"
              /\ cur \subseteq Handled' \/ ~conf.store \/ fenced \/ queue = {}
    BY <1>2 DEF Return, SoftError, ClearFinal, LaneT, FateOK
  <2>2. NothingLost'
    <3>1. SUFFICES ASSUME ~Excused' PROVE 1..(next - 1) \subseteq Handled' \cup UNION queue
      BY <2>1 DEF NothingLost
    <3>2. cur \subseteq Handled'
      BY <2>1, <3>1 DEF Excused
    <3>3. pc \in Busy /\ ~Excused
      BY <2>1, <3>1 DEF Excused, Busy, Finalizing
    <3>4. QED
      BY <3>2, <3>3 DEF Covered, NothingLost
  <2>3. CurrentCovers'
    BY <2>1 DEF CurrentCovers, Before
  <2>4. QED
    BY <2>1, <2>2, <2>3, BusyCovered DEF Busy
<1>. QED
    BY <1>1, <1>2

\* The start of a run, and the steps that pull a batch or end the source loop.
LEMMA PullCovered ==
  ASSUME Base, Covered, Handled \subseteq Handled', StartRun \/ Pull
  PROVE  Covered'
<1> USE DEF Base, Control, Typed
<1>1. CASE StartRun
  <2> USE <1>1 DEF StartRun, world, ClearFinal
  <2>1. next' = 1 \/ next' = durable + 1
    BY DEF ResumeValues, ResumePosition
  <2>2. NothingLost'
    BY <2>1 DEF NothingLost, Covered, CheckpointCovers, WorldTypeOK
  <2>3. CurrentCovers'
    BY DEF CurrentCovers
  <2>4. QED
    BY <2>2, <2>3, BusyCovered DEF Busy
<1>0. CASE Pull
  <2>0. pc = "pull" /\ cur = {} /\ fate = "none" /\ pc \in Busy
    BY <1>0 DEF Pull, Submit, PrefixFinalizes, SourceEnds, CurrentOK, FateOK, Finalizing, Busy
  <2>l. 1..(next - 1) \subseteq Handled \cup UNION queue
    BY <2>0 DEF Covered, NothingLost, Excused
  <2>h. conf.store => halt = 0
    BY DEF Covered, CurrentCovers
  <2>1. CASE Submit
    <3> USE <2>1 DEF Submit, world, final
    <3>1. PICK b \in NextBatches : queue' = queue \cup {b} /\ next' = Latest(b) + 1
      OBVIOUS
    <3>2. b = next..Latest(b) /\ Latest(b) \in next..N /\ next \in 1..N
      BY <3>1, NextBatch DEF LaneT
    <3>3. NothingLost'
      <4>1. \A p \in 1..(next' - 1) : p \in 1..(next - 1) \/ p \in b
        BY <3>1, <3>2
      <4>2. \A a \in queue : a \in queue'
        BY <3>1
      <4>3. b \in queue'
        BY <3>1
      <4>4. \A p : p \in UNION queue \/ p \in b => p \in UNION queue'
        BY <4>2, <4>3, Zenon
      <4>5. 1..(next' - 1) \subseteq Handled' \cup UNION queue'
        BY <2>l, <4>1, <4>4
      <4>6. QED
        BY <4>5 DEF NothingLost
    <3>4. CurrentCovers'
      BY <2>0, <2>h DEF CurrentCovers, Before
    <3>5. QED
      BY <3>3, <3>4, BusyCovered DEF Busy
  <2>2. CASE PrefixFinalizes
    <3> USE <2>2 DEF PrefixFinalizes
    <3>1. PICK b \in NextBatches :
            /\ cur' = b /\ next' = Latest(b) + 1
            /\ \/ "fail" \in conf.mw /\ RouteBatch(b, "chain")
               \/ /\ "drop" \in conf.mw /\ conf.flush = "arrow"
                  /\ dropped' = dropped \cup b /\ SaveBatch(b)
      OBVIOUS
    <3>2. /\ b = next..Latest(b) /\ Latest(b) \in next..N /\ next \in 1..N
          /\ b \subseteq Position
      BY <3>1, NextBatch DEF LaneT
    <3>3. conf.store => queue = {}
      <4>1. conf.store => conf.inflight = 1
        BY <3>1 DEF Trusted, KeepsOrder
      <4>2. QED
        BY <2>0, <4>1, Sizes DEF BoundInv
    <3>4. NothingLost'
      <4>1. \A p \in 1..(next' - 1) : p \in 1..(next - 1) \/ p \in b
        BY <3>1, <3>2
      <4>2. QED
        BY <2>l, <3>1, <4>1 DEF NothingLost
    <3>5. pc' = "route" \/ /\ pc' = "persist" /\ b \subseteq Handled'
                           /\ due' \in {0, Latest(b)} /\ (due' # 0 => conf.store)
      BY <3>1, <3>2, Saved DEF RouteBatch, SaveBatch, Handled
    <3>6. CurrentCovers'
      BY <2>h, <3>1, <3>3, <3>5 DEF CurrentCovers
    <3>7. QED
      BY <3>4, <3>5, <3>6, BusyCovered DEF Busy
  <2>3. CASE SourceEnds
    <3>1. CurrentCovers'
      BY <2>3, <2>0, <2>h DEF SourceEnds, CurrentCovers, Before, final
    <3>2. QED
      BY <2>0, <2>3, <3>1, StaysCovered DEF SourceEnds, world, final, Busy
  <2>. QED
    BY <1>0, <2>1, <2>2, <2>3 DEF Pull
<1>. QED
    BY <1>0, <1>1

\* The steps between two batches.
LEMMA DrainCovered ==
  ASSUME Base, Covered, Handled \subseteq Handled',
         CompleteFuture \/ LoopHead \/ PopHead \/ LeaveDrain \/ FinalEnd \/ FenceLost
  PROVE  Covered'
<1> USE DEF Base, Control, Typed
<1>h. conf.store => halt = 0
    BY DEF Covered, CurrentCovers
<1>1. CASE CompleteFuture \/ FenceLost
  <2>1. CurrentCovers'
    BY <1>1 DEF CompleteFuture, FenceLost, final, world, Covered, CurrentCovers, Handled
  <2>2. QED
    BY <1>1, <2>1, StaysCovered DEF CompleteFuture, FenceLost, world, final
<1>2. CASE LoopHead \/ LeaveDrain
  <2>1. CurrentCovers'
    BY <1>2 DEF LoopHead, LeaveDrain, final, Covered, CurrentCovers
  <2>2. QED
    BY <1>2, <2>1, StaysCovered DEF LoopHead, LeaveDrain, world, final, Busy
<1>3. CASE PopHead
  <2> USE <1>3 DEF PopHead
  <2>0. cur = {} /\ pc \in Busy
    BY DEF CurrentOK, Finalizing, Busy
  <2>1. /\ cur' \in queue /\ queue' = queue \ {cur'}
        /\ \A b \in queue' : Before(cur', b)
    BY OldestIn DEF Popped
  <2>2. NothingLost'
    <3>1. SUFFICES ASSUME ~Excused'
                   PROVE  1..(next - 1) \subseteq Handled' \cup cur' \cup UNION queue'
      BY DEF NothingLost
    <3>2. 1..(next - 1) \subseteq Handled \cup UNION queue
      BY <2>0, <3>1 DEF Covered, NothingLost, Excused
    <3>3. UNION queue \subseteq cur' \cup UNION queue'
      BY <2>1
    <3>4. QED
      BY <3>2, <3>3
  <2>3. CurrentCovers'
    BY <1>h, <2>1 DEF CurrentCovers
  <2>4. QED
    BY <2>2, <2>3, BusyCovered DEF Busy, world
<1>4. CASE FinalEnd
  <2> USE <1>4 DEF FinalEnd
  <2>1. CurrentCovers'
    BY <1>h DEF CurrentCovers, final
  <2>2. CASE fate # "ok"
    <3>1. CheckpointCovers' /\ NothingLost' /\ CompletedRunHandledAll'
      BY <2>2 DEF Covered, CheckpointCovers, NothingLost, CompletedRunHandledAll, Busy, world
    <3>2. QED
      BY <2>1, <3>1 DEF Covered
  <2>3. CASE fate = "ok"
    <3>0. cur = {} /\ UNION queue = {} /\ pc \in Busy /\ ~Excused /\ next - 1 = N
      BY <2>3 DEF CurrentOK, Finalizing, Busy, Excused, FateOK
    <3>1. Position \subseteq Handled
      BY <3>0 DEF Covered, NothingLost, Position
    <3>2. CheckpointCovers' /\ CompletedRunHandledAll' /\ NothingLost'
      BY <2>3, <3>1 DEF Covered, CheckpointCovers, CompletedRunHandledAll, NothingLost, Busy, world
    <3>3. QED
      BY <2>1, <3>2 DEF Covered
  <2>. QED
    BY <2>2, <2>3
<1>. QED
    BY <1>1, <1>2, <1>3, <1>4

\* The rows of a batch the Arrow chain kept whole are all of its rows.
LEMMA AllRows ==
  ASSUME Control, live = cur
  PROVE  FailedRows = cur
<1>1. ASSUME NEW p \in cur PROVE Cardinality({q \in cur : q < p}) < Cardinality(cur)
  <2>1. IsFiniteSet(cur) /\ Cardinality(cur) \in Nat
    BY CountedNat DEF Control, Typed, BatchT, NoteT
  <2>2. {q \in cur : q < p} \in SUBSET cur /\ {q \in cur : q < p} # cur
    BY <1>1 DEF Control, Typed, BatchT, Position
  <2>3. IsFiniteSet({q \in cur : q < p})
    BY <2>1, <2>2, FS_Subset
  <2>4. Cardinality({q \in cur : q < p}) \in Nat
    BY <2>3, FS_CardinalityType
  <2>5. /\ Cardinality({q \in cur : q < p}) <= Cardinality(cur)
        /\ Cardinality({q \in cur : q < p}) # Cardinality(cur)
    BY <2>1, <2>2, FS_Subset
  <2>6. QED
    BY <2>1, <2>4, <2>5
<1>2. QED
    BY <1>1 DEF FailedRows

\* The stage's result and the writer.
LEMMA WriteCovered ==
  ASSUME Base, Covered, Handled \subseteq Handled',
         Resolve \/ WriteAccepted \/ WriteMixed \/ WriteRaises \/ WriteFenced
  PROVE  Covered'
<1> USE DEF Base, Control, Typed
<1>0. pc \in Finalizing /\ pc \in Busy /\ pc # "final" /\ cur \subseteq Position
    BY DEF Resolve, WriteAccepted, WriteMixed, WriteRaises, WriteFenced, Finalizing, Busy, BatchT
<1>c. conf.store => halt = 0 /\ \A b \in queue : Before(cur, b)
    BY DEF Covered, CurrentCovers
<1>w. pc = "write" => cur \ live \subseteq dropped
    BY DEF Routing
<1>s. ASSUME durable' = durable, UNCHANGED <<conf, next, cur, queue, fenced, fate, halt>>,
             \/ pc' \in {"write", "route"}
             \/ pc' = "persist" /\ cur \subseteq Handled' /\ due' \in {0, Latest(cur)}
                /\ (due' # 0 => conf.store)
             \/ pc' = "resolve" /\ conf.flush = "list" /\ "record" \in conf.errors
                /\ cur \ todo' \subseteq Handled'
      PROVE  Covered'
  <2>1. CurrentCovers'
    BY <1>c, <1>s DEF CurrentCovers
  <2>2. QED
    BY <1>0, <1>s, <2>1, StaysCovered DEF Busy
<1>1. CASE Resolve
    BY <1>0, <1>1, <1>s, Saved DEF Resolve, RouteBatch, SaveBatch, Handled
<1>2. CASE WriteAccepted
  <2>1. cur \subseteq Handled'
    BY <1>2, <1>w DEF WriteAccepted, Handled
  <2>2. pc' = "persist" /\ due' \in {0, Latest(cur)} /\ (due' # 0 => conf.store)
    BY <1>0, <1>2, Saved, BatchFacts DEF WriteAccepted, SaveBatch
  <2>3. QED
    BY <1>2, <1>s, <2>1, <2>2 DEF WriteAccepted
<1>3. CASE WriteMixed
  <2>1. PICK part1, err1, none1 \in SUBSET live :
          /\ written' = written \cup (live \ (err1 \cup none1))
          /\ dropped' = dropped \cup none1
          /\ todo' = part1 \cup err1
    BY <1>3 DEF WriteMixed
  <2>2. cur \ todo' \subseteq Handled'
    BY <1>3, <1>w, <2>1 DEF WriteMixed, Handled
  <2>3. QED
    BY <1>3, <1>s, <2>2 DEF WriteMixed
<1>4. CASE WriteRaises
    BY <1>4, <1>s DEF WriteRaises, RouteBatch
<1>5. CASE WriteFenced
  <2>1. CASE SoftError
    BY <1>0, <1>5, <2>1, LeftCovered DEF WriteFenced, world
  <2>2. CASE RouteBatch(FailedRows, "sink") /\ UNCHANGED <<queue, fate, cur, halt>>
    BY <1>5, <1>s, <2>2 DEF WriteFenced, RouteBatch, world
  <2>. QED
    BY <1>5, <2>1, <2>2 DEF WriteFenced
<1>. QED
    BY <1>1, <1>2, <1>3, <1>4, <1>5

\* A DLQ that raises, or rows that cannot be paired: only where one batch at a
\* time is in the stage, if there is a store.
LEMMA AloneInStage ==
  ASSUME Base, pc \in Finalizing, conf.store,
         "raised" \in FencedRoutes \/ (Mispaired /\ "drop" \in conf.mw)
  PROVE  queue = {}
<1>1. conf.inflight = 1
    BY DEF Base, Trusted, KeepsOrder, FencedRoutes, Routes, Mispaired
<1>2. QED
    BY <1>1, Sizes DEF Base, Control, BoundInv

\* The DLQ, record by record and at the end of the batch.
LEMMA RouteCovered ==
  ASSUME Base, Covered, Handled \subseteq Handled', RouteOne \/ RouteEnd
  PROVE  Covered'
<1> USE DEF Base, Control, Typed
<1>0. pc = "route" /\ pc \in Finalizing /\ pc \in Busy /\ cur \subseteq Position
    BY DEF RouteOne, RouteEnd, Finalizing, Busy, BatchT
<1>c. conf.store => halt = 0 /\ \A b \in queue : Before(cur, b)
    BY DEF Covered, CurrentCovers
<1>1. CASE RouteOne
  <2>1. CASE SoftError /\ "raised" \in FencedRoutes
    BY <1>0, <1>1, <2>1, AloneInStage, LeftCovered DEF RouteOne
  <2>2. CASE UNCHANGED <<pc, queue, fate, cur, halt, due>>
    <3>1. CurrentCovers'
      BY <1>0, <1>1, <1>c, <2>2 DEF RouteOne, CurrentCovers
    <3>2. QED
      BY <1>0, <1>1, <2>2, <3>1, StaysCovered DEF RouteOne
  <2>. QED
    BY <1>1, <2>1, <2>2 DEF RouteOne
<1>2. CASE RouteEnd
  <2>u. UNCHANGED <<conf, durable, written, dead, next, fenced>> /\ todo = {}
    BY <1>2 DEF RouteEnd
  <2>1. CASE Mispaired /\ SoftError
    <3>1. "drop" \in conf.mw
      BY <1>0, <2>1 DEF Mispaired, Routing
    <3>2. QED
      BY <1>0, <2>u, <2>1, <3>1, AloneInStage, LeftCovered
  <2>2. CASE /\ ~Mispaired /\ GoesOn /\ SaveBatch(cur)
             /\ dropped' = IF stage = "chain" /\ ~conf.dlq THEN dropped \cup cur ELSE dropped
             /\ skipped' = IF conf.sinkPolicy = LOG_AND_CONTINUE
                           THEN skipped \cup (Failed \ dead) ELSE skipped
             /\ UNCHANGED <<queue, fate, cur, halt>>
    <3>1. cur \subseteq Handled'
      <4>1. CASE stage = "chain"
        <5>1. CASE conf.sinkPolicy = LOG_AND_CONTINUE
          BY <2>2, <2>u, <4>1, <5>1 DEF Failed, Handled
        <5>2. CASE ~conf.dlq
          BY <2>2, <4>1, <5>2 DEF Handled
        <5>3. CASE conf.dlq /\ routed = "yes"
          BY <1>0, <2>u, <4>1, <5>3 DEF Routing, Target, Handled
        <5>. QED
          BY <2>2, <5>1, <5>2, <5>3 DEF GoesOn
      <4>2. CASE stage = "sink"
        <5>0. cur \ live \subseteq Handled' /\ live \subseteq cur
          BY <1>0, <2>2, <4>2 DEF Routing, Handled, BatchT
        <5>1. CASE conf.sinkPolicy = LOG_AND_CONTINUE
          BY <2>2, <2>u, <4>2, <5>0, <5>1 DEF Failed, Handled
        <5>2. CASE conf.sinkPolicy # LOG_AND_CONTINUE
          <6>1. routed = "yes" /\ conf.dlq
            BY <1>0, <2>2, <5>2 DEF GoesOn, Routing, Trusted, NoneVanish
          <6>2. FailedRows \subseteq dead
            BY <1>0, <2>u, <4>2, <6>1 DEF Routing, Target
          <6>3. live \subseteq FailedRows
            BY <2>2, <4>2, <6>1, AllRows DEF Mispaired, FailedRows, Trusted, Batching
          <6>4. QED
            BY <2>u, <5>0, <6>2, <6>3 DEF Handled
        <5>. QED
          BY <5>1, <5>2
      <4>. QED
        BY <1>0, <4>1, <4>2 DEF Routing
    <3>2. pc' = "persist" /\ due' \in {0, Latest(cur)} /\ (due' # 0 => conf.store)
      BY <1>0, <2>2, Saved DEF SaveBatch
    <3>3. CurrentCovers'
      BY <1>c, <2>u, <2>2, <3>1, <3>2 DEF CurrentCovers
    <3>4. QED
      BY <1>0, <2>u, <2>2, <3>2, <3>3, StaysCovered DEF Busy
  <2>3. CASE ~GoesOn /\ conf.flush = "list" /\ stage = "chain" /\ conf.dlq
    BY <1>0, <2>3 DEF GoesOn, Routing, Trusted, NoneVanish
  <2>4. CASE Abort
    BY <2>u, <2>4, EndedCovered DEF Abort, ClearFinal
  <2>. QED
    BY <1>2, <2>1, <2>2, <2>3, <2>4 DEF RouteEnd
<1>. QED
    BY <1>1, <1>2

\* The outcomes of single records.
LEMMA ResolveCovered ==
  ASSUME Base, Covered, Handled \subseteq Handled', ResolveOne \/ CommitOutcomes
  PROVE  Covered'
<1> USE DEF Base, Control, Typed
<1>0. pc = "resolve" /\ pc \in Finalizing /\ pc \in Busy /\ cur \subseteq Position
    BY DEF ResolveOne, CommitOutcomes, Finalizing, Busy, BatchT
<1>c. /\ conf.store => halt = 0 /\ \A b \in queue : Before(cur, b)
      /\ conf.flush = "list" /\ "record" \in conf.errors
      /\ halt = 0 => cur \ todo \subseteq Handled
    BY <1>0 DEF Covered, CurrentCovers
<1>1. CASE ResolveOne
  <2>1. CASE SoftError /\ "raised" \in FencedRoutes
    BY <1>0, <1>1, <2>1, AloneInStage, LeftCovered DEF ResolveOne
  <2>2. ASSUME NEW r \in FencedRoutes, r # "raised",
               dead' = dead \cup Captured(r, {First(todo)}),
               todo' = todo \ {First(todo)},
               skipped' = skipped \cup GivenUp(r, {First(todo)}),
               halt' = (IF Continues(r) \/ halt # 0 THEN halt ELSE First(todo)),
               UNCHANGED <<pc, queue, fate, cur>>
        PROVE  Covered'
    <3>1. First(todo) \in todo /\ First(todo) \in 1..N /\ First(todo) # 0
      BY <1>1, BatchFacts DEF ResolveOne
    <3>2. Continues(r) => First(todo) \in Handled'
      BY <2>2 DEF Continues, Captured, GivenUp, Handled
    <3>3. halt' = 0 => halt = 0 /\ cur' \ todo' \subseteq Handled'
      BY <1>c, <2>2, <3>1, <3>2
    <3>4. conf.store => halt' = 0
      <4>1. conf.store => conf.sinkPolicy = LOG_AND_CONTINUE
        BY <1>c DEF Trusted, KeepsOrder
      <4>2. r \in {"routed", "unrouted"}
        BY <2>2 DEF FencedRoutes, Routes
      <4>3. QED
        BY <1>c, <2>2, <4>1, <4>2 DEF Continues
    <3>5. conf' = conf
      BY <1>1 DEF ResolveOne
    <3>6. CurrentCovers'
      BY <1>0, <1>c, <2>2, <3>3, <3>4, <3>5 DEF CurrentCovers
    <3>7. QED
      BY <1>0, <1>1, <2>2, <3>6, StaysCovered DEF ResolveOne
  <2>. QED
    BY <1>1, <2>1, <2>2 DEF ResolveOne
<1>2. CASE CommitOutcomes
  <2>1. /\ pc' = "persist" /\ due' \in {0, Latest(cur)} /\ (due' # 0 => conf.store) /\ todo = {}
        /\ UNCHANGED <<conf, durable, next, cur, queue, fenced, fate, halt>>
    BY <1>2, BatchFacts DEF CommitOutcomes, world
  <2>2. CurrentCovers'
    BY <1>c, <2>1 DEF CurrentCovers
  <2>3. QED
    BY <1>0, <2>1, <2>2, StaysCovered DEF Busy
<1>. QED
    BY <1>1, <1>2

\* What a save stores is covered.
LEMMA SavedIsCovered ==
  ASSUME Base, Covered, Persist, durable' # durable
  PROVE  durable' \in 0..N /\ 1..durable' \subseteq Handled
<1> USE DEF Base, Control, Typed
<1>0. cur # {} /\ cur \subseteq 1..N
    BY DEF Persist, CurrentOK, Finalizing, BatchT, Position
<1>1. durable' = due /\ due # 0 /\ ~fenced /\ pc = "persist"
    BY DEF Persist
<1>2. due = Latest(cur) /\ conf.store /\ halt = 0 /\ cur \subseteq Handled
      /\ \A b \in queue : Before(cur, b)
    BY <1>1 DEF Covered, CurrentCovers
<1>3. due \in cur /\ due \in 1..N /\ due < next /\ next \in 1..(N + 1)
    BY <1>0, <1>2, LatestIn DEF InOrder, LaneT, Position
<1>4. 1..(next - 1) \subseteq Handled \cup cur \cup UNION queue
    BY <1>1, <1>2 DEF Covered, NothingLost, Excused, Busy
<1>5. \A p \in UNION queue : p > due
  <2>1. \A b \in queue : \A p \in b : due < p /\ p \in 1..N
    BY <1>2, <1>3 DEF Before, LaneT, Position
  <2>2. QED
    BY <1>3, <2>1
<1>6. ASSUME NEW p \in 1..due PROVE p \in Handled
  <2>1. p \in 1..(next - 1) /\ p \notin UNION queue
    BY <1>3, <1>5
  <2>2. QED
    BY <1>2, <1>4, <2>1
<1>. QED
    BY <1>1, <1>3, <1>6

\* The checkpoint and the hooks.
LEMMA CommitCovered ==
  ASSUME Base, Covered, Handled \subseteq Handled', Persist \/ RunHook \/ BatchEnd
  PROVE  Covered'
<1> USE DEF Base, Control, Typed
<1>0. pc \in {"persist", "hooks"} /\ pc \in Finalizing /\ pc \in Busy
    BY DEF Persist, RunHook, BatchEnd, Finalizing, Busy
<1>c. /\ conf.store => halt = 0 /\ \A b \in queue : Before(cur, b)
      /\ halt = 0 => cur \subseteq Handled
      /\ due \in {0, Latest(cur)} /\ (due # 0 => conf.store)
    BY <1>0 DEF Covered, CurrentCovers
<1>k. ASSUME pc' \in {"persist", "hooks"}, UNCHANGED <<conf, cur, queue, halt, due>>
      PROVE  CurrentCovers'
    BY <1>c, <1>k DEF CurrentCovers
<1>1. CASE Persist /\ durable' = durable
  <2>1. CASE Abort
    BY <1>1, <2>1, EndedCovered DEF Abort, ClearFinal
  <2>2. CASE pc' = "hooks" /\ UNCHANGED <<queue, fate, final>>
    BY <1>0, <1>1, <1>k, <2>2, StaysCovered DEF Persist, Busy, final
  <2>. QED
    BY <1>1, <2>1, <2>2 DEF Persist
<1>2. CASE Persist /\ durable' # durable
  <2>1. CheckpointCovers'
    BY <1>2, SavedIsCovered DEF CheckpointCovers
  <2>2. pc' = "hooks" /\ UNCHANGED <<conf, next, cur, queue, fenced, fate, halt, due>>
    BY <1>2 DEF Persist, final
  <2>3. NothingLost' /\ CompletedRunHandledAll'
    BY <1>0, <2>2 DEF Covered, NothingLost, Excused, CompletedRunHandledAll, Busy
  <2>4. QED
    BY <1>k, <2>1, <2>2, <2>3 DEF Covered
<1>3. CASE RunHook
  <2>1. CASE SoftError
    BY <1>0, <1>3, <1>c, <2>1, LeftCovered DEF RunHook
  <2>2. CASE UNCHANGED <<pc, queue, fate, cur, halt, due>>
    BY <1>0, <1>3, <1>k, <2>2, StaysCovered DEF RunHook
  <2>. QED
    BY <1>3, <2>1, <2>2 DEF RunHook
<1>4. CASE BatchEnd
  <2>1. CASE Abort
    BY <1>4, <2>1, EndedCovered DEF BatchEnd, Abort, ClearFinal, world
  <2>2. CASE Return /\ halt = 0
    BY <1>0, <1>4, <1>c, <2>2, LeftCovered DEF BatchEnd, world
  <2>. QED
    BY <1>4, <2>1, <2>2 DEF BatchEnd
<1>. QED
    BY <1>1, <1>2, <1>3, <1>4

\* Every step keeps the coverage invariant.
LEMMA NextCovered ==
  ASSUME Base, Covered, [Next]_vars
  PROVE  Base' /\ Covered'
<1>1. Handled \subseteq Handled' /\ conf' = conf
    BY HandledGrows, SameConfig
<1>2. Base'
    BY <1>1, NextControl, NextRouting, NextBound DEF Base
<1>3. CASE UNCHANGED vars
  <2>1. CheckpointCovers' /\ NothingLost' /\ CompletedRunHandledAll'
    BY <1>3 DEF vars, lane, final, world, Covered, CheckpointCovers, NothingLost, Excused,
       CompletedRunHandledAll, Handled
  <2>2. CurrentCovers'
    BY <1>3 DEF vars, lane, final, world, Covered, CurrentCovers, Handled
  <2>3. QED
    BY <1>2, <2>1, <2>2 DEF Covered
<1>4. CASE Cancel \/ Crash
    BY <1>1, <1>2, <1>4, EndedCovered DEF Cancel, Crash, Abort, ClearFinal, world
<1>. QED
    BY <1>1, <1>2, <1>3, <1>4, PullCovered, DrainCovered, WriteCovered, RouteCovered,
       ResolveCovered, CommitCovered DEF Next, LaneStep, Finished

\* The coverage invariant holds in every state.
LEMMA CoverageInvariant == Trusted(conf) /\ Spec => [](Base /\ Covered)
<1>1. Init => Covered
    BY DEF Init, WorldInit, Covered, CheckpointCovers, NothingLost, CurrentCovers,
       CompletedRunHandledAll, Busy
<1>2. Init /\ Trusted(conf) => Base
    BY InitControl, InitRouting DEF Base
<1>3. Base /\ Covered /\ [Next]_vars => (Base /\ Covered)'
    BY NextCovered
<1>4. QED
    BY <1>1, <1>2, <1>3, PTL DEF Spec

\* The stored position has nothing unhandled at or below it, although it is always
\* the end of a batch whose records may have fared differently.
THEOREM CheckpointIsCovered == Trusted(conf) /\ Spec => []CheckpointCovers
<1>1. Covered => CheckpointCovers
    BY DEF Covered
<1>2. QED
    BY <1>1, CoverageInvariant, PTL

\* A run that reports completion has handled every record of every batch.
THEOREM CompletionIsComplete == Trusted(conf) /\ Spec => []CompletedRunHandledAll
<1>1. Covered => CompletedRunHandledAll
    BY DEF Covered
<1>2. QED
    BY <1>1, CoverageInvariant, PTL

\* What the lane promises of the store.
Contract == INSTANCE CheckpointContract WITH handled <- Handled, ckpt <- durable

\* The batch lane implements CheckpointContract: a step handles records, saves a
\* covered position, or does not show.
THEOREM KeepsTheContract == Trusted(conf) /\ Spec => Contract!Spec
<1>1. Init => Contract!Init
    BY DEF Init, WorldInit, Contract!Init, Handled
<1>2. ASSUME Base, Covered, Base', [Next]_vars
      PROVE  [Contract!Next]_(Contract!vars)
  <2> USE <1>2 DEF Contract!Next, Contract!vars, Contract!Handle, Contract!Save
  <2>1. Handled \subseteq Handled' /\ Handled' \in SUBSET (1..N)
    BY HandledGrows DEF Base, Control, Typed, WorldTypeOK, Position, Handled
  <2>2. CASE UNCHANGED durable
    BY <2>1, <2>2
  <2>3. CASE Persist /\ durable' # durable
    <3>1. Handled' = Handled
      BY <2>3 DEF Persist, Handled
    <3>2. QED
      BY <2>3, <3>1, SavedIsCovered
  <2>4. QED
    BY <2>2, <2>3 DEF Next, StartRun, Pull, Submit, PrefixFinalizes, SourceEnds, LaneStep, LoopHead,
       PopHead, LeaveDrain, FinalEnd, Resolve, WriteAccepted, WriteMixed, WriteRaises, WriteFenced,
       RouteOne, RouteEnd, ResolveOne, CommitOutcomes, RunHook, BatchEnd, CompleteFuture, FenceLost,
       Cancel, Crash, Finished, vars, world
<1>3. QED
    BY <1>1, <1>2, CoverageInvariant, PTL DEF Spec, Contract!Spec

=============================================================================
