------------------------- MODULE BatchedLane_proofs -------------------------
(***************************************************************************)
(* Theorems about BatchedLane, for every number of records, every set of   *)
(* configurations and every number of runs.                                *)
(***************************************************************************)
EXTENDS BatchedLane, Delivery_proofs

USE NAssumption, ConfigsAssumption, MaxRunsAssumption
    DEF NAssumption, ConfigsAssumption, MaxRunsAssumption

-----------------------------------------------------------------------------
(* Type and control.                                                       *)

\* TypeOK by the task or structure the variables belong to.
PumpT ==
  /\ pc \in Halted \cup Busy /\ run \in 0..MaxRuns /\ next \in 1..(N + 1)
  /\ stage \in {"none", "middleware"} /\ pdue \in 0..N /\ fate \in {"none", "ok", "error"}

QueueT == pending \subseteq Position /\ count \in Nat /\ last \in 0..N

FlushT ==
  /\ fl \in {"none", "write", "resolve", "route", "persist", "hooks"}
  /\ batch \subseteq Position /\ todo \subseteq batch /\ part \subseteq batch
  /\ acks \subseteq batch /\ halt \in 0..N /\ due \in 0..N

OwnerT ==
  /\ own \in Alive \cup {"none", "ended", "error"}
  /\ notify \in BOOLEAN /\ stop \in BOOLEAN /\ flushed \in BOOLEAN /\ timed \in BOOLEAN

\* The lane's task is in the loop over the source.
Looping == {"pull", "route", "save", "ack", "capacity", "await"}

\* The record being dropped is one of the source's.
CursorOK == pc \in {"route", "save", "ack"} => next <= N

\* A flush has a batch, and belongs to the owner task or to a lane that waits
\* for it with an empty queue and has no owner task.
FlushOK ==
  /\ fl = "none" => batch = {}
  /\ fl = "write" => batch # {} /\ halt = 0 /\ due = 0 /\ acks = {}
  /\ fl = "route" => todo # {} /\ halt = 0
  /\ own = "flush" => fl # "none"
  /\ fl # "none" /\ own # "flush" => pc = "flush" /\ own = "none" /\ pending = {}
  /\ pc = "flush" => fl # "none" /\ own = "none"

\* The owner task exists once something was queued in its mode, and only there;
\* told to stop, it is being waited for, and it ends on an empty queue.
OwnerOK ==
  /\ conf.flush # "owner" => own = "none"
  /\ conf.flush = "owner" /\ own = "none" /\ pc \in Busy => pending = {}
  /\ pc \in Looping \cup {"flush"} => ~stop
  /\ stop /\ own \in Alive \cup {"ended"} => pc = "close"
  /\ own = "ended" => stop /\ pending = {} /\ fl = "none"
  /\ pc = "close" => own # "none"
  /\ pc \in {"done", "failed", "idle"} => own = "none"

\* The source loop has an outcome exactly when it is over.
FateOK ==
  /\ pc \in Looping => fate = "none"
  /\ fate = "ok" => next = N + 1
  /\ pc \in {"close", "done"} => fate # "none"
  /\ pc = "done" => fate = "ok"

Typed   == WorldTypeOK /\ PumpT /\ QueueT /\ FlushT /\ OwnerT
Control == Typed /\ CursorOK /\ FlushOK /\ OwnerOK /\ FateOK

\* The parts make up TypeOK.
LEMMA TypedIsTypeOK == Typed <=> TypeOK
<1> USE DEF Typed, TypeOK
<1>1. Typed => TypeOK
    BY DEF PumpT, QueueT, FlushT, OwnerT
<1>2. TypeOK => PumpT /\ QueueT
    BY DEF PumpT, QueueT
<1>3. TypeOK => FlushT /\ OwnerT
    BY DEF FlushT, OwnerT
<1>. QED
    BY <1>1, <1>2, <1>3

\* First returns the least of a nonempty set of positions.
LEMMA FirstIn ==
  ASSUME NEW S, S \subseteq Position, S # {}
  PROVE  First(S) \in S /\ First(S) \in 1..N /\ \A q \in S : First(S) <= q
<1>0. S \subseteq Nat
    BY DEF Position
<1>1. \E p \in S : \A q \in S : p <= q
    BY <1>0, LeastPosition
<1>2. QED
    BY <1>1 DEF First, Position

\* A queue of the size of a batch is not empty.
LEMMA FullIsNotEmpty ==
  ASSUME conf \in Configs, AtCapacity({}) PROVE FALSE
BY FS_EmptySet DEF AtCapacity, ConfigType

\* The initial states.
LEMMA InitControl == Init => Control
<1> SUFFICES ASSUME Init PROVE Control
    OBVIOUS
<1> USE DEF Init, WorldInit, Halted, Busy, Alive
<1>1. WorldTypeOK
    BY DEF WorldTypeOK, Position
<1>2. PumpT /\ QueueT
    BY DEF PumpT, QueueT
<1>3. FlushT
    BY DEF FlushT
<1>4. OwnerT
    BY DEF OwnerT
<1>5. QED
    BY <1>1, <1>2, <1>3, <1>4 DEF Control, Typed, CursorOK, FlushOK, OwnerOK, FateOK, Looping

\* A flush that ends hands over to whoever started it.
LEMMA FlushEndsControl ==
  ASSUME Control, fl # "none", NEW f \in BOOLEAN, FlushEndsWith(f), WorldTypeOK',
         count' \in Nat, last' \in 0..N
  PROVE  Control'
<1> USE DEF Control, Typed, FlushEndsWith, Halted, Busy, Alive, Looping
<1>1. PumpT'
    BY DEF PumpT
<1>2. QueueT'
    BY DEF QueueT
<1>3. FlushT'
    BY DEF FlushT
<1>4. OwnerT'
    BY DEF OwnerT
<1>5. CursorOK'
    BY DEF CursorOK, PumpT
<1>6. FlushOK'
    BY DEF FlushOK, PumpT
<1>7. OwnerOK'
    BY DEF OwnerOK, FlushOK, PumpT
<1>8. FateOK'
    BY DEF FateOK, FlushOK, PumpT
<1>. QED
    BY <1>1, <1>2, <1>3, <1>4, <1>5, <1>6, <1>7, <1>8

\* A flush that goes on to another stage leaves the tasks where they are.
LEMMA FlushGoesOn ==
  ASSUME Control, fl # "none", fl' # "none", WorldTypeOK', FlushT',
         UNCHANGED <<conf, pump, pending, owner>>, count' \in Nat, last' \in 0..N,
         batch' = batch,
         fl' = "write" => fl = "write" /\ UNCHANGED <<halt, due, acks>>,
         fl' = "route" => todo' # {} /\ halt' = 0
  PROVE  Control'
<1> USE DEF Control, Typed, pump, owner
<1>1. PumpT' /\ QueueT' /\ OwnerT' /\ CursorOK' /\ FateOK'
    BY DEF PumpT, QueueT, OwnerT, CursorOK, FateOK
<1>2. FlushOK'
    BY DEF FlushOK
<1>3. OwnerOK'
    BY DEF OwnerOK
<1>. QED
    BY <1>1, <1>2, <1>3

\* The writer's answer.
LEMMA WriteControl ==
  ASSUME Control, WriteAccepted \/ WriteMixed \/ WriteRaises \/ WriteFenced
  PROVE  Control'
<1> USE DEF Control, Typed
<1>1. CASE WriteAccepted
  <2>1. count' \in Nat /\ due' \in 0..N
    BY <1>1, CountedNat, LastDueIn, BatchEndDueIn DEF WriteAccepted, QueueT, FlushT
  <2>2. WorldTypeOK'
    BY <1>1 DEF WriteAccepted, WorldTypeOK, FlushT
  <2>3. FlushT'
    BY <1>1, <2>1 DEF WriteAccepted, FlushT
  <2>4. QED
    BY <1>1, <2>1, <2>2, <2>3, FlushGoesOn DEF WriteAccepted, QueueT
<1>2. CASE WriteMixed
  <2>1. WorldTypeOK'
    BY <1>2 DEF WriteMixed, WorldTypeOK, FlushT
  <2>2. FlushT'
    BY <1>2 DEF WriteMixed, FlushT
  <2>3. QED
    BY <1>2, <2>1, <2>2, FlushGoesOn DEF WriteMixed, QueueT, ckst
<1>3. CASE WriteRaises
  <2>1. WorldTypeOK'
    BY <1>3 DEF WriteRaises, WorldTypeOK, world
  <2>2. FlushT'
    BY <1>3 DEF WriteRaises, FlushT
  <2>3. QED
    BY <1>3, <2>1, <2>2, FlushGoesOn DEF WriteRaises, QueueT, ckst, FlushOK
<1>4. CASE WriteFenced
  <2>1. WorldTypeOK'
    BY <1>4 DEF WriteFenced, WorldTypeOK, world, FlushEndsWith
  <2>2. QED
    BY <1>4, <2>1, FlushEndsControl DEF WriteFenced, QueueT, ckst
<1>. QED
    BY <1>1, <1>2, <1>3, <1>4

\* The record a failing flush looks at is one of the batch.
LEMMA TodoIn ==
  ASSUME Control, todo # {}
  PROVE  First(todo) \in todo /\ First(todo) \in batch /\ First(todo) \in Position
         /\ First(todo) \in 0..N /\ {First(todo)} \subseteq Position
         /\ \A q \in todo : First(todo) <= q
<1>1. todo \subseteq batch /\ batch \subseteq Position
    BY DEF Control, Typed, FlushT
<1>2. First(todo) \in todo /\ First(todo) \in 1..N /\ \A q \in todo : First(todo) <= q
    BY <1>1, FirstIn
<1>3. QED
    BY <1>1, <1>2

\* Routing the failures of a batch, one record at a time.
LEMMA RouteControl ==
  ASSUME Control, ResolveOne \/ PrepareOutcomes \/ RouteOne
  PROVE  Control'
<1> USE DEF Control, Typed
<1>1. CASE ResolveOne
  <2> DEFINE p == First(todo)
  <2>1. p \in todo /\ p \in batch /\ p \in Position /\ p \in 0..N
    BY <1>1, TodoIn DEF ResolveOne
  <2>2. PICK r \in Routes :
          /\ dead' = dead \cup Captured(r, {p})
          /\ \/ /\ Continues(r)
                /\ skipped' = skipped \cup GivenUp(r, {p})
                /\ acks' = acks \cup (IF AckDue(r, p \in part) THEN {p} ELSE {})
                /\ todo' = todo \ {p}
                /\ UNCHANGED <<halt, pump, own, flushed, fl, batch, part, due>>
             \/ /\ r = "unrouted" /\ ~Continues(r)
                /\ halt' = IF halt = 0 THEN p ELSE halt
                /\ todo' = todo \ {p}
                /\ UNCHANGED <<skipped, acks, pump, own, flushed, fl, batch, part, due>>
             \/ /\ r = "raised"
                /\ FlushEndsWith(TRUE)
                /\ UNCHANGED skipped
    BY <1>1 DEF ResolveOne
  <2>3. WorldTypeOK'
    BY <1>1, <2>1, <2>2 DEF ResolveOne, WorldTypeOK, Captured, GivenUp
  <2>4. CASE FlushEndsWith(TRUE)
    BY <1>1, <2>3, <2>4, FlushEndsControl DEF ResolveOne, QueueT, ckst
  <2>5. CASE r # "raised"
    <3>1. UNCHANGED <<pump, own, flushed, fl, batch, part, due>> /\ todo' = todo \ {p}
      BY <2>2, <2>5
    <3>2. acks' \subseteq batch /\ halt' \in 0..N
      BY <2>1, <2>2, <2>5 DEF FlushT
    <3>3. FlushT'
      BY <3>1, <3>2 DEF FlushT
    <3>4. QED
      BY <1>1, <2>3, <3>1, <3>3, FlushGoesOn DEF ResolveOne, QueueT, ckst, owner
  <2>. QED
    BY <2>2, <2>4, <2>5 DEF Continues
<1>2. CASE PrepareOutcomes
  <2>1. StopAt(batch, halt) \subseteq Position
    BY DEF StopAt, FlushT
  <2>2. count' \in Nat /\ due' \in 0..N
    BY <1>2, <2>1, CountedNat, LastDueIn DEF PrepareOutcomes, QueueT, FlushT
  <2>3. WorldTypeOK'
    BY <1>2 DEF PrepareOutcomes, WorldTypeOK, world
  <2>4. FlushT'
    BY <1>2, <2>2 DEF PrepareOutcomes, FlushT
  <2>5. QED
    BY <1>2, <2>2, <2>3, <2>4, FlushGoesOn DEF PrepareOutcomes, QueueT
<1>3. CASE RouteOne
  <2> DEFINE p == First(todo)
  <2>1. p \in todo /\ p \in batch /\ p \in Position /\ p \in 0..N /\ {p} \subseteq Position
    BY <1>3, TodoIn DEF RouteOne, FlushOK
  <2>2. PICK r \in Routes :
          /\ dead' = dead \cup Captured(r, {p})
          /\ \/ /\ Continues(r)
                /\ skipped' = skipped \cup GivenUp(r, {p})
                /\ count' = Counted(count, {p})
                /\ due' = IF LastDue(count, last, {p}) # 0 THEN p ELSE due
                /\ acks' = acks \cup (IF AckDue(r, FALSE) THEN {p} ELSE {})
                /\ todo' = todo \ {p}
                /\ fl' = IF todo' = {} THEN "persist" ELSE "route"
                /\ UNCHANGED <<halt, pump, own, flushed, batch, part>>
             \/ /\ r = "unrouted" /\ ~Continues(r)
                /\ halt' = p /\ fl' = "persist"
                /\ UNCHANGED <<skipped, todo, acks, count, due, pump, own, flushed, batch, part>>
             \/ /\ r = "raised"
                /\ FlushEndsWith(TRUE)
                /\ UNCHANGED <<skipped, count>>
    BY <1>3 DEF RouteOne
  <2>3. WorldTypeOK'
    BY <1>3, <2>1, <2>2 DEF RouteOne, WorldTypeOK, Captured, GivenUp
  <2>4. count' \in Nat /\ last' \in 0..N
    BY <1>3, <2>1, <2>2, CountedNat DEF RouteOne, QueueT
  <2>5. CASE FlushEndsWith(TRUE)
    BY <1>3, <2>3, <2>4, <2>5, FlushEndsControl DEF RouteOne
  <2>6. CASE r # "raised"
    <3>1. /\ UNCHANGED <<pump, own, flushed, batch, part>>
          /\ \/ fl' = "persist" /\ todo' = todo
             \/ /\ todo' = todo \ {p} /\ halt' = halt
                /\ fl' = IF todo' = {} THEN "persist" ELSE "route"
      BY <2>2, <2>6
    <3>2. acks' \subseteq batch /\ halt' \in 0..N /\ due' \in 0..N
      BY <2>1, <2>2, <2>6 DEF FlushT
    <3>3. FlushT'
      BY <3>1, <3>2 DEF FlushT
    <3>4. UNCHANGED <<conf, pump, pending, owner>> /\ fl' # "none" /\ fl' # "write"
      BY <1>3, <3>1 DEF RouteOne, owner
    <3>5. fl' = "route" => todo' # {} /\ halt' = 0
      BY <1>3, <3>1 DEF RouteOne, FlushOK
    <3>6. QED
      BY <1>3, <2>3, <2>4, <3>1, <3>3, <3>4, <3>5, FlushGoesOn DEF RouteOne
  <2>. QED
    BY <2>2, <2>5, <2>6 DEF Continues
<1>. QED
    BY <1>1, <1>2, <1>3

\* The end of a flush: checkpoint, hooks, return.
LEMMA CommitControl ==
  ASSUME Control, PersistBatch \/ RunHook \/ FlushReturns
  PROVE  Control'
<1> USE DEF Control, Typed
<1>1. CASE PersistBatch
  <2>1. WorldTypeOK' /\ count' \in Nat /\ last' \in 0..N
    BY <1>1 DEF PersistBatch, WorldTypeOK, FlushT, QueueT, FlushEndsWith
  <2>2. CASE FlushEndsWith(TRUE)
    BY <1>1, <2>1, <2>2, FlushEndsControl DEF PersistBatch
  <2>3. CASE fl' = "hooks" /\ UNCHANGED <<pump, own, flushed, batch, todo, part, acks, halt, due>>
    <3>1. FlushT'
      BY <2>3 DEF FlushT
    <3>2. QED
      BY <1>1, <2>1, <2>3, <3>1, FlushGoesOn DEF PersistBatch, owner
  <2>. QED
    BY <1>1, <2>2, <2>3 DEF PersistBatch
<1>2. CASE RunHook
  <2>1. First(acks) \in Position
    BY <1>2, FirstIn DEF RunHook, FlushT
  <2>2. WorldTypeOK' /\ count' \in Nat /\ last' \in 0..N
    BY <1>2, <2>1 DEF RunHook, WorldTypeOK, QueueT, ckst
  <2>3. CASE FlushEndsWith(TRUE)
    BY <1>2, <2>2, <2>3, FlushEndsControl DEF RunHook
  <2>4. CASE /\ UNCHANGED <<pump, own, flushed, fl, batch, todo, part, halt, due>>
             /\ acks' = acks \ {First(acks)}
    <3>1. FlushT'
      BY <2>4 DEF FlushT
    <3>2. QED
      BY <1>2, <2>2, <2>4, <3>1, FlushGoesOn DEF RunHook, owner
  <2>. QED
    BY <1>2, <2>3, <2>4 DEF RunHook
<1>3. CASE FlushReturns
  <2>1. WorldTypeOK'
    BY <1>3 DEF FlushReturns, WorldTypeOK, world, FlushEndsWith
  <2>2. QED
    BY <1>3, <2>1, FlushEndsControl DEF FlushReturns, QueueT, ckst
<1>. QED
    BY <1>1, <1>2, <1>3

\* The source loop ends: the owner task is told to close, or what is queued is
\* flushed, or the run is over.
LEMMA EndLoopControl ==
  ASSUME Control, pc \in Looping, NEW f \in {"ok", "error"}, EndLoop(f),
         f = "ok" => next = N + 1, WorldTypeOK',
         stage' \in {"none", "middleware"}, pdue' \in 0..N
  PROVE  Control'
<1> USE DEF Control, Typed, Looping, Halted, Busy, Alive
<1>0. fl # "none" => own = "flush"
    BY DEF FlushOK
<1>1. CASE own # "none"
  <2>1. /\ pc' = "close" /\ fate' = f /\ stop' = TRUE /\ notify' = TRUE
        /\ UNCHANGED <<pending, flush, conf, ckst, run, next, own, flushed, timed>>
    BY <1>1 DEF EndLoop, SignalClose
  <2>2. PumpT' /\ QueueT' /\ FlushT' /\ OwnerT'
    BY <2>1 DEF PumpT, QueueT, FlushT, OwnerT, flush, ckst
  <2>3. CursorOK' /\ FlushOK' /\ FateOK'
    BY <1>0, <1>1, <2>1 DEF CursorOK, FlushOK, FateOK, flush
  <2>4. OwnerOK'
    BY <1>1, <2>1 DEF OwnerOK, flush
  <2>5. QED
    BY <2>2, <2>3, <2>4
<1>2. CASE own = "none" /\ pending # {}
  <2>1. /\ pc' = "flush" /\ fate' = f /\ TakeBatch
        /\ UNCHANGED <<stop, notify, conf, ckst, run, next, own, flushed, timed>>
    BY <1>2 DEF EndLoop
  <2>2. PumpT' /\ QueueT' /\ OwnerT'
    BY <2>1 DEF PumpT, QueueT, OwnerT, TakeBatch, ckst
  <2>3. FlushT'
    BY <2>1 DEF QueueT, FlushT, TakeBatch
  <2>4. CursorOK' /\ FlushOK' /\ FateOK'
    BY <1>2, <2>1 DEF CursorOK, FlushOK, FateOK, TakeBatch
  <2>5. OwnerOK'
    BY <1>2, <2>1 DEF OwnerOK, TakeBatch
  <2>6. QED
    BY <2>2, <2>3, <2>4, <2>5
<1>3. CASE own = "none" /\ pending = {}
  <2>1. /\ pc' = (IF f = "ok" THEN "done" ELSE "failed") /\ fate' = f
        /\ UNCHANGED <<pending, flush, stop, notify, conf, ckst, run, next, own, flushed, timed>>
    BY <1>3 DEF EndLoop
  <2>2. PumpT' /\ QueueT' /\ FlushT' /\ OwnerT'
    BY <2>1 DEF PumpT, QueueT, FlushT, OwnerT, flush, ckst
  <2>3. CursorOK' /\ FlushOK' /\ FateOK'
    BY <1>0, <1>3, <2>1 DEF CursorOK, FlushOK, FateOK, flush
  <2>4. OwnerOK'
    BY <1>3, <2>1 DEF OwnerOK, flush
  <2>5. QED
    BY <2>2, <2>3, <2>4
<1>. QED
    BY <1>1, <1>2, <1>3

\* A process that has just started, or has just died.
LEMMA FreshControl ==
  ASSUME Control, Fresh, UNCHANGED <<conf, world>>, pc' \in {"pull", "idle"},
         run' \in 0..MaxRuns, next' \in 1..(N + 1)
  PROVE  Control'
<1> USE DEF Control, Typed, Fresh, Halted, Busy, Alive, Looping
<1>1. WorldTypeOK'
    BY DEF WorldTypeOK, world
<1>2. PumpT' /\ QueueT'
    BY DEF PumpT, QueueT
<1>3. FlushT'
    BY DEF FlushT
<1>4. OwnerT'
    BY DEF OwnerT
<1>5. CursorOK' /\ FlushOK' /\ OwnerOK' /\ FateOK'
    BY DEF CursorOK, FlushOK, OwnerOK, FateOK
<1>. QED
    BY <1>1, <1>2, <1>3, <1>4, <1>5

\* The lane's task moves on in the loop; flush and owner task are not touched.
LEMMA LoopControl ==
  ASSUME Control, pc \in Looping, pc' \in Looping, WorldTypeOK',
         UNCHANGED <<conf, run, fate, pending, flush, owner>>,
         next' \in 1..(N + 1), stage' \in {"none", "middleware"}, pdue' \in 0..N,
         count' \in Nat, last' \in 0..N, CursorOK'
  PROVE  Control'
<1> USE DEF Control, Typed, Halted, Busy, Alive, Looping, flush, owner
<1>1. PumpT' /\ QueueT'
    BY DEF PumpT, QueueT
<1>2. FlushT' /\ OwnerT'
    BY DEF FlushT, OwnerT
<1>3. FlushOK'
    BY DEF FlushOK
<1>4. OwnerOK'
    BY DEF OwnerOK
<1>5. FateOK'
    BY DEF FateOK
<1>. QED
    BY <1>1, <1>2, <1>3, <1>4, <1>5

\* The start of a run.
LEMMA StartControl == ASSUME Control, StartRun PROVE Control'
<1>1. next' \in 1..(N + 1)
    BY DEF Control, Typed, StartRun, ResumeValues, ResumePosition, WorldTypeOK
<1>2. run' \in 0..MaxRuns
    BY DEF Control, Typed, StartRun, PumpT
<1>3. QED
    BY <1>1, <1>2, FreshControl DEF StartRun

\* A record is queued: for the owner task, or for an inline flush that starts
\* when the queue is full.
LEMMA EnqueueControl == ASSUME Control, Enqueue PROVE Control'
<1> USE DEF Control, Typed, Halted, Busy, Alive, Looping
<1>0. next \in Position /\ next' = next + 1 /\ next' \in 1..(N + 1) /\ pc = "pull"
    BY DEF Enqueue, PumpT, Position
<1>1. WorldTypeOK'
    BY DEF Enqueue, WorldTypeOK, world
<1>2. CASE conf.flush = "owner"
  <2>1. /\ pending' = pending \cup {next} /\ own' = (IF own = "none" THEN "check" ELSE own)
        /\ flushed' = FALSE /\ notify' = TRUE /\ pc' \in {"capacity", "pull"}
        /\ UNCHANGED <<flush, conf, world, run, stage, pdue, fate, ckst, stop, timed>>
    BY <1>2 DEF Enqueue
  <2>2. PumpT' /\ QueueT'
    BY <1>0, <2>1 DEF PumpT, QueueT, ckst
  <2>3. FlushT' /\ OwnerT'
    BY <2>1 DEF FlushT, OwnerT, flush
  <2>4. own # "ended" /\ (own \in Alive => ~stop)
    BY <1>0 DEF OwnerOK, OwnerT
  <2>5. CursorOK' /\ FlushOK' /\ FateOK'
    BY <1>0, <2>1 DEF CursorOK, FlushOK, FateOK, flush, PumpT
  <2>6. OwnerOK'
    BY <1>0, <1>2, <2>1, <2>4 DEF OwnerOK, flush, OwnerT
  <2>7. QED
    BY <1>1, <2>2, <2>3, <2>5, <2>6
<1>3. CASE conf.flush # "owner" /\ AtCapacity(pending \cup {next})
  <2>1. /\ batch' = pending \cup {next} /\ pending' = {} /\ fl' = "write" /\ pc' = "flush"
        /\ todo' = {} /\ part' = {} /\ acks' = {} /\ halt' = 0 /\ due' = 0
        /\ UNCHANGED <<own, flushed, notify, conf, world, run, stage, pdue, fate, ckst, stop,
                       timed>>
    BY <1>3 DEF Enqueue
  <2>2. PumpT' /\ QueueT' /\ OwnerT'
    BY <1>0, <2>1 DEF PumpT, QueueT, OwnerT, ckst
  <2>3. FlushT'
    BY <1>0, <2>1 DEF FlushT, QueueT
  <2>4. CursorOK' /\ FlushOK' /\ FateOK'
    BY <1>0, <1>3, <2>1 DEF CursorOK, FlushOK, OwnerOK, FateOK, PumpT
  <2>5. OwnerOK'
    BY <1>0, <1>3, <2>1 DEF OwnerOK
  <2>6. QED
    BY <1>1, <2>2, <2>3, <2>4, <2>5
<1>4. CASE conf.flush # "owner" /\ ~AtCapacity(pending \cup {next})
  <2>1. /\ pending' = pending \cup {next} /\ pc' = "pull"
        /\ UNCHANGED <<flush, own, flushed, notify, conf, world, run, stage, pdue, fate, ckst,
                       stop, timed>>
    BY <1>0, <1>4 DEF Enqueue
  <2>2. PumpT' /\ QueueT' /\ OwnerT'
    BY <1>0, <2>1 DEF PumpT, QueueT, OwnerT, ckst
  <2>3. FlushT'
    BY <2>1 DEF FlushT, flush
  <2>4. CursorOK' /\ FlushOK' /\ FateOK'
    BY <1>0, <1>4, <2>1 DEF CursorOK, FlushOK, OwnerOK, FateOK, PumpT, flush
  <2>5. OwnerOK'
    BY <1>0, <1>4, <2>1 DEF OwnerOK, flush
  <2>6. QED
    BY <1>1, <2>2, <2>3, <2>4, <2>5
<1>. QED
    BY <1>2, <1>3, <1>4

\* The other steps of the lane's task in the loop.
LEMMA PumpControl ==
  ASSUME Control,
         \/ EndOfStream \/ SourceFails \/ CheckCapacity \/ AwaitFlushed
         \/ DropRecord \/ MiddlewareFails \/ RouteDropped \/ PersistDropped \/ AckDropped
  PROVE  Control'
<1> USE DEF Control, Typed
<1>t. /\ conf \in Configs /\ next \in 1..(N + 1) /\ stage \in {"none", "middleware"}
      /\ pdue \in 0..N /\ count \in Nat /\ last \in 0..N
    BY DEF WorldTypeOK, PumpT, QueueT
<1>1. CASE EndOfStream \/ SourceFails
  <2>1. WorldTypeOK'
    BY <1>1 DEF EndOfStream, SourceFails, EndLoop, WorldTypeOK, world
  <2>2. CASE EndOfStream
    BY <1>t, <2>1, <2>2, EndLoopControl DEF EndOfStream, Looping
  <2>3. CASE SourceFails
    BY <1>t, <2>1, <2>3, EndLoopControl DEF SourceFails, Looping
  <2>. QED
    BY <1>1, <2>2, <2>3
<1>2. CASE CheckCapacity
  <2>1. WorldTypeOK'
    BY <1>2 DEF CheckCapacity, EndLoop, WorldTypeOK, world
  <2>2. CASE EndLoop("error")
    BY <1>2, <1>t, <2>1, <2>2, EndLoopControl DEF CheckCapacity, Looping
  <2>3. CASE /\ pc' \in {"pull", "await"}
             /\ UNCHANGED <<conf, run, next, fate, pending, ckst, flush, owner>>
    <3>1. CursorOK'
      BY <2>3 DEF CursorOK
    <3>2. QED
      BY <1>2, <1>t, <2>1, <2>3, <3>1, LoopControl DEF CheckCapacity, Looping, ckst
  <2>. QED
    BY <1>2, <2>2, <2>3 DEF CheckCapacity
<1>3. CASE AwaitFlushed
  <2>1. WorldTypeOK' /\ CursorOK'
    BY <1>3 DEF AwaitFlushed, WorldTypeOK, world, CursorOK
  <2>2. QED
    BY <1>3, <1>t, <2>1, LoopControl DEF AwaitFlushed, Looping, ckst
<1>4. CASE DropRecord
  <2>1. next \in Position
    BY <1>4, <1>t DEF DropRecord, Position
  <2>2. WorldTypeOK' /\ CursorOK'
    BY <1>4, <2>1 DEF DropRecord, WorldTypeOK, CursorOK, Position
  <2>3. count' \in Nat /\ pdue' \in 0..N
    BY <1>4, <1>t, <2>1, CountedNat, LastDueIn DEF DropRecord
  <2>4. QED
    BY <1>4, <1>t, <2>2, <2>3, LoopControl DEF DropRecord, Looping
<1>5. CASE MiddlewareFails
  <2>1. WorldTypeOK' /\ CursorOK'
    BY <1>5 DEF MiddlewareFails, WorldTypeOK, world, CursorOK
  <2>2. QED
    BY <1>5, <1>t, <2>1, LoopControl DEF MiddlewareFails, Looping, ckst
<1>6. CASE RouteDropped
  <2>1. next \in Position /\ next <= N /\ {next} \subseteq Position
    BY <1>6, <1>t DEF RouteDropped, CursorOK, Position
  <2>2. PICK r \in Routes :
          /\ dead' = dead \cup Captured(r, {next})
          /\ \/ /\ r = "routed" \/ (r = "unrouted" /\ ~conf.dlq)
                /\ dropped' = IF conf.dlq THEN dropped ELSE dropped \cup {next}
                /\ count' = Counted(count, {next})
                /\ pdue' = LastDue(count, last, {next})
                /\ pc' = "save"
                /\ UNCHANGED <<skipped, next, run, fate, conf, pending, last, flush, owner>>
             \/ /\ r = "unrouted" /\ conf.dlq /\ ~conf.store
                /\ skipped' = skipped \cup {next}
                /\ pc' = "pull" /\ next' = next + 1
                /\ UNCHANGED <<dropped, count, pdue, run, fate, conf, pending, last, flush, owner>>
             \/ /\ r = "raised" \/ (r = "unrouted" /\ conf.dlq /\ conf.store)
                /\ EndLoop("error")
                /\ UNCHANGED <<dropped, skipped, pdue>>
    BY <1>6 DEF RouteDropped
  <2>3. WorldTypeOK' /\ stage' = "none"
    BY <1>6, <2>1, <2>2 DEF RouteDropped, WorldTypeOK, Captured, EndLoop
  <2>4. CASE pc' = "save" /\ UNCHANGED <<next, run, fate, conf, pending, last, flush, owner>>
             /\ count' = Counted(count, {next}) /\ pdue' = LastDue(count, last, {next})
    <3>1. count' \in Nat /\ pdue' \in 0..N
      BY <1>t, <2>1, <2>4, CountedNat, LastDueIn
    <3>2. CursorOK'
      BY <2>1, <2>4 DEF CursorOK
    <3>3. QED
      BY <1>6, <1>t, <2>3, <2>4, <3>1, <3>2, LoopControl DEF RouteDropped, Looping
  <2>5. CASE pc' = "pull" /\ next' = next + 1
             /\ UNCHANGED <<count, pdue, run, fate, conf, pending, last, flush, owner>>
    <3>1. CursorOK' /\ next' \in 1..(N + 1)
      BY <1>t, <2>1, <2>5 DEF CursorOK
    <3>2. QED
      BY <1>6, <1>t, <2>3, <2>5, <3>1, LoopControl DEF RouteDropped, Looping
  <2>6. CASE EndLoop("error") /\ UNCHANGED pdue
    BY <1>6, <1>t, <2>3, <2>6, EndLoopControl DEF RouteDropped, Looping
  <2>. QED
    BY <2>2, <2>4, <2>5, <2>6
<1>7. CASE PersistDropped
  <2>1. WorldTypeOK' /\ pdue' = 0
    BY <1>7, <1>t DEF PersistDropped, WorldTypeOK, EndLoop
  <2>2. CASE EndLoop("error")
    BY <1>7, <1>t, <2>1, <2>2, EndLoopControl DEF PersistDropped, Looping
  <2>3. CASE pc' = "ack" /\ UNCHANGED <<conf, count, run, next, fate, pending, flush, owner>>
             /\ last' \in {last, pdue}
    <3>1. CursorOK'
      BY <1>7, <2>3 DEF PersistDropped, CursorOK
    <3>2. QED
      BY <1>7, <1>t, <2>1, <2>3, <3>1, LoopControl DEF PersistDropped, Looping
  <2>. QED
    BY <1>7, <2>2, <2>3 DEF PersistDropped, ckst
<1>8. CASE AckDropped
  <2>1. next \in Position /\ next <= N
    BY <1>8, <1>t DEF AckDropped, CursorOK, Position
  <2>2. WorldTypeOK'
    BY <1>8, <2>1 DEF AckDropped, WorldTypeOK, EndLoop
  <2>3. CASE EndLoop("error")
    BY <1>8, <1>t, <2>2, <2>3, EndLoopControl DEF AckDropped, Looping
  <2>4. CASE pc' = "pull" /\ next' = next + 1
             /\ UNCHANGED <<conf, ckst, run, fate, pending, flush, owner>>
    <3>1. CursorOK' /\ next' \in 1..(N + 1)
      BY <1>t, <2>1, <2>4 DEF CursorOK
    <3>2. QED
      BY <1>8, <1>t, <2>2, <2>4, <3>1, LoopControl DEF AckDropped, Looping, ckst
  <2>. QED
    BY <1>8, <2>3, <2>4 DEF AckDropped
<1>. QED
    BY <1>1, <1>2, <1>3, <1>4, <1>5, <1>6, <1>7, <1>8

\* The owner task takes a queue that is not empty, or goes on looking.
LEMMA OwnerMoves ==
  ASSUME Control, own \in {"check", "wait"}, UNCHANGED <<conf, world, pump, ckst, stop, flushed>>,
         notify' \in BOOLEAN, timed' \in BOOLEAN,
         \/ own' = "flush" /\ TakeBatch /\ pending # {}
         \/ /\ own' \in {"check", "wait"} \/ (own' = "ended" /\ stop /\ pending = {})
            /\ UNCHANGED <<pending, flush>>
  PROVE  Control'
<1> USE DEF Control, Typed, Halted, Busy, Alive, Looping, pump, ckst, flush
<1>0. fl = "none" /\ pc # "flush"
    BY DEF FlushOK
<1>1. WorldTypeOK'
    BY DEF WorldTypeOK, world
<1>2. PumpT'
    BY DEF PumpT
<1>3. OwnerT'
    BY DEF OwnerT
<1>4. CursorOK' /\ FateOK'
    BY DEF CursorOK, FateOK
<1>5. CASE own' = "flush" /\ TakeBatch /\ pending # {}
  <2>1. QueueT' /\ FlushT'
    BY <1>5 DEF QueueT, FlushT, TakeBatch
  <2>2. FlushOK'
    BY <1>0, <1>5 DEF FlushOK, TakeBatch
  <2>3. OwnerOK'
    BY <1>5 DEF OwnerOK, TakeBatch
  <2>4. QED
    BY <1>1, <1>2, <1>3, <1>4, <2>1, <2>2, <2>3
<1>6. CASE UNCHANGED <<pending, flush>>
           /\ (own' \in {"check", "wait"} \/ (own' = "ended" /\ stop /\ pending = {}))
  <2>1. QueueT' /\ FlushT'
    BY <1>6 DEF QueueT, FlushT
  <2>2. FlushOK'
    BY <1>0, <1>6 DEF FlushOK
  <2>3. OwnerOK'
    BY <1>0, <1>6 DEF OwnerOK
  <2>4. QED
    BY <1>1, <1>2, <1>3, <1>4, <2>1, <2>2, <2>3
<1>. QED
    BY <1>5, <1>6

\* The owner task's loop.
LEMMA OwnerControl == ASSUME Control, OwnerStep PROVE Control'
<1>t. /\ conf \in Configs /\ notify \in BOOLEAN /\ timed \in BOOLEAN
      /\ stop \in BOOLEAN /\ flushed \in BOOLEAN
    BY DEF Control, Typed, WorldTypeOK, OwnerT
<1>1. CASE OwnerLoop
  <2>1. timed' \in BOOLEAN /\ notify' \in BOOLEAN
    BY <1>1, <1>t DEF OwnerLoop, WaitIsTimed
  <2>2. AtCapacity(pending) => pending # {}
    BY <1>t, FullIsNotEmpty
  <2>3. QED
    BY <1>1, <2>1, <2>2, OwnerMoves DEF OwnerLoop
<1>2. CASE OwnerNotified
    BY <1>2, <1>t, OwnerMoves DEF OwnerNotified
<1>3. CASE OwnerTimeout
    BY <1>3, <1>t, OwnerMoves DEF OwnerTimeout
<1>. QED
    BY <1>1, <1>2, <1>3 DEF OwnerStep

\* The run is over: the owner task is closed, the run cancelled, or the process
\* dead.
LEMMA EndControl ==
  ASSUME Control, OwnerClosed \/ Cancel \/ Crash
  PROVE  Control'
<1> USE DEF Control, Typed, Halted, Busy, Alive, Looping
<1>1. CASE OwnerClosed
  <2>0. fl = "none" /\ fate # "none"
    BY <1>1 DEF OwnerClosed, FlushOK, FateOK
  <2>1. WorldTypeOK' /\ PumpT' /\ QueueT'
    BY <1>1 DEF OwnerClosed, WorldTypeOK, world, PumpT, QueueT, ckst
  <2>2. FlushT' /\ OwnerT'
    BY <1>1 DEF OwnerClosed, FlushT, OwnerT, flush
  <2>3. CursorOK' /\ FlushOK' /\ OwnerOK' /\ FateOK'
    BY <1>1, <2>0 DEF OwnerClosed, CursorOK, FlushOK, OwnerOK, FateOK, PumpT, flush
  <2>4. QED
    BY <2>1, <2>2, <2>3
<1>2. CASE Cancel
  <2>1. WorldTypeOK' /\ PumpT' /\ CursorOK' /\ FateOK'
    BY <1>2 DEF Cancel, WorldTypeOK, world, PumpT, CursorOK, FateOK
  <2>2. CASE own \in Alive /\ pc # "close"
    <3>1. UNCHANGED <<conf, pending, flush, owner, ckst>> /\ pc' = "cancelled"
      BY <1>2, <2>2 DEF Cancel
    <3>2. QueueT' /\ FlushT' /\ OwnerT'
      BY <3>1 DEF QueueT, FlushT, OwnerT, ckst, flush, owner
    <3>3. FlushOK' /\ OwnerOK'
      BY <2>2, <3>1 DEF FlushOK, OwnerOK, flush, owner
    <3>4. QED
      BY <2>1, <3>2, <3>3
  <2>3. CASE ~(own \in Alive /\ pc # "close")
    <3>1. QueueT' /\ OwnerT'
      BY <1>2, <2>3 DEF Cancel, QueueT, OwnerT, ckst
    <3>2. FlushT'
      BY <1>2, <2>3 DEF Cancel, FlushT
    <3>3. FlushOK' /\ OwnerOK'
      BY <1>2, <2>3 DEF Cancel, FlushOK, OwnerOK
    <3>4. QED
      BY <2>1, <3>1, <3>2, <3>3
  <2>. QED
    BY <2>2, <2>3
<1>3. CASE Crash
    BY <1>3, FreshControl DEF Crash, PumpT
<1>. QED
    BY <1>1, <1>2, <1>3

\* Control is inductive.
LEMMA NextControl == Control /\ [Next]_vars => Control'
<1> SUFFICES ASSUME Control, [Next]_vars PROVE Control'
    OBVIOUS
<1>1. CASE FlushStep
    BY <1>1, WriteControl, RouteControl, CommitControl DEF FlushStep
<1>2. CASE StartRun
    BY <1>2, StartControl
<1>3. CASE Pull \/ SourceFails
    BY <1>3, EnqueueControl, PumpControl DEF Pull
<1>4. CASE PumpStep
    BY <1>4, PumpControl, EndControl DEF PumpStep
<1>5. CASE OwnerStep
    BY <1>5, OwnerControl
<1>6. CASE Crash \/ Cancel
    BY <1>6, EndControl
<1>7. CASE UNCHANGED vars
  <2> USE <1>7 DEF vars, world, pump, ckst, flush, owner, Control, Typed
  <2>1. WorldTypeOK' /\ PumpT' /\ QueueT'
    BY DEF WorldTypeOK, PumpT, QueueT
  <2>2. FlushT' /\ OwnerT'
    BY DEF FlushT, OwnerT
  <2>3. CursorOK' /\ FlushOK' /\ OwnerOK' /\ FateOK'
    BY DEF CursorOK, FlushOK, OwnerOK, FateOK
  <2>4. QED
    BY <2>1, <2>2, <2>3
<1>. QED
    BY <1>1, <1>2, <1>3, <1>4, <1>5, <1>6, <1>7 DEF Next, Finished

\* The control invariant holds throughout.
LEMMA ControlHolds == Spec => []Control
BY InitControl, NextControl, PTL DEF Spec

\* TypeOK is an invariant of the lane with a write queue.
THEOREM TypeCorrect == Spec => []TypeOK
<1>1. Control => TypeOK
    BY TypedIsTypeOK DEF Control
<1>2. QED
    BY <1>1, ControlHolds, PTL

-----------------------------------------------------------------------------
(* The queue's limit. *)

\* The lane pulls, and handles a dropped record, only below the limit.
BoundInv ==
  /\ QueueBounded
  /\ pc \in {"pull", "route", "save", "ack"} => ~AtCapacity(pending)

\* Queue and batch are measured in natural numbers.
LEMMA Sizes ==
  ASSUME Control
  PROVE  /\ conf.batch \in Nat \ {0} /\ Cardinality({}) = 0
         /\ Cardinality(pending) \in Nat /\ Cardinality(batch) \in Nat
         /\ Cardinality(pending \cup {next}) \in Nat
         /\ Cardinality(pending \cup {next}) <= Cardinality(pending) + 1
<1>1. conf.batch \in Nat \ {0} /\ pending \subseteq Position /\ batch \subseteq Position
    BY DEF Control, Typed, WorldTypeOK, ConfigType, QueueT, FlushT
<1>2. IsFiniteSet(pending) /\ Cardinality(pending) \in Nat /\ Cardinality(batch) \in Nat
    BY <1>1, CountedNat
<1>3. Cardinality(pending \cup {next})
        = IF next \in pending THEN Cardinality(pending) ELSE Cardinality(pending) + 1
    BY <1>2, FS_AddElement
<1>4. Cardinality({}) = 0
    BY FS_EmptySet
<1>5. /\ Cardinality(pending \cup {next}) \in Nat
      /\ Cardinality(pending \cup {next}) <= Cardinality(pending) + 1
    BY <1>2, <1>3
<1>. QED
    BY <1>1, <1>2, <1>4, <1>5

\* The configuration is fixed at the start.
LEMMA SameConfig == [Next]_vars => conf' = conf
BY DEF Next, StartRun, Pull, Enqueue, DropRecord, MiddlewareFails, EndOfStream, SourceFails,
   PumpStep, CheckCapacity, AwaitFlushed, RouteDropped, PersistDropped, AckDropped,
   OwnerClosed, FlushStep, WriteAccepted, WriteMixed, WriteRaises, WriteFenced, ResolveOne,
   PrepareOutcomes, RouteOne, PersistBatch, RunHook, FlushReturns, FlushEndsWith, OwnerStep,
   OwnerLoop, OwnerNotified, OwnerTimeout, Crash, Cancel, Finished, vars, EndLoop

\* Every step keeps queue and batch within writer_batch_size.
LEMMA NextBound == Control /\ BoundInv /\ [Next]_vars => BoundInv'
<1> SUFFICES ASSUME Control, BoundInv, [Next]_vars PROVE BoundInv'
    OBVIOUS
<1> USE DEF BoundInv, QueueBounded
<1>s. /\ conf.batch \in Nat \ {0}
      /\ Cardinality(pending) \in Nat /\ Cardinality(batch) \in Nat
    BY Sizes
<1>z. \A S : S = {} => Cardinality(S) = 0
    BY Sizes, Zenon
<1>n. \A S : S = pending \cup {next} =>
                Cardinality(S) \in Nat /\ Cardinality(S) <= Cardinality(pending) + 1
    BY Sizes, Zenon
<1>c. conf' = conf
    BY SameConfig
<1>e. ASSUME pc \in Looping, EndLoop("ok") \/ EndLoop("error") PROVE BoundInv'
    BY <1>e, <1>s, <1>z, <1>c DEF EndLoop, TakeBatch, Looping, flush
<1>1. CASE FlushStep
  <2>1. CASE \E f \in BOOLEAN : FlushEndsWith(f)
    <3>1. fl # "none" /\ (own # "flush" => pending = {})
      BY <1>1 DEF FlushStep, WriteAccepted, WriteMixed, WriteRaises, WriteFenced, ResolveOne,
         PrepareOutcomes, RouteOne, PersistBatch, RunHook, FlushReturns, Control, FlushOK
    <3>2. pending' = pending /\ batch' = {} /\ (own = "flush" => pc' = pc)
      BY <2>1 DEF FlushEndsWith
    <3>3. QED
      BY <3>1, <3>2, <1>s, <1>z, <1>c DEF AtCapacity
  <2>2. CASE UNCHANGED <<pending, batch, pc>>
    BY <2>2, <1>c DEF AtCapacity
  <2>. QED
    BY <1>1, <2>1, <2>2 DEF FlushStep, WriteAccepted, WriteMixed, WriteRaises, WriteFenced,
       ResolveOne, PrepareOutcomes, RouteOne, PersistBatch, RunHook, FlushReturns, pump
<1>2. CASE StartRun \/ Crash
    BY <1>2, <1>s, <1>z, <1>c DEF StartRun, Crash, Fresh, AtCapacity
<1>3. CASE Enqueue
    BY SMTT(60), <1>3, <1>s, <1>z, <1>n, <1>c DEF Enqueue, AtCapacity, flush
<1>4. CASE EndOfStream \/ SourceFails
    BY <1>4, <1>e DEF EndOfStream, SourceFails, Looping
<1>5. CASE DropRecord \/ MiddlewareFails \/ AwaitFlushed
    BY <1>5, <1>c DEF DropRecord, MiddlewareFails, AwaitFlushed, AtCapacity, flush
<1>6. CASE CheckCapacity
    BY <1>6, <1>e, <1>c DEF CheckCapacity, AtCapacity, flush, Looping
<1>7. CASE RouteDropped
    BY <1>7, <1>e, <1>c DEF RouteDropped, AtCapacity, flush, Looping
<1>8. CASE PersistDropped
    BY <1>8, <1>e, <1>c DEF PersistDropped, AtCapacity, flush, Looping
<1>9. CASE AckDropped
    BY <1>9, <1>e, <1>c DEF AckDropped, AtCapacity, flush, Looping
<1>10. CASE OwnerClosed \/ Cancel
    BY <1>10, <1>s, <1>z, <1>c DEF OwnerClosed, Cancel, flush
<1>11. CASE OwnerStep
    BY <1>11, <1>s, <1>z, <1>c DEF OwnerStep, OwnerLoop, OwnerNotified, OwnerTimeout, TakeBatch,
       AtCapacity, flush, pump
<1>12. CASE UNCHANGED vars
    BY <1>12, <1>c DEF vars, AtCapacity, flush, pump
<1>. QED
    BY <1>1, <1>2, <1>3, <1>4, <1>5, <1>6, <1>7, <1>8, <1>9, <1>10, <1>11, <1>12
       DEF Next, Pull, PumpStep, Finished

\* writer_batch_size bounds the queue and the batch in every configuration, also
\* while the lane pulls beside an owner task that writes.
THEOREM QueueIsBounded == Spec => []QueueBounded
<1>1. Init => BoundInv
  <2> SUFFICES ASSUME Init PROVE BoundInv
    OBVIOUS
  <2>1. Control
    BY InitControl
  <2>2. QED
    BY <2>1, Sizes DEF Init, BoundInv, QueueBounded, AtCapacity
<1>2. BoundInv => QueueBounded
    BY DEF BoundInv
<1>3. QED
    BY <1>1, <1>2, NextBound, ControlHolds, PTL DEF Spec

-----------------------------------------------------------------------------
(* Acknowledgements. *)

Accounted == written \cup dead \cup dropped

\* The hooks still to run belong to records that are accounted for, and so does
\* the dropped record whose hook comes next.
AckedInv ==
  /\ AckedIsAccountedFor /\ acks \subseteq Accounted /\ part \subseteq written
  /\ pc \in {"save", "ack"} => next \in Accounted

\* A record that is accounted for stays so.
LEMMA AccountedGrows ==
  [Next]_vars => written \subseteq written' /\ dead \subseteq dead' /\ dropped \subseteq dropped'
                 /\ skipped \subseteq skipped'
<1> SUFFICES ASSUME [Next]_vars
             PROVE  written \subseteq written' /\ dead \subseteq dead' /\ dropped \subseteq dropped'
                    /\ skipped \subseteq skipped'
    OBVIOUS
<1>1. CASE WriteAccepted \/ WriteMixed \/ ResolveOne \/ RouteOne
    BY <1>1 DEF WriteAccepted, WriteMixed, ResolveOne, RouteOne
<1>2. CASE DropRecord \/ RouteDropped
    BY <1>2 DEF DropRecord, RouteDropped
<1>3. CASE UNCHANGED <<written, dead, dropped, skipped>>
    BY <1>3
<1>. QED
    BY <1>1, <1>2, <1>3 DEF Next, StartRun, Pull, Enqueue, MiddlewareFails, EndOfStream,
       SourceFails, PumpStep, CheckCapacity, AwaitFlushed, PersistDropped, AckDropped,
       OwnerClosed, FlushStep, WriteRaises, WriteFenced, PrepareOutcomes, PersistBatch,
       RunHook, FlushReturns, OwnerStep, OwnerLoop, OwnerNotified, OwnerTimeout, Crash, Cancel,
       Finished, vars, world

\* Every step keeps the acknowledgement invariant: a hook is carried only by an
\* outcome that accounts for its record, and is lost rather than moved on.
LEMMA NextAcked == Control /\ AckedInv /\ [Next]_vars => AckedInv'
<1> SUFFICES ASSUME Control, AckedInv, [Next]_vars PROVE AckedInv'
    OBVIOUS
<1>g. written \subseteq written' /\ Accounted \subseteq Accounted'
    BY AccountedGrows DEF Accounted
<1> USE DEF AckedInv, AckedIsAccountedFor
<1>k. ASSUME acked' \subseteq acked, acks' \subseteq acks, part' \subseteq part,
             pc' \in {"save", "ack"} => pc \in {"save", "ack"} /\ next' = next
      PROVE  AckedInv'
    BY <1>g, <1>k DEF Accounted
<1>f. ASSUME NEW f \in BOOLEAN, FlushEndsWith(f), fl # "none", acked' = acked PROVE AckedInv'
    BY <1>f, <1>k DEF FlushEndsWith
<1>e. ASSUME pc \in Looping, EndLoop("ok") \/ EndLoop("error"), acked' = acked PROVE AckedInv'
    BY <1>e, <1>k DEF EndLoop, TakeBatch, flush
<1>1. CASE WriteAccepted
    BY <1>1, <1>g DEF WriteAccepted, Accounted, pump
<1>2. CASE WriteMixed
    BY <1>2, <1>g DEF WriteMixed, Accounted, pump
<1>3. CASE WriteRaises \/ WriteFenced \/ PrepareOutcomes \/ FlushReturns
    BY <1>3, <1>k, <1>f DEF WriteRaises, WriteFenced, PrepareOutcomes, FlushReturns, pump, world
<1>4. CASE ResolveOne
  <2>1. CASE FlushEndsWith(TRUE)
    BY <1>4, <2>1, <1>f DEF ResolveOne
  <2>2. CASE ~FlushEndsWith(TRUE)
    BY ZenonT(90), <1>4, <2>2, <1>g DEF ResolveOne, Captured, AckDue, Accounted, pump
  <2>. QED
    BY <2>1, <2>2
<1>5. CASE RouteOne
  <2>1. CASE FlushEndsWith(TRUE)
    BY <1>5, <2>1, <1>f DEF RouteOne
  <2>2. CASE ~FlushEndsWith(TRUE)
    BY <1>5, <2>2, <1>g DEF RouteOne, Captured, AckDue, Accounted, pump
  <2>. QED
    BY <2>1, <2>2
<1>6. CASE PersistBatch
    BY <1>6, <1>f, <1>k DEF PersistBatch, pump
<1>7. CASE RunHook
  <2>1. First(acks) \in acks
    BY <1>7, FirstIn DEF RunHook, Control, Typed, FlushT
  <2>2. CASE FlushEndsWith(TRUE) /\ UNCHANGED acked
    BY <1>7, <2>2, <1>f DEF RunHook
  <2>3. CASE acked' = acked \cup {First(acks)} /\ acks' = acks \ {First(acks)}
             /\ UNCHANGED <<pump, part>>
    <3>1. First(acks) \in Accounted'
        BY <2>1, <1>g
    <3>2. acked' \subseteq Accounted'
        BY <3>1, <2>3, <1>g DEF Accounted
    <3>3. acks' \subseteq Accounted' /\ part' \subseteq written'
        BY <2>3, <1>g
    <3>4. pc' \in {"save", "ack"} => next' \in Accounted'
        BY <2>3, <1>g DEF pump
    <3>. QED
        BY <3>2, <3>3, <3>4 DEF Accounted
  <2>. QED
    BY <1>7, <2>2, <2>3 DEF RunHook
<1>8. CASE StartRun \/ Crash
    BY <1>8, <1>k DEF StartRun, Crash, Fresh, world
<1>9. CASE Enqueue \/ MiddlewareFails \/ AwaitFlushed \/ OwnerClosed \/ Cancel
    BY <1>9, <1>k DEF Enqueue, MiddlewareFails, AwaitFlushed, OwnerClosed, Cancel, world, flush
<1>10. CASE EndOfStream \/ SourceFails \/ CheckCapacity
    BY <1>10, <1>e, <1>k DEF EndOfStream, SourceFails, CheckCapacity, Looping, world, flush
<1>11. CASE DropRecord
    BY <1>11, <1>g DEF DropRecord, Accounted, flush
<1>12. CASE RouteDropped
  <2>1. CASE EndLoop("error")
    BY <1>12, <2>1, <1>e DEF RouteDropped, Looping
  <2>2. CASE ~EndLoop("error")
    BY <1>12, <2>2, <1>g DEF RouteDropped, Captured, Accounted, flush
  <2>. QED
    BY <2>1, <2>2
<1>13. CASE PersistDropped
    BY <1>13, <1>e, <1>k DEF PersistDropped, Looping, flush
<1>14. CASE AckDropped
  <2>1. CASE EndLoop("error") /\ UNCHANGED acked
    BY <1>14, <2>1, <1>e DEF AckDropped, Looping
  <2>2. CASE acked' = acked \cup {next} /\ pc' = "pull" /\ UNCHANGED flush
    <3>1. acked' \subseteq Accounted'
        BY <1>14, <2>2, <1>g DEF AckDropped, Accounted
    <3>2. acks' \subseteq Accounted' /\ part' \subseteq written' /\ pc' \notin {"save", "ack"}
        BY <2>2, <1>g DEF flush
    <3>. QED
        BY <3>1, <3>2 DEF Accounted
  <2>. QED
    BY <1>14, <2>1, <2>2 DEF AckDropped
<1>15. CASE OwnerStep
    BY <1>15, <1>k DEF OwnerStep, OwnerLoop, OwnerNotified, OwnerTimeout, TakeBatch, flush,
       pump, world
<1>16. CASE UNCHANGED vars
    BY <1>16, <1>k DEF vars, world, pump, flush
<1>. QED
    BY <1>1, <1>2, <1>3, <1>4, <1>5, <1>6, <1>7, <1>8, <1>9, <1>10, <1>11, <1>12, <1>13, <1>14,
       <1>15, <1>16 DEF Next, Pull, PumpStep, FlushStep, Finished

\* The source is told only about records that were written, captured by the DLQ
\* or dropped; a failing batch acknowledges nothing past the record it stops at
\* unless that record itself was accounted for.
THEOREM AcknowledgedIsAccountedFor == Spec => []AckedIsAccountedFor
<1>1. Init => AckedInv
    BY DEF Init, WorldInit, AckedInv, AckedIsAccountedFor, Accounted
<1>2. AckedInv => AckedIsAccountedFor
    BY DEF AckedInv
<1>3. QED
    BY <1>1, <1>2, NextAcked, ControlHolds, PTL DEF Spec

-----------------------------------------------------------------------------
(* Coverage.  The stored position covers what lies below it only because   *)
(* the queue and the batch are an interval in front of the cursor, and a   *)
(* dropped record overtakes that interval (see the run DropOvertakesQueue):*)
(* the theorems below are about the configurations in which no checkpoint  *)
(* can be due for a dropped record.                                        *)

\* There is no store, or the chain neither drops nor fails.
KeepsOrder(c) == c.store => c.mw \subseteq {"value"}

\* The state is not one that a failure or a crash has left behind.
Going == (pc \in Busy \/ own \in Alive) /\ own # "error"

\* Behind the cursor, a record is handled, queued or in the batch.
NothingLost == Going => 1..(next - 1) \subseteq Handled \cup pending \cup batch

\* The queue lies behind the cursor, and the batch in front of the queue.
QueueInOrder ==
  /\ \A p \in pending \cup batch : p < next
  /\ \A p \in batch, q \in pending : p < q

\* What a flush has dealt with so far is handled, up to the record it will stop at.
FlushCovers ==
  /\ fl \in {"persist", "hooks"} /\ halt = 0 => batch \subseteq Handled
  /\ fl = "route" => batch \ todo \subseteq Handled
  /\ fl = "resolve" => /\ \A p \in batch \ todo : p \in Handled \/ (halt # 0 /\ halt <= p)
                       /\ halt # 0 => \A p \in todo : halt < p

\* A checkpoint that is due, or was saved, has nothing unhandled below it.
DueCovers ==
  /\ CheckpointCovers
  /\ fl \in {"route", "persist"} => 1..due \subseteq Handled
  /\ pdue = 0

\* A record is dropped only without a store, and handled when its commit starts.
DropCovers ==
  /\ conf.store => pc \notin {"route", "save", "ack"}
  /\ pc \in {"save", "ack"} => next \in Handled

Covered ==
  /\ NothingLost /\ QueueInOrder /\ FlushCovers /\ DueCovers /\ DropCovers
  /\ CompletedRunHandledAll

\* A terminal outcome is never taken back, in this run or a later one.
LEMMA HandledGrows == [Next]_vars => Handled \subseteq Handled'
BY AccountedGrows DEF Handled

\* A flush that ends well has handled its batch; one that fails ends the run or
\* leaves the owner task in error.
LEMMA FlushEndsCovered ==
  ASSUME Control, Covered, Handled \subseteq Handled', fl # "none", durable' = durable,
         NEW f \in BOOLEAN, FlushEndsWith(f), ~f => fl = "hooks" /\ halt = 0
  PROVE  Covered'
<1> USE DEF Control, Typed, Covered, FlushEndsWith
<1>1. NothingLost'
    BY DEF NothingLost, Going, FlushCovers, FlushOK, PumpT, Halted, Busy, Alive
<1>2. QueueInOrder'
    BY DEF QueueInOrder
<1>3. FlushCovers' /\ DueCovers'
    BY DEF FlushCovers, DueCovers, CheckpointCovers
<1>4. DropCovers'
    BY DEF DropCovers
<1>5. CompletedRunHandledAll'
  <2>1. SUFFICES ASSUME pc' = "done" PROVE Position \subseteq Handled'
    BY DEF CompletedRunHandledAll
  <2>2. CASE pc = "done"
    BY <2>2 DEF CompletedRunHandledAll
  <2>3. CASE pc # "done"
    <3>1. own # "flush" /\ ~f /\ fate = "ok"
      BY <2>1, <2>3
    <3>2. next = N + 1 /\ pending = {} /\ pc = "flush" /\ own = "none"
      BY <3>1 DEF FateOK, FlushOK
    <3>3. batch \subseteq Handled /\ 1..(next - 1) \subseteq Handled \cup pending \cup batch
      BY <3>1, <3>2 DEF FlushCovers, NothingLost, Going, Busy
    <3>4. QED
      BY <3>2, <3>3 DEF Position
  <2>4. QED
    BY <2>2, <2>3
<1>. QED
    BY <1>1, <1>2, <1>3, <1>4, <1>5

\* A flush that goes on disturbs only what is said about the flush.
LEMMA FlushGoesOnCovered ==
  ASSUME Covered, Handled \subseteq Handled', FlushCovers', DueCovers',
         UNCHANGED <<conf, pump, pending, batch, own>>
  PROVE  Covered'
<1> USE DEF Covered, pump
<1>1. NothingLost' /\ QueueInOrder'
    BY DEF NothingLost, QueueInOrder, Going
<1>2. DropCovers' /\ CompletedRunHandledAll'
    BY DEF DropCovers, CompletedRunHandledAll
<1>. QED
    BY <1>1, <1>2

\* While a batch is flushed, whatever lies below one of its records is handled
\* or in the batch too.
LEMMA BelowBatch ==
  ASSUME Control, Covered, fl # "none", NEW d \in batch, NEW q \in 1..d
  PROVE  q \in Handled \/ q \in batch
<1>1. Going
    BY DEF Control, FlushOK, Going, Busy, Alive
<1>2. d \in 1..N /\ d < next /\ next \in 1..(N + 1) /\ pending \subseteq 1..N
    BY DEF Control, Typed, FlushT, PumpT, QueueT, Position, Covered, QueueInOrder
<1>3. q \in 1..(next - 1)
    BY <1>2
<1>4. q \in Handled \cup pending \cup batch
    BY <1>1, <1>3 DEF Covered, NothingLost
<1>5. q \notin pending
    BY <1>2 DEF Covered, QueueInOrder
<1>. QED
    BY <1>4, <1>5

\* The source loop ends.
LEMMA EndLoopCovered ==
  ASSUME Control, Covered, Handled \subseteq Handled', pc \in Looping, durable' = durable,
         NEW f \in {"ok", "error"}, EndLoop(f), f = "ok" => next = N + 1, pdue' = 0
  PROVE  Covered'
<1> USE DEF Control, Typed, Covered, EndLoop, TakeBatch, SignalClose, flush
<1>0. own = "none" => fl = "none" /\ batch = {}
    BY DEF FlushOK, Looping
<1>p. pc \in Busy /\ pc # "done"
    BY DEF Looping, Busy
<1>1. NothingLost'
    BY <1>0, <1>p DEF NothingLost, Going, Busy, Alive
<1>2. QueueInOrder'
    BY <1>0 DEF QueueInOrder
<1>3. FlushCovers'
    BY DEF FlushCovers
<1>4. DueCovers'
    BY DEF DueCovers, CheckpointCovers
<1>5. DropCovers'
    BY DEF DropCovers
<1>6. CompletedRunHandledAll'
  <2>1. SUFFICES ASSUME pc' = "done" PROVE Position \subseteq Handled'
    BY DEF CompletedRunHandledAll
  <2>2. own = "none" /\ pending = {} /\ f = "ok"
    BY <2>1
  <2>3. 1..(next - 1) \subseteq Handled \cup pending \cup batch /\ next = N + 1
    BY <1>p, <2>2 DEF NothingLost, Going
  <2>4. QED
    BY <1>0, <2>2, <2>3 DEF Position
<1>. QED
    BY <1>1, <1>2, <1>3, <1>4, <1>5, <1>6

\* The lane's task moves on in the loop, at most past a record that is handled.
LEMMA LoopCovered ==
  ASSUME Control, Covered, Handled \subseteq Handled', pc \in Looping, pc' \in Looping,
         UNCHANGED <<pending, flush, own>>, durable' = durable, pdue' = 0,
         next' = next \/ (next' = next + 1 /\ next \in Handled'), DropCovers'
  PROVE  Covered'
<1> USE DEF Control, Typed, PumpT, Covered, flush
<1>1. NothingLost'
  <2>1. SUFFICES ASSUME Going' PROVE 1..(next' - 1) \subseteq Handled' \cup pending \cup batch
    BY DEF NothingLost
  <2>2. 1..(next - 1) \subseteq Handled \cup pending \cup batch
    BY <2>1 DEF NothingLost, Going, Looping, Busy
  <2>3. QED
    BY <2>2
<1>2. QueueInOrder'
    BY DEF QueueInOrder, QueueT, FlushT, Position
<1>3. FlushCovers'
    BY DEF FlushCovers
<1>4. DueCovers'
    BY DEF DueCovers, CheckpointCovers
<1>5. CompletedRunHandledAll'
    BY DEF CompletedRunHandledAll, Looping
<1>. QED
    BY <1>1, <1>2, <1>3, <1>4, <1>5

\* The writer's answer.
LEMMA WriteCovered ==
  ASSUME Control, Covered, Handled \subseteq Handled',
         WriteAccepted \/ WriteMixed \/ WriteRaises \/ WriteFenced
  PROVE  Covered'
<1> USE DEF Control, Typed
<1>1. CASE WriteAccepted
  <2>1. batch' \subseteq Handled' /\ fl' = "persist"
    BY <1>1 DEF WriteAccepted, Handled
  <2>2. due' = 0 \/ due' \in batch
    BY <1>1, LastDueIn, BatchEndDueIn DEF WriteAccepted, FlushT, QueueT
  <2>3. 1..due' \subseteq Handled'
    <3>1. CASE due' = 0
      BY <3>1
    <3>2. CASE due' \in batch
      <4>1. SUFFICES ASSUME NEW q \in 1..due' PROVE q \in Handled'
        OBVIOUS
      <4>2. q \in Handled \/ q \in batch
        BY <1>1, <3>2, BelowBatch DEF WriteAccepted
      <4>3. QED
        BY <1>1, <2>1, <4>2 DEF WriteAccepted
    <3>3. QED
      BY <2>2, <3>1, <3>2
  <2>4. FlushCovers'
    BY <2>1 DEF FlushCovers
  <2>5. DueCovers'
    BY <1>1, <2>3 DEF WriteAccepted, Covered, DueCovers, CheckpointCovers, pump
  <2>6. QED
    BY <1>1, <2>4, <2>5, FlushGoesOnCovered DEF WriteAccepted, owner
<1>2. CASE WriteMixed
  <2>1. batch \ todo' \subseteq Handled' /\ fl' = "resolve" /\ halt' = 0 /\ batch' = batch
    BY <1>2 DEF WriteMixed, Handled, FlushOK
  <2>2. FlushCovers'
    BY <2>1 DEF FlushCovers
  <2>3. DueCovers'
    BY <1>2, <2>1 DEF WriteMixed, Covered, DueCovers, CheckpointCovers, pump
  <2>4. QED
    BY <1>2, <2>2, <2>3, FlushGoesOnCovered DEF WriteMixed, owner
<1>3. CASE WriteRaises
  <2>1. due = 0
    BY <1>3 DEF WriteRaises, FlushOK
  <2>2. FlushCovers'
    BY <1>3 DEF WriteRaises, FlushCovers
  <2>3. DueCovers'
    BY <1>3, <2>1 DEF WriteRaises, Covered, DueCovers, CheckpointCovers, pump, world
  <2>4. QED
    BY <1>3, <2>2, <2>3, FlushGoesOnCovered DEF WriteRaises, owner
<1>4. CASE WriteFenced
    BY <1>4, FlushEndsCovered DEF WriteFenced, world
<1>. QED
    BY <1>1, <1>2, <1>3, <1>4

\* _resolve_write_result: a record that could not be delivered is captured,
\* given up, or becomes the one the batch stops at.
LEMMA ResolveCovered ==
  ASSUME Control, Covered, Handled \subseteq Handled', ResolveOne
  PROVE  Covered'
<1> USE DEF Control, Typed
<1> DEFINE p == First(todo)
<1>1. p \in todo /\ p \in batch /\ p \in 1..N /\ \A q \in todo : p <= q
    BY TodoIn DEF ResolveOne, Position
<1>t. todo \subseteq 1..N /\ batch \subseteq 1..N /\ halt \in 0..N
    BY DEF FlushT, Position
<1>2. PICK r \in Routes :
        /\ dead' = dead \cup Captured(r, {p})
        /\ \/ /\ Continues(r)
              /\ skipped' = skipped \cup GivenUp(r, {p})
              /\ acks' = acks \cup (IF AckDue(r, p \in part) THEN {p} ELSE {})
              /\ todo' = todo \ {p}
              /\ UNCHANGED <<halt, pump, own, flushed, fl, batch, part, due>>
           \/ /\ r = "unrouted" /\ ~Continues(r)
              /\ halt' = IF halt = 0 THEN p ELSE halt
              /\ todo' = todo \ {p}
              /\ UNCHANGED <<skipped, acks, pump, own, flushed, fl, batch, part, due>>
           \/ /\ r = "raised"
              /\ FlushEndsWith(TRUE)
              /\ UNCHANGED skipped
    BY DEF ResolveOne
<1>3. CASE FlushEndsWith(TRUE)
    BY <1>3, FlushEndsCovered DEF ResolveOne
<1>4. CASE r # "raised"
  <2>1. todo' = todo \ {p} /\ UNCHANGED <<pump, own, fl, batch, due, durable>>
    BY <1>2, <1>4 DEF ResolveOne
  <2>2. \/ p \in Handled' /\ halt' = halt
        \/ halt' = IF halt = 0 THEN p ELSE halt
    BY <1>2, <1>4 DEF Continues, Captured, GivenUp, Handled
  <2>3. FlushCovers'
    <3>1. ASSUME NEW x \in batch \ todo' PROVE x \in Handled' \/ (halt' # 0 /\ halt' <= x)
      BY <1>1, <1>t, <2>1, <2>2, <3>1 DEF Covered, FlushCovers, ResolveOne
    <3>2. halt' # 0 => \A x \in todo' : halt' < x
      BY <1>1, <1>t, <2>1, <2>2 DEF Covered, FlushCovers, ResolveOne
    <3>3. QED
      BY <2>1, <3>1, <3>2 DEF FlushCovers, ResolveOne
  <2>4. DueCovers'
    BY <2>1 DEF Covered, DueCovers, CheckpointCovers, pump, ResolveOne
  <2>5. QED
    BY <2>1, <2>3, <2>4, FlushGoesOnCovered DEF ResolveOne
<1>. QED
    BY <1>2, <1>3, <1>4 DEF Continues

\* commit_outcomes: what is due lies before the record the batch stops at.
LEMMA PrepareCovered ==
  ASSUME Control, Covered, Handled \subseteq Handled', PrepareOutcomes
  PROVE  Covered'
<1> USE DEF Control, Typed
<1> DEFINE S == StopAt(batch, halt)
<1>t. batch \subseteq 1..N /\ halt \in 0..N
    BY DEF FlushT, Position
<1>1. S \subseteq batch /\ (halt # 0 => \A x \in S : x < halt)
    BY <1>t DEF StopAt
<1>2. due' = 0 \/ due' \in S
    BY <1>1, LastDueIn DEF PrepareOutcomes, FlushT, QueueT
<1>3. \A x \in batch : x \in Handled \/ (halt # 0 /\ halt <= x)
    BY DEF PrepareOutcomes, Covered, FlushCovers
<1>4. 1..due' \subseteq Handled
  <2>1. CASE due' = 0
    BY <2>1
  <2>2. CASE due' \in S
    <3>1. SUFFICES ASSUME NEW q \in 1..due' PROVE q \in Handled
      OBVIOUS
    <3>2. q \in Handled \/ q \in batch
      BY <1>1, <2>2, BelowBatch DEF PrepareOutcomes
    <3>3. due' \in 1..N /\ (halt # 0 => due' < halt)
      BY <1>1, <1>t, <2>2
    <3>4. QED
      BY <1>3, <1>t, <3>2, <3>3
  <2>3. QED
    BY <1>2, <2>1, <2>2
<1>5. FlushCovers'
    BY <1>3 DEF FlushCovers, PrepareOutcomes
<1>6. DueCovers'
    BY <1>4 DEF Covered, DueCovers, CheckpointCovers, pump, world, PrepareOutcomes
<1>. QED
    BY <1>5, <1>6, FlushGoesOnCovered DEF PrepareOutcomes, owner

\* flush_batch_outcomes: each record is handled before the next is looked at.
LEMMA RouteCovered ==
  ASSUME Control, Covered, Handled \subseteq Handled', RouteOne
  PROVE  Covered'
<1> USE DEF Control, Typed
<1> DEFINE p == First(todo)
<1>1. p \in todo /\ p \in batch /\ p \in 1..N /\ \A q \in todo : p <= q
    BY TodoIn DEF RouteOne, FlushOK, Position
<1>t. todo \subseteq 1..N /\ batch \subseteq 1..N /\ fl = "route" /\ halt = 0
    BY DEF FlushT, Position, FlushOK, RouteOne
<1>2. PICK r \in Routes :
        /\ dead' = dead \cup Captured(r, {p})
        /\ \/ /\ Continues(r)
              /\ skipped' = skipped \cup GivenUp(r, {p})
              /\ count' = Counted(count, {p})
              /\ due' = IF LastDue(count, last, {p}) # 0 THEN p ELSE due
              /\ acks' = acks \cup (IF AckDue(r, FALSE) THEN {p} ELSE {})
              /\ todo' = todo \ {p}
              /\ fl' = IF todo' = {} THEN "persist" ELSE "route"
              /\ UNCHANGED <<halt, pump, own, flushed, batch, part>>
           \/ /\ r = "unrouted" /\ ~Continues(r)
              /\ halt' = p /\ fl' = "persist"
              /\ UNCHANGED <<skipped, todo, acks, count, due, pump, own, flushed, batch, part>>
           \/ /\ r = "raised"
              /\ FlushEndsWith(TRUE)
              /\ UNCHANGED <<skipped, count>>
    BY DEF RouteOne
<1>3. CASE FlushEndsWith(TRUE)
    BY <1>3, FlushEndsCovered DEF RouteOne
<1>4. CASE Continues(r)
  <2>1. /\ todo' = todo \ {p} /\ fl' = (IF todo' = {} THEN "persist" ELSE "route")
        /\ due' \in {p, due} /\ UNCHANGED <<pump, own, batch, durable>>
    BY <1>2, <1>4 DEF RouteOne, Continues
  <2>2. p \in Handled'
    BY <1>2, <1>4 DEF Continues, Captured, GivenUp, Handled
  <2>3. batch \ todo' \subseteq Handled'
    BY <1>t, <2>1, <2>2 DEF Covered, FlushCovers
  <2>4. 1..p \subseteq Handled'
    <3>1. SUFFICES ASSUME NEW q \in 1..p PROVE q \in Handled'
      OBVIOUS
    <3>2. q \in Handled \/ q \in batch
      BY <1>1, <1>t, BelowBatch
    <3>3. QED
      BY <1>1, <1>t, <2>1, <2>3, <3>2
  <2>5. FlushCovers'
    BY <2>1, <2>3 DEF FlushCovers
  <2>6. DueCovers'
    BY <1>t, <2>1, <2>4 DEF Covered, DueCovers, CheckpointCovers, pump
  <2>7. QED
    BY <2>1, <2>5, <2>6, FlushGoesOnCovered DEF RouteOne
<1>5. CASE r = "unrouted" /\ ~Continues(r)
  <2>1. halt' = p /\ fl' = "persist" /\ UNCHANGED <<pump, own, batch, due, durable>>
    BY <1>2, <1>5 DEF RouteOne
  <2>2. FlushCovers'
    BY <1>1, <2>1 DEF FlushCovers
  <2>3. DueCovers'
    BY <1>t, <2>1 DEF Covered, DueCovers, CheckpointCovers, pump
  <2>4. QED
    BY <2>1, <2>2, <2>3, FlushGoesOnCovered DEF RouteOne
<1>. QED
    BY <1>2, <1>3, <1>4, <1>5

\* The end of a flush: checkpoint, hooks, return.
LEMMA CommitCovered ==
  ASSUME Control, Covered, Handled \subseteq Handled', PersistBatch \/ RunHook \/ FlushReturns
  PROVE  Covered'
<1>1. CASE PersistBatch
  <2>1. CASE FlushEndsWith(TRUE) /\ durable' = durable
    BY <1>1, <2>1, FlushEndsCovered DEF PersistBatch
  <2>2. CASE /\ fl' = "hooks" /\ durable' \in {durable, due}
             /\ UNCHANGED <<pump, own, batch, halt, due>>
    <3>1. FlushCovers'
      BY <1>1, <2>2 DEF PersistBatch, Covered, FlushCovers
    <3>2. DueCovers'
      BY <1>1, <2>2 DEF PersistBatch, Covered, DueCovers, CheckpointCovers, pump
    <3>3. QED
      BY <1>1, <2>2, <3>1, <3>2, FlushGoesOnCovered DEF PersistBatch
  <2>3. QED
    BY <1>1, <2>1, <2>2 DEF PersistBatch
<1>2. CASE RunHook
  <2>1. CASE FlushEndsWith(TRUE)
    BY <1>2, <2>1, FlushEndsCovered DEF RunHook
  <2>2. CASE UNCHANGED <<pump, own, fl, batch, todo, halt, due>>
    <3>1. FlushCovers'
      BY <2>2 DEF Covered, FlushCovers
    <3>2. DueCovers'
      BY <1>2, <2>2 DEF RunHook, Covered, DueCovers, CheckpointCovers, pump
    <3>3. QED
      BY <1>2, <2>2, <3>1, <3>2, FlushGoesOnCovered DEF RunHook
  <2>3. QED
    BY <1>2, <2>1, <2>2 DEF RunHook
<1>3. CASE FlushReturns
    BY <1>3, FlushEndsCovered DEF FlushReturns, world
<1>. QED
    BY <1>1, <1>2, <1>3

\* The start of a run: it resumes right after a position that is covered.
LEMMA StartCovered ==
  ASSUME Control, Covered, Handled \subseteq Handled', StartRun
  PROVE  Covered'
<1> USE DEF Control, Typed, Covered, StartRun, Fresh, world
<1>1. next' = 1 \/ next' = durable + 1
    BY DEF ResumeValues, ResumePosition
<1>2. NothingLost' /\ QueueInOrder'
    BY <1>1 DEF NothingLost, QueueInOrder, DueCovers, CheckpointCovers, WorldTypeOK
<1>3. FlushCovers' /\ DueCovers'
    BY DEF FlushCovers, DueCovers, CheckpointCovers
<1>4. DropCovers' /\ CompletedRunHandledAll'
    BY DEF DropCovers, CompletedRunHandledAll
<1>. QED
    BY <1>2, <1>3, <1>4

\* A record is queued behind the records that are already there.
LEMMA EnqueueCovered ==
  ASSUME Control, Covered, Handled \subseteq Handled', Enqueue
  PROVE  Covered'
<1> USE DEF Control, Typed, Covered, Enqueue, flush, world
<1>0. pc = "pull" /\ next \in 1..N /\ next' = next + 1
    BY DEF PumpT
<1>t. pending \subseteq 1..N /\ batch \subseteq 1..N
    BY DEF QueueT, FlushT, Position
<1>1. \/ pending' = pending \cup {next} /\ UNCHANGED flush
      \/ /\ batch' = pending \cup {next} /\ pending' = {} /\ fl' = "write" /\ batch = {}
    BY DEF OwnerOK, FlushOK
<1>2. NothingLost'
  <2>1. SUFFICES ASSUME Going' PROVE 1..next \subseteq Handled' \cup pending' \cup batch'
    BY <1>0 DEF NothingLost
  <2>2. 1..(next - 1) \subseteq Handled \cup pending \cup batch
    BY <2>1, <1>0 DEF NothingLost, Going, Busy
  <2>3. QED
    BY <1>0, <1>1, <2>2
<1>3. QueueInOrder'
  <2>1. CASE pending' = pending \cup {next} /\ batch' = batch
    BY <1>0, <1>t, <2>1 DEF QueueInOrder
  <2>2. CASE batch' = pending \cup {next} /\ pending' = {}
    <3>1. \A p \in pending : p < next
      BY DEF QueueInOrder
    <3>2. \A p \in batch' : p < next'
      BY <1>0, <1>t, <2>2, <3>1
    <3>3. QED
      BY <2>2, <3>2 DEF QueueInOrder
  <2>3. QED
    BY <1>1, <2>1, <2>2
<1>4. FlushCovers'
    BY <1>1 DEF FlushCovers
<1>5. DueCovers'
    BY <1>1 DEF DueCovers, CheckpointCovers
<1>6. DropCovers' /\ CompletedRunHandledAll'
    BY <1>0 DEF DropCovers, CompletedRunHandledAll
<1>. QED
    BY <1>2, <1>3, <1>4, <1>5, <1>6

\* Dropped records, which reach the store only through PersistDropped.
LEMMA DropCovered ==
  ASSUME Control, Covered, Handled \subseteq Handled', conf.store => conf.mw \subseteq {"value"},
         DropRecord \/ MiddlewareFails \/ RouteDropped \/ PersistDropped \/ AckDropped
  PROVE  Covered'
<1> USE DEF Control, Typed
<1>0. ~conf.store /\ next \in 1..N /\ pdue = 0 /\ pc \in Looping
    BY DEF DropRecord, MiddlewareFails, RouteDropped, PersistDropped, AckDropped, Covered,
       DropCovers, DueCovers, CursorOK, PumpT, Looping
<1>d. LastDue(count, last, {next}) = 0
    BY <1>0 DEF LastDue
<1>1. CASE DropRecord
    BY <1>0, <1>1, <1>d, LoopCovered DEF DropRecord, DropCovers, Handled, Looping, owner
<1>2. CASE MiddlewareFails
    BY <1>0, <1>2, LoopCovered DEF MiddlewareFails, DropCovers, Looping, owner, world
<1>3. CASE RouteDropped
  <2>1. CASE EndLoop("error") /\ UNCHANGED pdue
    BY <1>0, <1>3, <2>1, EndLoopCovered DEF RouteDropped
  <2>2. CASE /\ pc' = "save" /\ pdue' = LastDue(count, last, {next})
             /\ UNCHANGED <<next, conf, pending, flush, owner>>
             /\ next \in Handled'
    BY <1>0, <1>3, <1>d, <2>2, LoopCovered DEF RouteDropped, DropCovers, Looping, owner
  <2>3. CASE /\ pc' = "pull" /\ next' = next + 1 /\ skipped' = skipped \cup {next}
             /\ UNCHANGED <<pdue, conf, pending, flush, owner>>
    BY <1>0, <1>3, <2>3, LoopCovered DEF RouteDropped, DropCovers, Handled, Looping, owner
  <2>4. ASSUME dropped' = IF conf.dlq THEN dropped ELSE dropped \cup {next},
               NEW r \in Routes, dead' = dead \cup Captured(r, {next}),
               r = "routed" \/ (r = "unrouted" /\ ~conf.dlq)
        PROVE  next \in Handled'
    BY <2>4 DEF Handled, Captured, Routes
  <2>5. QED
    BY <1>3, <2>1, <2>2, <2>3, <2>4 DEF RouteDropped
<1>4. CASE PersistDropped
  <2>1. pc' = "ack" /\ durable' = durable /\ pdue' = 0
        /\ UNCHANGED <<conf, next, pending, flush, owner>>
    BY <1>0, <1>4 DEF PersistDropped
  <2>2. DropCovers'
    BY <1>0, <1>4, <2>1 DEF PersistDropped, Covered, DropCovers
  <2>3. QED
    BY <1>0, <2>1, <2>2, LoopCovered DEF Looping, owner
<1>5. CASE AckDropped
  <2>1. CASE EndLoop("error")
    BY <1>0, <1>5, <2>1, EndLoopCovered DEF AckDropped
  <2>2. CASE /\ next' = next + 1 /\ pc' = "pull" /\ UNCHANGED <<conf, pending, flush, owner>>
    <3>1. next \in Handled'
      BY <1>5 DEF AckDropped, Covered, DropCovers
    <3>2. QED
      BY <1>0, <1>5, <2>2, <3>1, LoopCovered DEF AckDropped, DropCovers, Looping, owner
  <2>3. QED
    BY <1>5, <2>1, <2>2 DEF AckDropped
<1>. QED
    BY <1>1, <1>2, <1>3, <1>4, <1>5

\* The rest of the lane's task: the end of the stream, the wait for the owner
\* task, and what is left of a run that failed.
LEMMA PumpCovered ==
  ASSUME Control, Covered, Handled \subseteq Handled',
         EndOfStream \/ SourceFails \/ CheckCapacity \/ AwaitFlushed \/ OwnerClosed
  PROVE  Covered'
<1> USE DEF Control, Typed
<1>0. pdue = 0
    BY DEF Covered, DueCovers
<1>1. CASE EndOfStream \/ SourceFails
    BY <1>0, <1>1, EndLoopCovered DEF EndOfStream, SourceFails, Looping, world
<1>2. CASE CheckCapacity
  <2>1. CASE EndLoop("error")
    BY <1>0, <1>2, <2>1, EndLoopCovered DEF CheckCapacity, Looping, world
  <2>2. CASE pc' \in {"pull", "await"} /\ UNCHANGED <<conf, next, pending, flush, owner>>
    BY <1>0, <1>2, <2>2, LoopCovered DEF CheckCapacity, Looping, world, DropCovers, owner
  <2>3. QED
    BY <1>2, <2>1, <2>2 DEF CheckCapacity
<1>3. CASE AwaitFlushed
    BY <1>0, <1>3, LoopCovered DEF AwaitFlushed, Looping, world, DropCovers, owner
<1>4. CASE OwnerClosed
  <2> USE <1>4 DEF OwnerClosed, world, flush, Covered
  <2>1. NothingLost' /\ QueueInOrder'
    BY DEF NothingLost, QueueInOrder, Going, Busy, Alive
  <2>2. FlushCovers' /\ DueCovers'
    BY DEF FlushCovers, DueCovers, CheckpointCovers
  <2>3. DropCovers'
    BY DEF DropCovers
  <2>4. CompletedRunHandledAll'
    <3>1. SUFFICES ASSUME pc' = "done" PROVE Position \subseteq Handled'
      BY DEF CompletedRunHandledAll
    <3>2. own = "ended" /\ fate = "ok"
      BY <3>1 DEF FateOK, PumpT
    <3>3. pending = {} /\ batch = {} /\ next = N + 1
      BY <3>2 DEF OwnerOK, FlushOK, FateOK
    <3>4. 1..(next - 1) \subseteq Handled \cup pending \cup batch
      BY <3>2 DEF NothingLost, Going, Busy
    <3>5. QED
      BY <3>3, <3>4 DEF Position
  <2>5. QED
    BY <2>1, <2>2, <2>3, <2>4
<1>. QED
    BY <1>1, <1>2, <1>3, <1>4

\* The owner task takes the queue, which lies in front of every later record.
LEMMA OwnerCovered ==
  ASSUME Control, Covered, Handled \subseteq Handled', OwnerStep
  PROVE  Covered'
<1> USE DEF Control, Typed, Covered
<1>0. own \in {"check", "wait"} /\ fl = "none" /\ batch = {}
    BY DEF OwnerStep, OwnerLoop, OwnerNotified, OwnerTimeout, FlushOK
<1>1. /\ UNCHANGED <<conf, world, pump>>
      /\ \/ own' \in {"ended", "wait", "check"} /\ UNCHANGED <<pending, flush>>
         \/ own' = "flush" /\ TakeBatch
    BY DEF OwnerStep, OwnerLoop, OwnerNotified, OwnerTimeout
<1>2. NothingLost'
    BY <1>0, <1>1 DEF NothingLost, Going, Alive, Busy, pump, TakeBatch, flush
<1>3. QueueInOrder'
    BY <1>0, <1>1 DEF QueueInOrder, pump, TakeBatch, flush
<1>4. FlushCovers' /\ DueCovers'
    BY <1>0, <1>1 DEF FlushCovers, DueCovers, CheckpointCovers, pump, world, TakeBatch, flush
<1>5. DropCovers' /\ CompletedRunHandledAll'
    BY <1>1 DEF DropCovers, CompletedRunHandledAll, pump
<1>. QED
    BY <1>2, <1>3, <1>4, <1>5

\* A crash loses the queue and the batch, a cancelled run unless its owner task
\* lives on: neither claims anything about them.
LEMMA EndCovered ==
  ASSUME Control, Covered, Handled \subseteq Handled', Crash \/ Cancel
  PROVE  Covered'
<1> USE DEF Control, Typed, Covered, Fresh, world, flush, owner
<1>1. NothingLost' /\ QueueInOrder'
    BY DEF Crash, Cancel, NothingLost, QueueInOrder, Going, Busy, Alive
<1>2. FlushCovers' /\ DueCovers'
    BY DEF Crash, Cancel, FlushCovers, DueCovers, CheckpointCovers
<1>3. DropCovers' /\ CompletedRunHandledAll'
    BY DEF Crash, Cancel, DropCovers, CompletedRunHandledAll
<1>. QED
    BY <1>1, <1>2, <1>3

\* Every step keeps the coverage invariant.
LEMMA NextCovered ==
  ASSUME KeepsOrder(conf), Control, Covered, [Next]_vars
  PROVE  Covered'
<1>1. Handled \subseteq Handled'
    BY HandledGrows
<1>2. conf.store => conf.mw \subseteq {"value"}
    BY DEF KeepsOrder
<1>3. CASE UNCHANGED vars
  <2> USE <1>3 DEF vars, world, pump, flush, owner, Covered
  <2>1. NothingLost' /\ QueueInOrder'
    BY <1>1 DEF NothingLost, QueueInOrder, Going
  <2>2. FlushCovers' /\ DueCovers'
    BY <1>1 DEF FlushCovers, DueCovers, CheckpointCovers
  <2>3. DropCovers' /\ CompletedRunHandledAll'
    BY <1>1 DEF DropCovers, CompletedRunHandledAll
  <2>. QED
    BY <2>1, <2>2, <2>3
<1>. QED
    BY <1>1, <1>2, <1>3, StartCovered, EnqueueCovered, DropCovered, PumpCovered, WriteCovered,
       ResolveCovered, PrepareCovered, RouteCovered, CommitCovered, OwnerCovered, EndCovered
       DEF Next, Pull, PumpStep, FlushStep, Finished

\* The coverage invariant holds in every state.
LEMMA CoverageInvariant == KeepsOrder(conf) /\ Spec => [](Control /\ Covered)
<1>1. Init => Covered
  <2> SUFFICES ASSUME Init PROVE Covered
    OBVIOUS
  <2>1. NothingLost /\ QueueInOrder /\ FlushCovers
    BY DEF Init, NothingLost, QueueInOrder, FlushCovers, Going, Busy, Alive
  <2>2. DueCovers /\ DropCovers /\ CompletedRunHandledAll
    BY DEF Init, WorldInit, DueCovers, CheckpointCovers, DropCovers, CompletedRunHandledAll
  <2>3. QED
    BY <2>1, <2>2 DEF Covered
<1>2. Control /\ KeepsOrder(conf) /\ Covered /\ [Next]_vars => KeepsOrder(conf)' /\ Covered'
    BY NextCovered, SameConfig DEF KeepsOrder
<1>3. QED
    BY <1>1, <1>2, InitControl, NextControl, PTL DEF Spec

\* The stored position has nothing unhandled at or below it, although records
\* wait in a queue, in the batch of another task, or are lost with a crash.
THEOREM CheckpointIsCovered == KeepsOrder(conf) /\ Spec => []CheckpointCovers
<1>1. Covered => CheckpointCovers
    BY DEF Covered, DueCovers
<1>2. QED
    BY <1>1, CoverageInvariant, PTL

\* A run that reports completion has left no record in the queue, in a batch or
\* with the owner task.
THEOREM CompletionIsComplete == KeepsOrder(conf) /\ Spec => []CompletedRunHandledAll
<1>1. Covered => CompletedRunHandledAll
    BY DEF Covered
<1>2. QED
    BY <1>1, CoverageInvariant, PTL

\* The queued lane implements CheckpointContract: a step handles records, saves
\* a covered position, or does not show.
THEOREM KeepsTheContract == KeepsOrder(conf) /\ Spec => KeepsContract
<1>1. Init => Contract!Init
    BY DEF Init, WorldInit, Contract!Init, Handled
<1>2. ASSUME Control, Covered, Control', [Next]_vars
      PROVE  [Contract!Next]_(Contract!vars)
  <2> USE <1>2 DEF Contract!Next, Contract!vars, Contract!Handle, Contract!Save
  <2>1. Handled \subseteq Handled' /\ Handled' \in SUBSET (1..N)
    BY HandledGrows DEF Control, Typed, WorldTypeOK, Position, Handled
  <2>2. CASE UNCHANGED durable
    BY <2>1, <2>2
  <2>3. CASE PersistBatch
    <3>1. Handled' = Handled /\ durable' \in {durable, due}
      BY <2>3 DEF PersistBatch, Handled
    <3>2. 1..durable' \subseteq Handled /\ durable' \in 0..N
      BY <2>3, <3>1 DEF PersistBatch, Covered, DueCovers, CheckpointCovers, Control, Typed,
         WorldTypeOK
    <3>3. QED
      BY <3>1, <3>2
  <2>4. CASE PersistDropped
    BY <2>2, <2>4 DEF PersistDropped, Covered, DueCovers
  <2>5. QED
    BY <2>2, <2>3, <2>4 DEF Next, StartRun, Pull, Enqueue, DropRecord, MiddlewareFails,
       EndOfStream, SourceFails, PumpStep, CheckCapacity, AwaitFlushed, RouteDropped,
       AckDropped, OwnerClosed, FlushStep, WriteAccepted, WriteMixed, WriteRaises, WriteFenced,
       ResolveOne, PrepareOutcomes, RouteOne, RunHook, FlushReturns, OwnerStep, OwnerLoop,
       OwnerNotified, OwnerTimeout, Crash, Cancel, Finished, vars, world
<1>3. QED
    BY <1>1, <1>2, CoverageInvariant, PTL DEF Spec, KeepsContract, Contract!Spec

-----------------------------------------------------------------------------
(* The replay window.  While nothing has failed, queue and batch are the   *)
(* intervals b + 1 .. q and q + 1 .. next - 1, the records up to c are     *)
(* counted, and the position saved or due trails c by less than            *)
(* checkpoint_every.                                                       *)

\* No drop can overtake the queue; on the direct path, which looks at the cadence
\* once per batch, the cadence divides writer_batch_size.
Paced(c) == KeepsOrder(c) /\ (c.flush = "direct" => c.batch % c.every = 0)

\* A run with a store, whose saves do not fail silently, in its source loop.
Steady ==
  /\ conf.store /\ conf.ckptPolicy = FAIL_CLOSED
  /\ pc \in Busy /\ fate = "none" /\ own # "error" /\ halt = 0

\* The position the store holds once the flush in progress has persisted.
Saved == IF fl \in {"route", "persist"} /\ due # 0 THEN due ELSE durable

\* The intervals, and what of the batch is counted.
Split(b, c, q) ==
  /\ b <= c /\ c <= q /\ q < next
  /\ batch = (b + 1)..q /\ pending = (q + 1)..(next - 1)
  /\ fl \in {"write", "resolve"} => c = b
  /\ fl \in {"none", "persist", "hooks"} => c = q
  /\ fl = "route" => todo = (c + 1)..q

\* The run counts from position c - count on.
Trails(b, c) ==
  /\ last <= c /\ count <= c /\ c - count <= b
  /\ TrailsAt(Saved, c - count, c)

\* On the direct path the source loop flushes full batches only.
FullBatches(b, c, q) ==
  conf.flush = "direct" => /\ (b - (c - count)) % conf.every = 0
                           /\ fl # "none" => q - b = conf.batch

InWindow(b, c, q) == Split(b, c, q) /\ Trails(b, c) /\ FullBatches(b, c, q)

Window == Steady => \E b, c, q \in 0..N : InWindow(b, c, q)

WindowInv == Window /\ (fl = "none" => halt = 0)

\* The numbers the window is made of.
LEMMA WindowT ==
  ASSUME Control
  PROVE  /\ conf.every \in Nat \ {0} /\ conf.batch \in Nat \ {0}
         /\ durable \in 0..N /\ due \in 0..N /\ last \in 0..N /\ count \in Nat
         /\ next \in 1..(N + 1) /\ halt \in 0..N /\ Saved \in 0..N
BY DEF Control, Typed, WorldTypeOK, ConfigType, PumpT, QueueT, FlushT, Saved

\* A step that leaves queue, batch and counts alone keeps the window.
LEMMA WindowKept ==
  ASSUME NEW b, NEW c, NEW q, InWindow(b, c, q), conf' = conf, fl' = fl,
         UNCHANGED <<next, batch, pending, last, count, durable, due>>,
         fl = "route" => todo' = todo
  PROVE  InWindow(b, c, q)'
<1>1. Saved' = Saved
    BY DEF Saved
<1>2. Split(b, c, q)'
    BY DEF InWindow, Split
<1>3. Trails(b, c)' /\ FullBatches(b, c, q)'
    BY <1>1 DEF InWindow, Trails, TrailsAt, FullBatches
<1>4. QED
    BY <1>2, <1>3 DEF InWindow

\* Counting the rest of the batch moves the window to its end.
LEMMA BatchCounted ==
  ASSUME Control, Control', conf' = conf, conf.store,
         NEW b \in 0..N, NEW c \in 0..N, NEW q \in 0..N, InWindow(b, c, q),
         fl \in {"write", "resolve"}, fl' = "persist",
         count' = Counted(count, batch), due' = LastDue(count, last, batch),
         UNCHANGED <<next, batch, pending, last, durable>>
  PROVE  InWindow(b, q, q)'
<1>0. c = b /\ batch = (b + 1)..q /\ b <= q /\ Saved = durable
    BY DEF InWindow, Split, Saved
<1> DEFINE z == c - count
<1>1. /\ z \in Nat /\ b = z + count /\ last \in 0..b /\ TrailsAt(durable, z, b)
      /\ conf.every \in Nat \ {0} /\ count \in Nat /\ durable \in Nat
    BY SMTT(60), <1>0, WindowT DEF InWindow, Trails
<1>2. Cardinality(batch) = q - b
    BY <1>0, IntervalSize
<1>3. count' = count + (q - b) /\ q - count' = z
    BY <1>1, <1>2 DEF Counted
<1> HIDE DEF z
<1> DEFINE d == LastDue(count, last, (b + 1)..q)
           t == IF d # 0 THEN d ELSE durable
<1>4. TrailsAt(t, z, q)
    BY <1>0, <1>1, WindowMoves
<1>5. Saved' = t
    BY <1>0 DEF Saved
<1> HIDE DEF t
<1>6. Trails(b, q)'
    BY SMTT(60), <1>0, <1>1, <1>3, <1>4, <1>5 DEF Trails, TrailsAt
<1>7. Split(b, q, q)'
    BY <1>0 DEF InWindow, Split
<1>8. FullBatches(b, q, q)'
  <2>1. q - count' = c - count
    BY <1>3 DEF z
  <2>2. QED
    BY <2>1 DEF InWindow, FullBatches
<1>9. QED
    BY <1>6, <1>7, <1>8 DEF InWindow

\* On the direct path the whole batch is due, since the cadence divides it.
LEMMA DirectCounted ==
  ASSUME Control, Control', conf' = conf, conf.store, conf.flush = "direct", Paced(conf),
         NEW b \in 0..N, NEW c \in 0..N, NEW q \in 0..N, InWindow(b, c, q),
         fl = "write", fl' = "persist",
         count' = Counted(count, batch), due' = BatchEndDue(count, last, batch),
         UNCHANGED <<next, batch, pending, last, durable>>
  PROVE  InWindow(b, q, q)'
<1>0. /\ c = b /\ batch = (b + 1)..q /\ b <= q /\ q - b = conf.batch
      /\ (b - (c - count)) % conf.every = 0 /\ conf.batch % conf.every = 0
    BY DEF InWindow, Split, FullBatches, Paced
<1>1. /\ conf.every \in Nat \ {0} /\ conf.batch \in Nat \ {0} /\ count \in Nat
      /\ count <= b /\ last <= b /\ last \in Nat /\ b - count <= q
    BY SMTT(60), <1>0, WindowT DEF InWindow, Trails
<1>2. Cardinality(batch) = q - b
    BY <1>0, IntervalSize
<1>3. count' = count + conf.batch /\ q - count' = c - count
    BY <1>0, <1>1, <1>2 DEF Counted
<1>4. b - (c - count) = count
    BY <1>0, <1>1
<1>5. count' % conf.every = 0
  <2>1. count % conf.every = 0
    BY <1>0, <1>4
  <2>2. (count + conf.batch) % conf.every = 0
    BY <2>1, <1>0, <1>1, MultiplesAdd
  <2>3. QED
    BY <2>2, <1>3
<1>6. Latest(batch) = q
  <2>1. q \in batch /\ batch \subseteq Position
    BY <1>0, <1>1 DEF Position
  <2>2. Latest(batch) \in batch /\ q <= Latest(batch)
    BY <2>1, LatestIn
  <2>3. QED
    BY <2>2, <1>0
<1>7. q # last /\ q # 0
    BY <1>0, <1>1
<1>8. due' = q
  <2>1. count + Cardinality(batch) = count'
    BY <1>0, <1>2, <1>3
  <2>2. QED
    BY <2>1, <1>5, <1>6, <1>7 DEF BatchEndDue, ShouldSave
<1>9. Saved' = q
    BY <1>7, <1>8 DEF Saved
<1>10. q - (q - count') = count' /\ count' \in Nat /\ count' <= q
    BY SMTT(60), <1>0, <1>1, <1>3
<1>11. Trails(b, q)'
  <2>1. TrailsAt(Saved, q - count, q)'
    BY <1>1, <1>5, <1>9, <1>10 DEF TrailsAt
  <2>2. q - count' <= b /\ last' <= q
    BY SMTT(60), <1>0, <1>1, <1>3
  <2>3. QED
    BY <1>10, <2>1, <2>2 DEF Trails
<1>12. Split(b, q, q)' /\ FullBatches(b, q, q)'
    BY <1>0, <1>3 DEF InWindow, Split, FullBatches
<1>13. QED
    BY <1>11, <1>12 DEF InWindow

\* A failing batch counts its records one by one.
LEMMA RecordCounted ==
  ASSUME Control, Control', conf' = conf, conf.store,
         NEW b \in 0..N, NEW c \in 0..N, NEW q \in 0..N, InWindow(b, c, q),
         fl = "route", NEW p, p = First(todo),
         count' = Counted(count, {p}),
         due' = IF LastDue(count, last, {p}) # 0 THEN p ELSE due,
         todo' = todo \ {p}, fl' = IF todo' = {} THEN "persist" ELSE "route",
         UNCHANGED <<next, batch, pending, last, durable>>
  PROVE  p = c + 1 /\ p \in 0..N /\ InWindow(b, p, q)'
<1>0. todo = (c + 1)..q /\ todo # {} /\ b <= c /\ batch = (b + 1)..q
    BY DEF InWindow, Split, Control, FlushOK
<1>1. p = c + 1 /\ p <= q
  <2>1. todo \subseteq Position /\ c + 1 \in todo
    BY <1>0 DEF Position
  <2>2. p \in todo /\ \A r \in todo : p <= r
    BY <2>1, FirstIn
  <2>3. QED
    BY <2>1, <2>2, <1>0
<1> DEFINE z == c - count
<1>2. /\ z \in Nat /\ c = z + count /\ last \in 0..c /\ z <= b /\ TrailsAt(Saved, z, c)
      /\ conf.every \in Nat \ {0} /\ count \in Nat
  <2>1. count <= c /\ c - count <= b /\ last <= c /\ TrailsAt(Saved, c - count, c)
    BY DEF InWindow, Trails
  <2>2. conf.every \in Nat \ {0} /\ count \in Nat /\ last \in 0..N
    BY WindowT
  <2>3. QED
    BY <2>1, <2>2
<1>3. {p} = (c + 1)..p /\ Cardinality({p}) = 1
    BY <1>1, FS_Singleton
<1>4. count' = count + 1 /\ p - count' = z
    BY <1>1, <1>2, <1>3 DEF Counted
<1> HIDE DEF z
<1> DEFINE d == LastDue(count, last, (c + 1)..p)
           t == IF d # 0 THEN d ELSE Saved
<1>5. TrailsAt(t, z, p) /\ (d # 0 => c < d)
  <2>1. c <= p /\ p \in 0..N
    BY <1>1
  <2>2. QED
    BY <2>1, <1>2, WindowMoves
<1>6. Saved' = t
  <2>1. d # 0 => d = p
    BY <1>5, <1>1, LastDueIn, <1>3 DEF Position
  <2>2. due' = IF d # 0 THEN p ELSE due
    BY <1>3
  <2>3. p # 0
    BY <1>1
  <2> HIDE DEF d
  <2>4. QED
    BY <2>1, <2>2, <2>3 DEF Saved
<1> HIDE DEF t
<1>7. Trails(b, p)'
  <2>1. TrailsAt(Saved, p - count, p)'
    BY <1>4, <1>5, <1>6 DEF TrailsAt
  <2>2. count' <= p /\ last' <= p
    BY <1>1, <1>2, <1>4
  <2>3. p - count' <= b
    BY <1>2, <1>4
  <2>4. QED
    BY <2>1, <2>2, <2>3 DEF Trails
<1>8. Split(b, p, q)'
  <2>1. todo' = (p + 1)..q
    BY <1>0, <1>1
  <2>2. todo' = {} => p = q
    BY <1>1, <2>1
  <2>3. QED
    BY SMTT(60), <1>0, <1>1, <2>1, <2>2 DEF InWindow, Split
<1>9. FullBatches(b, p, q)'
  <2>1. p - count' = c - count
    BY <1>4 DEF z
  <2>2. QED
    BY <2>1 DEF InWindow, FullBatches
<1>10. QED
    BY <1>1, <1>7, <1>8, <1>9 DEF InWindow

\* A flush that ends well leaves the lane at the end of its batch.
LEMMA FlushedWindow ==
  ASSUME Control, conf' = conf, Paced(conf), FlushEndsWith(FALSE), fl = "hooks",
         NEW b \in 0..N, NEW c \in 0..N, NEW q \in 0..N, InWindow(b, c, q),
         UNCHANGED <<last, count, durable>>
  PROVE  InWindow(q, q, q)'
<1>0. c = q /\ b <= q /\ q < next /\ pending = (q + 1)..(next - 1) /\ Saved = durable
    BY DEF InWindow, Split, Saved
<1>1. batch' = {} /\ fl' = "none" /\ pending' = pending /\ next' = next /\ Saved' = durable
    BY DEF FlushEndsWith, Saved
<1>2. Split(q, q, q)'
    BY <1>0, <1>1 DEF Split
<1>3. Trails(q, q)'
  <2>1. last <= q /\ count <= q /\ q - count <= q /\ TrailsAt(durable, q - count, q)
    BY <1>0, WindowT DEF InWindow, Trails
  <2>2. QED
    BY <2>1, <1>1 DEF Trails, TrailsAt
<1>4. FullBatches(q, q, q)'
  <2> SUFFICES ASSUME conf.flush = "direct" PROVE (q - (q - count)) % conf.every = 0
    BY <1>1 DEF FullBatches
  <2>1. /\ (b - (q - count)) % conf.every = 0 /\ q - b = conf.batch
        /\ conf.batch % conf.every = 0
    BY <1>0 DEF InWindow, FullBatches, Paced
  <2>2. /\ conf.every \in Nat \ {0} /\ conf.batch \in Nat /\ b - (q - count) \in Nat
        /\ count \in Nat
    BY SMTT(60), <1>0, WindowT DEF InWindow, Trails
  <2>3. ((b - (q - count)) + conf.batch) % conf.every = 0
    BY <2>1, <2>2, MultiplesAdd
  <2>4. (b - (q - count)) + conf.batch = q - (q - count)
    BY <2>1, <2>2
  <2>5. QED
    BY <2>3, <2>4
<1>5. QED
    BY <1>2, <1>3, <1>4 DEF InWindow

\* Taking the queue as the next batch moves no count.
LEMMA TakenWindow ==
  ASSUME Control, conf' = conf, TakeBatch, fl = "none", conf.flush # "direct",
         NEW b \in 0..N, NEW c \in 0..N, NEW q \in 0..N, InWindow(b, c, q),
         UNCHANGED <<next, last, count, durable>>
  PROVE  \E n \in 0..N : InWindow(q, q, n)'
<1>0. /\ c = q /\ q < next /\ pending = (q + 1)..(next - 1) /\ Saved = durable
      /\ next \in 1..(N + 1)
    BY WindowT DEF InWindow, Split, Saved
<1>1. fl' = "write" /\ batch' = pending /\ pending' = {} /\ Saved' = durable
    BY DEF TakeBatch, Saved
<1>n. PICK n \in 0..N : n = next - 1
    BY <1>0
<1>2. Split(q, q, n)'
    BY <1>0, <1>1, <1>n DEF Split
<1>3. Trails(q, q)'
  <2>1. last <= q /\ count <= q /\ q - count <= q /\ TrailsAt(durable, q - count, q)
    BY <1>0, WindowT DEF InWindow, Trails
  <2>2. QED
    BY <2>1, <1>1 DEF Trails, TrailsAt
<1>4. InWindow(q, q, n)'
    BY <1>2, <1>3 DEF InWindow, FullBatches
<1>5. QED
    BY <1>4

\* A record is queued, or fills the batch.
LEMMA EnqueuedWindow ==
  ASSUME Control, BoundInv, BoundInv', conf' = conf, Enqueue,
         NEW b \in 0..N, NEW c \in 0..N, NEW q \in 0..N, InWindow(b, c, q)
  PROVE  \E b1, c1, q1 \in 0..N : InWindow(b1, c1, q1)'
<1>0. /\ q < next /\ pending = (q + 1)..(next - 1) /\ pc = "pull" /\ next \in 1..N
      /\ next' = next + 1
    BY WindowT DEF InWindow, Split, Enqueue
<1>1. pending \cup {next} = (q + 1)..next /\ next' - 1 = next
    BY <1>0
<1>n. PICK n \in 1..N : n = next
    BY <1>0
<1>2. UNCHANGED <<last, count, durable>>
    BY DEF Enqueue, ckst, world
<1>3. CASE pending' = pending \cup {next} /\ UNCHANGED flush
  <2>1. Saved' = Saved /\ fl' = fl /\ batch' = batch /\ todo' = todo
    BY <1>2, <1>3 DEF flush, Saved
  <2>2. Split(b, c, q)'
    BY <1>0, <1>1, <1>3, <2>1 DEF InWindow, Split
  <2>3. Trails(b, c)' /\ FullBatches(b, c, q)'
    BY <1>2, <2>1 DEF InWindow, Trails, TrailsAt, FullBatches
  <2>4. InWindow(b, c, q)'
    BY <2>2, <2>3 DEF InWindow
  <2>5. QED
    BY <2>4
<1>4. CASE /\ conf.flush # "owner" /\ AtCapacity(pending \cup {next})
           /\ batch' = pending \cup {next} /\ pending' = {} /\ fl' = "write" /\ due' = 0
  <2>1. fl = "none"
    BY <1>0, <1>4 DEF Control, FlushOK, OwnerOK
  <2>2. /\ c = q /\ Saved = durable /\ Saved' = durable
        /\ last <= q /\ count <= q /\ q - count <= q /\ TrailsAt(durable, q - count, q)
    <3>1. c = q /\ Saved = durable /\ Saved' = durable
      BY <1>2, <1>4, <2>1 DEF InWindow, Split, Saved
    <3>2. last <= q /\ count <= q /\ q - count <= q /\ TrailsAt(durable, q - count, q)
      BY <3>1, WindowT DEF InWindow, Trails
    <3>3. QED
      BY <3>1, <3>2
  <2>3. Split(q, q, n)'
    BY <1>0, <1>1, <1>4, <1>n DEF Split
  <2>4. Trails(q, q)'
    BY <1>2, <2>2 DEF Trails, TrailsAt
  <2>5. n - q = conf.batch
    <3>1. Cardinality((q + 1)..n) = n - q
      BY <1>0, <1>n, IntervalSize
    <3>2. Cardinality(batch') >= conf.batch /\ Cardinality(batch') <= conf.batch
      BY <1>4 DEF AtCapacity, BoundInv, QueueBounded
    <3>3. batch' = (q + 1)..n
      BY <1>1, <1>4, <1>n
    <3>4. n - q \in Int /\ conf.batch \in Int
      BY WindowT
    <3>5. n - q >= conf.batch /\ n - q <= conf.batch
      BY <3>1, <3>2, <3>3
    <3>6. QED
      BY <3>4, <3>5
  <2>6. FullBatches(q, q, n)'
    <3>1. conf.flush = "direct" => (b - (c - count)) % conf.every = 0 /\ b = q
      <4>1. CASE b = q
        BY <4>1 DEF InWindow, FullBatches
      <4>2. b = q
        BY <2>1, <2>2 DEF InWindow, Split, Control, FlushOK
      <4>3. QED
        BY <4>1, <4>2
    <3>2. QED
      BY <1>2, <2>2, <2>5, <3>1 DEF FullBatches
  <2>7. InWindow(q, q, n)'
    BY <2>3, <2>4, <2>6 DEF InWindow
  <2>8. QED
    BY <2>7
<1>5. QED
    BY <1>3, <1>4 DEF Enqueue

\* Every step of a flush keeps the window, or ends the run that had it.
LEMMA FlushWindow ==
  ASSUME Paced(conf), Control, Control', WindowInv, FlushStep, conf' = conf
  PROVE  WindowInv'
<1>f. ASSUME FlushEndsWith(TRUE) PROVE WindowInv'
    BY <1>f DEF FlushEndsWith, WindowInv, Window, Steady, Busy
<1>1. CASE FlushEndsWith(TRUE)
    BY <1>1, <1>f
<1>2. CASE ~FlushEndsWith(TRUE)
  <2>1. fl' = "none" => halt' = 0
    BY <1>2 DEF FlushStep, WriteAccepted, WriteMixed, WriteRaises, WriteFenced, ResolveOne,
       PrepareOutcomes, RouteOne, PersistBatch, RunHook, FlushReturns, FlushEndsWith
  <2> SUFFICES ASSUME Steady' PROVE \E b, c, q \in 0..N : InWindow(b, c, q)'
    BY <2>1 DEF WindowInv, Window
  <2>2. /\ UNCHANGED <<pending, next, fate>> /\ (own' # "error" => own # "error")
        /\ (pc' \in Busy => pc \in Busy) /\ fl # "none" /\ (halt' = 0 => halt = 0)
    <3>1. CASE ResolveOne \/ RouteOne
      <4>1. todo \subseteq Position /\ todo # {}
        BY <3>1 DEF ResolveOne, RouteOne, Control, Typed, FlushT, FlushOK
      <4>2. First(todo) # 0
        <5>1. First(todo) \in 1..N
          BY <4>1, FirstIn
        <5>2. QED
          BY <5>1
      <4>3. fl # "none" /\ UNCHANGED <<pending, next, fate, own, pc>>
        BY <1>2, <3>1 DEF ResolveOne, RouteOne, pump
      <4>4. halt' = 0 => halt = 0
        BY <1>2, <3>1, <4>2 DEF ResolveOne, RouteOne
      <4>5. QED
        BY <4>3, <4>4
    <3>2. CASE FlushReturns
      <4>1. fl # "none" /\ halt = 0 /\ UNCHANGED <<pending, next, fate>>
        BY <1>2, <3>2 DEF FlushReturns, FlushEndsWith
      <4>2. pc \in Busy
        BY <3>2, <4>1 DEF FlushReturns, FlushEndsWith, Control, FlushOK, Busy, Steady
      <4>3. own' # "error" => own # "error"
        BY <3>2 DEF FlushReturns, FlushEndsWith
      <4>4. QED
        BY <4>1, <4>2, <4>3
    <3>3. CASE WriteAccepted \/ WriteMixed \/ WriteRaises \/ PrepareOutcomes \/ PersistBatch
               \/ RunHook
      BY <1>2, <3>3 DEF WriteAccepted, WriteMixed, WriteRaises, PrepareOutcomes, PersistBatch,
         RunHook, pump, owner
    <3>4. QED
      BY <1>2, <3>1, <3>2, <3>3 DEF FlushStep, WriteFenced
  <2>3. Steady
    BY <2>2 DEF Steady
  <2>4. PICK b \in 0..N, c \in 0..N, q \in 0..N : InWindow(b, c, q)
    BY <2>3 DEF WindowInv, Window
  <2>s. conf.store /\ conf.ckptPolicy = FAIL_CLOSED /\ halt = 0 /\ halt' = 0
    BY <2>3 DEF Steady
  <2>5. CASE WriteAccepted
    <3>1. /\ fl = "write" /\ fl' = "persist" /\ count' = Counted(count, batch)
          /\ UNCHANGED <<next, batch, pending, last, durable>>
      BY <2>5 DEF WriteAccepted, pump
    <3>2. InWindow(b, q, q)'
      <4>1. CASE conf.flush = "direct"
        <5>1. due' = BatchEndDue(count, last, batch)
          BY <2>5, <4>1 DEF WriteAccepted
        <5>2. QED
          BY <2>4, <2>s, <3>1, <4>1, <5>1, DirectCounted
      <4>2. CASE conf.flush # "direct"
        <5>1. due' = LastDue(count, last, batch)
          BY <2>5, <4>2 DEF WriteAccepted
        <5>2. QED
          BY <2>4, <2>s, <3>1, <5>1, BatchCounted
      <4>3. QED
        BY <4>1, <4>2
    <3>3. QED
      BY <3>2
  <2>6. CASE WriteMixed \/ WriteRaises
    <3>1. /\ fl = "write" /\ fl' \in {"resolve", "route"} /\ (fl' = "route" => todo' = batch)
          /\ UNCHANGED <<next, batch, pending, last, count, durable, due>>
      BY <2>6 DEF WriteMixed, WriteRaises, pump, ckst, world
    <3>2. due = 0 /\ c = b
      BY <2>4, <3>1 DEF Control, FlushOK, InWindow, Split
    <3>3. Saved' = Saved
      BY <3>1, <3>2 DEF Saved
    <3>4. Split(b, c, q)'
      BY <2>4, <3>1, <3>2 DEF InWindow, Split
    <3>5. Trails(b, c)' /\ FullBatches(b, c, q)'
      BY <2>4, <3>1, <3>3 DEF InWindow, Trails, TrailsAt, FullBatches
    <3>6. QED
      BY <3>4, <3>5 DEF InWindow
  <2>7. CASE ResolveOne
    <3>1. /\ fl = "resolve" /\ fl' = fl
          /\ UNCHANGED <<next, batch, pending, last, count, durable, due>>
      BY <1>2, <2>7 DEF ResolveOne, pump, ckst
    <3>2. InWindow(b, c, q)'
      BY <2>4, <3>1, WindowKept
    <3>3. QED
      BY <3>2
  <2>8. CASE PrepareOutcomes
    <3>1. /\ fl = "resolve" /\ fl' = "persist" /\ count' = Counted(count, batch)
          /\ due' = LastDue(count, last, batch)
          /\ UNCHANGED <<next, batch, pending, last, durable>>
      BY <2>8, <2>s DEF PrepareOutcomes, StopAt, pump, world
    <3>2. InWindow(b, q, q)'
      BY <2>4, <2>s, <3>1, BatchCounted
    <3>3. QED
      BY <3>2
  <2>9. CASE RouteOne
    <3>p. PICK p : p = First(todo)
      OBVIOUS
    <3>0. p # 0
      <4>1. todo \subseteq Position /\ todo # {}
        BY <2>9 DEF RouteOne, Control, Typed, FlushT, FlushOK
      <4>2. p \in 1..N
        BY <4>1, <3>p, FirstIn
      <4>3. QED
        BY <4>2
    <3>1. /\ fl = "route" /\ count' = Counted(count, {p})
          /\ due' = IF LastDue(count, last, {p}) # 0 THEN p ELSE due
          /\ todo' = todo \ {p} /\ fl' = IF todo' = {} THEN "persist" ELSE "route"
          /\ UNCHANGED <<next, batch, pending, last, durable>>
      BY <1>2, <2>9, <2>s, <3>0, <3>p DEF RouteOne, pump
    <3>3. p \in 0..N /\ InWindow(b, p, q)'
      BY <2>4, <2>s, <3>1, <3>p, RecordCounted
    <3>4. QED
      BY <3>3
  <2>10. CASE PersistBatch
    <3>1. /\ fl = "persist" /\ fl' = "hooks"
          /\ UNCHANGED <<next, batch, pending, count, todo, due>>
          /\ (due = 0 /\ UNCHANGED <<durable, last>>) \/ (due # 0 /\ durable' = due /\ last' = due)
      BY <1>2, <2>10, <2>s DEF PersistBatch, pump, FAIL_CLOSED, LOG_AND_CONTINUE
    <3>2. Saved' = Saved
      BY <3>1 DEF Saved
    <3>3. Split(b, c, q)'
      BY <2>4, <3>1 DEF InWindow, Split
    <3>4. last' <= c
      BY <2>4, <3>1 DEF InWindow, Trails, TrailsAt, Saved
    <3>5. Trails(b, c)' /\ FullBatches(b, c, q)'
      BY <2>4, <3>1, <3>2, <3>4 DEF InWindow, Trails, TrailsAt, FullBatches
    <3>6. QED
      BY <3>3, <3>5 DEF InWindow
  <2>11. CASE RunHook
    <3>1. /\ fl = "hooks" /\ fl' = fl
          /\ UNCHANGED <<next, batch, pending, last, count, durable, due>>
      BY <1>2, <2>11 DEF RunHook, pump, ckst
    <3>2. InWindow(b, c, q)'
      BY <2>4, <3>1, WindowKept
    <3>3. QED
      BY <3>2
  <2>12. CASE FlushReturns
    <3>1. fl = "hooks" /\ FlushEndsWith(FALSE) /\ UNCHANGED <<last, count, durable>>
      BY <2>12, <2>s DEF FlushReturns, world, ckst
    <3>2. InWindow(q, q, q)'
      BY <2>4, <3>1, FlushedWindow
    <3>3. QED
      BY <3>2
  <2>13. QED
    BY <1>2, <2>5, <2>6, <2>7, <2>8, <2>9, <2>10, <2>11, <2>12 DEF FlushStep, WriteFenced
<1>3. QED
    BY <1>1, <1>2

\* Every step keeps the window.
LEMMA NextWindow ==
  ASSUME Paced(conf), Control, Control', BoundInv, BoundInv', DropCovers, WindowInv, [Next]_vars
  PROVE  WindowInv'
<1>c. conf' = conf
    BY SameConfig
<1>f. ASSUME FlushEndsWith(TRUE) PROVE ~Steady' /\ halt' = 0
    BY <1>f DEF FlushEndsWith, Steady, Busy
<1>e. ASSUME EndLoop("ok") \/ EndLoop("error"), fl # "none" \/ halt = 0
      PROVE  ~Steady' /\ (fl' = "none" => halt' = 0)
    BY <1>e DEF EndLoop, Steady, TakeBatch, flush
<1>h. fl = "none" => halt = 0
    BY DEF WindowInv
<1>d. conf.store => pc \notin {"route", "save", "ack"}
    BY DEF DropCovers
<1>1. CASE StartRun
  <2>1. halt' = 0
    BY <1>1 DEF StartRun, Fresh
  <2>d. PICK d \in 0..N : d = durable
    BY WindowT
  <2> SUFFICES ASSUME Steady' PROVE InWindow(d, d, d)'
    BY <2>1 DEF WindowInv, Window
  <2>2. next' = durable + 1 /\ UNCHANGED durable
    BY <1>1, <1>c DEF StartRun, ResumeValues, ResumePosition, Steady, FAIL_CLOSED,
       LOG_AND_CONTINUE, world
  <2>3. /\ pending' = {} /\ batch' = {} /\ fl' = "none" /\ count' = 0 /\ last' = 0
        /\ Saved' = durable /\ durable \in Nat /\ conf.every \in Nat \ {0}
    BY <1>1, <2>2, WindowT DEF StartRun, Fresh, Saved
  <2>4. Split(d, d, d)'
    BY <2>2, <2>3, <2>d DEF Split
  <2>5. (durable - (durable - count'))  = 0 /\ 0 % conf.every = 0
    BY <2>3
  <2>6. Trails(d, d)' /\ FullBatches(d, d, d)'
    BY <1>c, <2>2, <2>3, <2>5, <2>d DEF Trails, TrailsAt, FullBatches
  <2>7. QED
    BY <2>4, <2>6 DEF InWindow
<1>2. CASE Crash \/ Cancel \/ OwnerClosed
    BY <1>2, <1>h DEF Crash, Cancel, OwnerClosed, Fresh, WindowInv, Window, Steady, Busy, flush
<1>3. CASE EndOfStream \/ SourceFails
    BY <1>3, <1>e, <1>h DEF EndOfStream, SourceFails, WindowInv, Window
<1>4. CASE DropRecord \/ MiddlewareFails \/ RouteDropped \/ PersistDropped \/ AckDropped
  <2>1. ~conf.store
    BY <1>4, <1>d DEF DropRecord, MiddlewareFails, RouteDropped, PersistDropped, AckDropped,
       Paced, KeepsOrder
  <2>2. fl' = "none" => halt' = 0
    BY <1>4, <1>e, <1>h DEF DropRecord, MiddlewareFails, RouteDropped, PersistDropped,
       AckDropped, flush
  <2>3. QED
    BY <2>1, <2>2, <1>c DEF WindowInv, Window, Steady
<1>5. CASE Enqueue
  <2>1. fl' = "none" => halt' = 0
    BY <1>5, <1>h DEF Enqueue, flush
  <2>2. ASSUME Steady' PROVE Steady
    BY <1>5, <1>c, <1>h, <2>2 DEF Enqueue, Steady, flush, Busy, Control, FlushOK, OwnerOK
  <2>3. QED
    BY <1>5, <1>c, <2>1, <2>2, EnqueuedWindow DEF WindowInv, Window
<1>6. CASE CheckCapacity \/ AwaitFlushed \/ UNCHANGED vars
  <2>1. CASE EndLoop("error")
    BY <2>1, <1>e, <1>h DEF WindowInv, Window
  <2>2. CASE UNCHANGED <<run, next, stage, pdue, fate, pending, ckst, flush, owner, world>>
             /\ (pc' \in Busy => pc \in Busy)
    <3> SUFFICES ASSUME Steady' PROVE \E b, c, q \in 0..N : InWindow(b, c, q)'
      BY <2>2, <1>h DEF WindowInv, Window, flush
    <3>1. Steady
      BY <2>2, <1>c DEF Steady, flush, owner
    <3>2. PICK b \in 0..N, c \in 0..N, q \in 0..N : InWindow(b, c, q)
      BY <3>1 DEF WindowInv, Window
    <3>3. InWindow(b, c, q)'
      BY <2>2, <1>c, <3>2, WindowKept DEF flush, ckst, world
    <3>4. QED
      BY <3>3
  <2>3. QED
    BY <1>6, <2>1, <2>2 DEF CheckCapacity, AwaitFlushed, Busy, vars, pump
<1>7. CASE FlushStep
    BY <1>7, <1>c, FlushWindow
<1>8. CASE OwnerStep
  <2>1. fl = "none" /\ conf.flush = "owner"
    BY <1>8 DEF OwnerStep, OwnerLoop, OwnerNotified, OwnerTimeout, Control, FlushOK, OwnerOK
  <2>2. UNCHANGED <<pump, ckst, world, next, pc, fate, last, count, durable>>
    BY <1>8 DEF OwnerStep, OwnerLoop, OwnerNotified, OwnerTimeout, pump, ckst, world
  <2>3. (TakeBatch \/ UNCHANGED <<pending, flush>>) /\ own # "error"
    BY <1>8 DEF OwnerStep, OwnerLoop, OwnerNotified, OwnerTimeout
  <2>4. halt' = 0
    BY <2>1, <2>3, <1>h DEF TakeBatch, flush
  <2> SUFFICES ASSUME Steady' PROVE \E b, c, q \in 0..N : InWindow(b, c, q)'
    BY <2>4 DEF WindowInv, Window
  <2>5. Steady
    BY <2>1, <2>2, <2>3, <1>c, <1>h DEF Steady
  <2>6. PICK b \in 0..N, c \in 0..N, q \in 0..N : InWindow(b, c, q)
    BY <2>5 DEF WindowInv, Window
  <2>7. CASE TakeBatch
    <3>1. \E n \in 0..N : InWindow(q, q, n)'
      BY <2>1, <2>2, <2>6, <2>7, <1>c, TakenWindow
    <3>2. QED
      BY <3>1
  <2>8. CASE UNCHANGED <<pending, flush>>
    <3>1. InWindow(b, c, q)'
      BY <2>2, <2>6, <2>8, <1>c, WindowKept DEF flush
    <3>2. QED
      BY <3>1
  <2>9. QED
    BY <2>3, <2>7, <2>8
<1>9. QED
    BY <1>1, <1>2, <1>3, <1>4, <1>5, <1>6, <1>7, <1>8 DEF Next, Pull, PumpStep, Finished

\* checkpoint_every bounds what a crash replays: with nothing in flight fewer than
\* that many handled records lie behind the store, however batches, partial
\* failures, the owner task's timer and resumed runs divide the stream.
THEOREM ReplayIsBounded == Paced(conf) /\ Spec => []ReplayWindow
<1>1. Init => BoundInv /\ WindowInv
  <2> SUFFICES ASSUME Init PROVE BoundInv /\ WindowInv
    OBVIOUS
  <2>1. Control
    BY InitControl
  <2>2. BoundInv
    BY <2>1, Sizes DEF Init, BoundInv, QueueBounded, AtCapacity
  <2>3. QED
    BY <2>2 DEF Init, WindowInv, Window, Steady, Busy
<1>2. /\ Control /\ Covered /\ Control' /\ Paced(conf) /\ BoundInv /\ WindowInv /\ [Next]_vars
      => Paced(conf)' /\ BoundInv' /\ WindowInv'
    BY NextBound, NextWindow, SameConfig DEF Covered, Paced, KeepsOrder
<1>3. Control /\ WindowInv => ReplayWindow
  <2> SUFFICES ASSUME Control, WindowInv, conf.store, conf.ckptPolicy = FAIL_CLOSED,
                      pc = "pull", fl = "none", pending = {}, own # "error"
               PROVE  next - 1 - durable < conf.every
    BY DEF ReplayWindow
  <2>1. Steady
    BY DEF Steady, WindowInv, Control, FateOK, Looping, Busy
  <2>2. PICK b \in 0..N, c \in 0..N, q \in 0..N : InWindow(b, c, q)
    BY <2>1 DEF WindowInv, Window
  <2>3. c = q /\ q < next /\ (q + 1)..(next - 1) = {} /\ Saved = durable
    BY <2>2 DEF InWindow, Split, Saved
  <2>4. c - durable < conf.every
    BY <2>2, <2>3 DEF InWindow, Trails, TrailsAt
  <2>5. next - 1 = q
    BY <2>3, WindowT
  <2>6. QED
    BY <2>3, <2>4, <2>5
<1>4. Paced(conf) => KeepsOrder(conf)
    BY DEF Paced
<1>5. QED
    BY <1>1, <1>2, <1>3, <1>4, CoverageInvariant, PTL DEF Spec

=============================================================================
