---------------------------- MODULE Lanes_proofs ----------------------------
(***************************************************************************)
(* Theorems about BufferedLane and about the three lanes of MCLanes        *)
(* together, for every number of records, every set of configurations,     *)
(* every range of the stage limit and every number of runs.                *)
(***************************************************************************)
EXTENDS MCLanes, Delivery_proofs

USE NAssumption, ConfigsAssumption, MaxRunsAssumption, LimitAssumption
    DEF NAssumption, ConfigsAssumption, MaxRunsAssumption, LimitAssumption

-----------------------------------------------------------------------------
(* Type and control.                                                       *)

\* A record has left the queue, or never entered it, and is being dispatched.
Dispatching == {"await", "write", "route", "save", "ack"}

\* There is a current record exactly while it is dispatched; a future that is
\* done belongs to a queued record, or to the awaited one.
CurrentOK ==
  /\ pc \in Dispatching <=> cur # 0
  /\ pc # "await" => ready \subseteq queue

\* The source loop has an outcome exactly when it is over.
FateOK ==
  /\ pc \in {"pull", "loop", "drain"} => fate = "none"
  /\ pc \in Dispatching /\ back # "final" => fate = "none"
  /\ fate = "ok" => next = N + 1
  /\ pc = "done" => fate = "ok"

\* Everything in flight lies behind the cursor; what is awaited or written lies
\* in front of the queue and behind what the writer was given before.
InOrder ==
  /\ lastSink < next /\ cur < next
  /\ \A p \in queue : lastSink < p /\ p < next
  /\ pc \in {"await", "write"} => lastSink < cur /\ \A p \in queue : cur < p

\* TypeOK by what the variables are about: the lane, and the record dispatched.
LaneT ==
  /\ pc \in Halted \cup Busy /\ run \in 0..MaxRuns /\ next \in 1..(N + 1)
  /\ queue \subseteq Position /\ ready \subseteq queue \cup {cur}
  /\ limit \in MinLimit..MaxLimit /\ cur \in 0..N
  /\ back \in {"pull", "loop", "drain", "final"} /\ fate \in {"none", "ok", "error"}
  /\ fenced \in BOOLEAN /\ lastSink \in 0..N

RecordT ==
  /\ stage \in {"none", "middleware", "sink", "partial"} /\ hook \in {"carried", "none"}
  /\ count \in Nat /\ last \in 0..N

Typed   == WorldTypeOK /\ LaneT /\ RecordT
Control == Typed /\ CurrentOK /\ FateOK /\ InOrder

\* The parts make up TypeOK.
LEMMA TypedIsTypeOK == Typed <=> TypeOK
<1>1. Typed => TypeOK
    BY DEF Typed, TypeOK, LaneT, RecordT
<1>2. TypeOK => LaneT /\ RecordT
    BY DEF TypeOK, LaneT, RecordT
<1>. QED
    BY <1>1, <1>2 DEF Typed, TypeOK

\* The initial states.
LEMMA InitControl == Init => Control
<1> SUFFICES ASSUME Init PROVE Control
    OBVIOUS
<1> USE DEF Init, WorldInit, Halted, Busy
<1>1. WorldTypeOK
    BY DEF WorldTypeOK, Position
<1>2. queue \subseteq Position /\ ready \subseteq queue \cup {cur} /\ fenced \in BOOLEAN
    OBVIOUS
<1>3. LaneT /\ RecordT
    BY <1>2 DEF LaneT, RecordT
<1>4. QED
    BY <1>1, <1>3 DEF Control, Typed, CurrentOK, FateOK, InOrder, Dispatching

\* Oldest returns the least position of a queue that is not empty.
LEMMA OldestIn ==
  ASSUME Typed, queue # {}
  PROVE  Oldest(queue) \in queue /\ Oldest(queue) \in 1..N /\ \A q \in queue : Oldest(queue) <= q
<1>0. queue \subseteq Nat /\ queue \subseteq 1..N
    BY DEF Typed, LaneT, Position
<1>1. \E p \in queue : \A q \in queue : p <= q
    BY <1>0, LeastPosition
<1>2. QED
    BY <1>0, <1>1 DEF Oldest

\* The lane gives up what is in flight.
LEMMA AbortControl ==
  ASSUME Control, Abort, WorldTypeOK', RecordT',
         UNCHANGED <<conf, run, next, limit, fenced, lastSink>>
  PROVE  Control'
<1> USE DEF Control, Typed, Abort
<1>1. LaneT'
    BY DEF LaneT, Halted
<1>2. CurrentOK' /\ FateOK' /\ InOrder'
    BY DEF CurrentOK, FateOK, InOrder, Dispatching, LaneT
<1>. QED
    BY <1>1, <1>2

\* The source loop ends with an error and the queue is still drained.
LEMMA SoftErrorControl ==
  ASSUME Control, SoftError, pc \in Dispatching, pc # "await", WorldTypeOK', RecordT',
         UNCHANGED <<conf, run, next, limit, fenced, lastSink>>
  PROVE  Control'
<1>1. CASE back = "final"
    BY <1>1, AbortControl DEF SoftError
<1>2. CASE back # "final"
  <2> USE <1>2 DEF Control, Typed, SoftError
  <2>1. LaneT'
    BY DEF LaneT, Busy, CurrentOK
  <2>2. CurrentOK' /\ FateOK'
    BY DEF CurrentOK, FateOK, Dispatching
  <2>3. InOrder'
    BY DEF InOrder, LaneT
  <2>. QED
    BY <2>1, <2>2, <2>3
<1>. QED
    BY <1>1, <1>2

\* The record is dispatched and the lane goes on where it left off.
LEMMA ReturnControl ==
  ASSUME Control, Return, pc \in Dispatching, pc # "await", WorldTypeOK', RecordT',
         UNCHANGED <<conf, run, next, limit, fenced, lastSink>>
  PROVE  Control'
<1> USE DEF Control, Typed, Return
<1>1. LaneT'
    BY DEF LaneT, Busy, CurrentOK
<1>2. CurrentOK' /\ FateOK'
    BY DEF CurrentOK, FateOK, Dispatching, LaneT
<1>3. InOrder'
    BY DEF InOrder, LaneT
<1>. QED
    BY <1>1, <1>2, <1>3

\* A dispatched record goes to its next stage.
LEMMA DispatchControl ==
  ASSUME Control, pc \in Dispatching, pc' \in Dispatching, pc' # "await", WorldTypeOK', RecordT',
         UNCHANGED <<conf, run, next, queue, limit, cur, back, fate, fenced>>,
         ready' = ready \ {cur} \/ (ready' = ready /\ pc # "await"),
         \/ pc' = "write" /\ pc \in {"await", "write"} /\ lastSink' = lastSink
         \/ pc' # "write" /\ lastSink' = lastSink
         \/ pc' # "write" /\ pc = "write" /\ lastSink' = cur
  PROVE  Control'
<1> USE DEF Control, Typed
<1>1. LaneT'
    BY DEF LaneT, Busy, Dispatching
<1>2. CurrentOK' /\ FateOK'
    BY DEF CurrentOK, FateOK, Dispatching, LaneT
<1>3. InOrder'
    BY DEF InOrder, LaneT
<1>. QED
    BY <1>1, <1>2, <1>3

\* The start of a run.
LEMMA StartControl == ASSUME Control, StartRun PROVE Control'
<1> USE DEF Control, Typed, StartRun
<1>1. next' \in 1..(N + 1) /\ run' \in 0..MaxRuns
    BY DEF ResumeValues, ResumePosition, WorldTypeOK, LaneT
<1>2. WorldTypeOK' /\ RecordT'
    BY DEF WorldTypeOK, RecordT, world
<1>q. queue' \subseteq Position /\ ready' \subseteq queue' \cup {cur'} /\ fenced' \in BOOLEAN
    OBVIOUS
<1>3. LaneT'
    BY <1>1, <1>q DEF LaneT, Busy
<1>4. CurrentOK' /\ FateOK' /\ InOrder'
    BY <1>1 DEF CurrentOK, FateOK, InOrder, Dispatching
<1>. QED
    BY <1>2, <1>3, <1>4

\* The steps that pull a record or end the source loop.
LEMMA PullControl == ASSUME Control, Pull PROVE Control'
<1> USE DEF Control, Typed
<1>0. pc = "pull" /\ cur = 0 /\ fate = "none" /\ ready \subseteq queue
    BY DEF Pull, Submit, PrefixDrops, SourceEnds, CurrentOK, FateOK, Dispatching
<1>1. CASE Submit
  <2> USE <1>0, <1>1 DEF Submit
  <2>1. next \in 1..N /\ next' \in 1..(N + 1)
    BY DEF LaneT
  <2>2. WorldTypeOK' /\ RecordT'
    BY DEF WorldTypeOK, RecordT, world
  <2>3. LaneT'
    BY <2>1 DEF LaneT, Busy, Position
  <2>4. CurrentOK' /\ FateOK'
    BY DEF CurrentOK, FateOK, Dispatching
  <2>5. InOrder'
    <3>1. \A p \in queue : p \in 1..N /\ lastSink < p /\ p < next
      BY DEF InOrder, LaneT, Position
    <3>2. \A p \in queue' : lastSink < p /\ p < next'
      BY <2>1, <3>1 DEF InOrder, LaneT
    <3>3. QED
      BY <2>1, <3>2 DEF InOrder, LaneT
  <2>. QED
    BY <2>2, <2>3, <2>4, <2>5
<1>2. CASE PrefixDrops
  <2> USE <1>0, <1>2 DEF PrefixDrops
  <2>1. next \in 1..N /\ next' \in 1..(N + 1)
    BY DEF LaneT
  <2>2. WorldTypeOK' /\ RecordT'
    BY <2>1 DEF WorldTypeOK, RecordT, Position
  <2>3. LaneT'
    BY <2>1 DEF LaneT, Busy
  <2>4. CurrentOK' /\ FateOK'
    BY <2>1 DEF CurrentOK, FateOK, Dispatching
  <2>5. InOrder'
    BY <2>1 DEF InOrder, LaneT, Position
  <2>. QED
    BY <2>2, <2>3, <2>4, <2>5
<1>3. CASE SourceEnds
  <2> USE <1>0, <1>3 DEF SourceEnds
  <2>1. WorldTypeOK' /\ RecordT'
    BY DEF WorldTypeOK, RecordT, world
  <2>2. LaneT'
    BY DEF LaneT, Busy
  <2>3. CurrentOK' /\ FateOK' /\ InOrder'
    BY DEF CurrentOK, FateOK, InOrder, Dispatching
  <2>. QED
    BY <2>1, <2>2, <2>3
<1>. QED
    BY <1>1, <1>2, <1>3 DEF Pull

\* The steps between two records: the futures, the limit, the head of the queue.
LEMMA DrainControl ==
  ASSUME Control,
         CompleteFuture \/ LoopHead \/ PopHead \/ LeaveDrain \/ FinalEnd \/ FenceLost
  PROVE  Control'
<1> USE DEF Control, Typed
<1>1. WorldTypeOK' /\ RecordT'
    BY DEF CompleteFuture, LoopHead, PopHead, LeaveDrain, FinalEnd, FenceLost, WorldTypeOK,
       RecordT, world
<1>2. CASE CompleteFuture \/ FenceLost
  <2> USE <1>2 DEF CompleteFuture, FenceLost
  <2>0. UNCHANGED <<pc, run, next, queue, limit, cur, back, fate, lastSink>>
    OBVIOUS
  <2>f. fenced' \in BOOLEAN
    BY DEF LaneT
  <2>s. \A p : p \in queue \cup (IF pc = "await" THEN {cur} ELSE {}) => p \in queue \cup {cur}
    OBVIOUS
  <2>r. ready' \subseteq queue' \cup {cur'}
    BY <2>0, <2>s DEF LaneT
  <2>1. LaneT'
    BY <2>0, <2>f, <2>r DEF LaneT
  <2>2. CurrentOK' /\ FateOK' /\ InOrder'
    BY DEF CurrentOK, FateOK, InOrder
  <2>. QED
    BY <1>1, <2>1, <2>2
<1>3. CASE LoopHead \/ LeaveDrain \/ FinalEnd
  <2> USE <1>3 DEF LoopHead, LeaveDrain, FinalEnd
  <2>1. LaneT'
    BY DEF LaneT, Halted, Busy, NextLimit
  <2>2. CurrentOK' /\ FateOK' /\ InOrder'
    BY DEF CurrentOK, FateOK, InOrder, Dispatching
  <2>. QED
    BY <1>1, <2>1, <2>2
<1>4. CASE PopHead
  <2> USE <1>4 DEF PopHead
  <2>0. cur = 0 /\ ready \subseteq queue
    BY DEF CurrentOK, Dispatching
  <2>1. /\ cur' \in queue /\ cur' \in 1..N /\ \A q \in queue : cur' <= q
        /\ queue' = queue \ {cur'} /\ queue \subseteq 1..N
    BY OldestIn DEF Popped, LaneT, Position
  <2>q. /\ queue' \subseteq Position /\ ready' \subseteq queue' \cup {cur'}
        /\ back' \in {"loop", "drain", "final"}
    BY <2>0, <2>1 DEF Position
  <2>2. LaneT'
    BY <2>1, <2>q DEF LaneT, Busy
  <2>3. CurrentOK' /\ FateOK'
    BY <2>1 DEF CurrentOK, FateOK, Dispatching
  <2>4. InOrder'
    BY <2>1 DEF InOrder, LaneT
  <2>. QED
    BY <1>1, <2>2, <2>3, <2>4
<1>. QED
    BY <1>2, <1>3, <1>4

\* The writer and the DLQ.
LEMMA WriteControl ==
  ASSUME Control, Resolve \/ WriteOne \/ RouteMiddlewareFailure \/ RouteSinkFailure
  PROVE  Control'
<1> USE DEF Control, Typed
<1>0. pc \in Dispatching /\ cur \in Position
    BY DEF Resolve, WriteOne, RouteMiddlewareFailure, RouteSinkFailure, CurrentOK, Dispatching,
       LaneT, Position
<1>1. WorldTypeOK'
    BY <1>0 DEF Resolve, WriteOne, RouteMiddlewareFailure, RouteSinkFailure, WorldTypeOK, Captured,
       GivenUp, world
<1>2. RecordT'
    BY DEF Resolve, WriteOne, RouteMiddlewareFailure, RouteSinkFailure, RecordT
<1>3. CASE Resolve
    BY <1>0, <1>1, <1>2, <1>3, DispatchControl DEF Resolve, Dispatching
<1>4. CASE WriteOne
  <2>1. CASE SoftError /\ lastSink' = lastSink
    BY <1>0, <1>1, <1>2, <1>4, <2>1, SoftErrorControl DEF WriteOne
  <2>2. CASE lastSink' = cur /\ pc' \in {"save", "route"}
             /\ UNCHANGED <<queue, ready, cur, back, fate>>
    BY <1>0, <1>1, <1>2, <1>4, <2>2, DispatchControl DEF WriteOne, Dispatching
  <2>3. QED
    BY <1>4, <2>1, <2>2 DEF WriteOne
<1>5. CASE RouteMiddlewareFailure
  <2>1. CASE Abort \/ SoftError \/ Return
    BY <1>0, <1>1, <1>2, <1>5, <2>1, AbortControl, SoftErrorControl, ReturnControl
       DEF RouteMiddlewareFailure
  <2>2. CASE pc' = "save" /\ UNCHANGED <<queue, ready, cur, back, fate>>
    BY <1>0, <1>1, <1>2, <1>5, <2>2, DispatchControl DEF RouteMiddlewareFailure, Dispatching
  <2>3. QED
    BY <1>5, <2>1, <2>2 DEF RouteMiddlewareFailure
<1>6. CASE RouteSinkFailure
  <2>1. CASE Abort \/ SoftError
    BY <1>0, <1>1, <1>2, <1>6, <2>1, AbortControl, SoftErrorControl DEF RouteSinkFailure
  <2>2. CASE pc' = "save" /\ UNCHANGED <<queue, ready, cur, back, fate>>
    BY <1>0, <1>1, <1>2, <1>6, <2>2, DispatchControl DEF RouteSinkFailure, Dispatching
  <2>3. QED
    BY <1>6, <2>1, <2>2 DEF RouteSinkFailure
<1>. QED
    BY <1>3, <1>4, <1>5, <1>6

\* The checkpoint and the hook.
LEMMA CommitControl == ASSUME Control, Save \/ Ack PROVE Control'
<1> USE DEF Control, Typed
<1>0. pc \in Dispatching /\ cur \in Position /\ {cur} \subseteq Position
    BY DEF Save, Ack, CurrentOK, Dispatching, LaneT, Position
<1>1. CASE Save
  <2>1. LastDue(count, last, {cur}) \in 0..N /\ count' \in Nat
    BY <1>0, <1>1, LastDueIn, CountedNat DEF Save, RecordT
  <2>2. WorldTypeOK' /\ RecordT'
    BY <1>1, <2>1 DEF Save, WorldTypeOK, RecordT
  <2>3. CASE Abort
    BY <1>0, <1>1, <2>2, <2>3, AbortControl DEF Save
  <2>4. CASE pc' = "ack" /\ UNCHANGED <<queue, ready, cur, back, fate>>
    BY <1>0, <1>1, <2>2, <2>4, DispatchControl DEF Save, Dispatching
  <2>5. QED
    BY <1>1, <2>3, <2>4 DEF Save
<1>2. CASE Ack
  <2>1. WorldTypeOK' /\ RecordT'
    BY <1>0, <1>2 DEF Ack, WorldTypeOK, RecordT
  <2>2. QED
    BY <1>0, <1>2, <2>1, ReturnControl, SoftErrorControl DEF Ack
<1>. QED
    BY <1>1, <1>2

\* The run's task is cancelled, or the process dies.
LEMMA EndControl == ASSUME Control, Cancel \/ Crash PROVE Control'
<1> USE DEF Control, Typed
<1>1. WorldTypeOK' /\ RecordT'
    BY DEF Cancel, Crash, WorldTypeOK, RecordT, world
<1>2. CASE Cancel
    BY <1>1, <1>2, AbortControl DEF Cancel
<1>3. CASE Crash
  <2>1. LaneT'
    BY <1>3 DEF Crash, LaneT, Halted
  <2>2. CurrentOK' /\ FateOK' /\ InOrder'
    BY <1>3 DEF Crash, CurrentOK, FateOK, InOrder, Dispatching, LaneT
  <2>. QED
    BY <1>1, <2>1, <2>2
<1>. QED
    BY <1>2, <1>3

\* Every step keeps the control invariant.
LEMMA NextControl == Control /\ [Next]_vars => Control'
<1> SUFFICES ASSUME Control, [Next]_vars PROVE Control'
    OBVIOUS
<1>1. CASE UNCHANGED vars
  <2> USE <1>1 DEF vars, lane, world, Control, Typed
  <2>1. WorldTypeOK' /\ RecordT'
    BY DEF WorldTypeOK, RecordT
  <2>2. LaneT'
    BY DEF LaneT
  <2>3. CurrentOK' /\ FateOK' /\ InOrder'
    BY DEF CurrentOK, FateOK, InOrder
  <2>. QED
    BY <2>1, <2>2, <2>3
<1>. QED
    BY <1>1, StartControl, PullControl, DrainControl, WriteControl, CommitControl, EndControl
       DEF Next, LaneStep, Finished

\* The control invariant holds in every state.
LEMMA ControlHolds == Spec => []Control
BY InitControl, NextControl, PTL DEF Spec

\* TypeOK is an invariant of the buffered lane.
THEOREM TypeCorrect == Spec => []TypeOK
<1>1. Control => TypeOK
    BY TypedIsTypeOK DEF Control
<1>2. QED
    BY <1>1, ControlHolds, PTL

\* Records reach the writer in source order, in whatever order the concurrent
\* stages finish them, and whatever the prefix of the chain does.
THEOREM WritesInOrder == Spec => []SinkOrder
<1>1. Control => SinkOrder
    BY DEF Control, Typed, LaneT, InOrder, SinkOrder
<1>2. QED
    BY <1>1, ControlHolds, PTL

-----------------------------------------------------------------------------
(* The limit of the stage.                                                 *)

\* The lane pulls, or will after dispatching the current record.
Pulling == pc = "pull" \/ (pc \in Dispatching /\ back = "pull")

\* There is room for one more record whenever one may be pulled: the limit only
\* moves at the head of the loop, and the queue only grows when pulling.
BoundInv == InFlightBounded /\ (Pulling => Cardinality(queue) < limit)

\* What the provers need to know about the size of the queue.
LEMMA Sizes ==
  ASSUME Typed
  PROVE  /\ Cardinality(queue) \in Nat
         /\ \A p \in queue : Cardinality(queue \ {p}) \in 0..Cardinality(queue)
         /\ \A p : Cardinality(queue \cup {p}) \in 0..(Cardinality(queue) + 1)
         /\ \A S : S = {} => Cardinality(S) = 0
<1>1. IsFiniteSet(queue) /\ Cardinality(queue) \in Nat
    BY CountedNat DEF Typed, LaneT
<1>2. ASSUME NEW p \in queue PROVE Cardinality(queue \ {p}) \in 0..Cardinality(queue)
  <2>1. IsFiniteSet(queue \ {p}) /\ Cardinality(queue \ {p}) = Cardinality(queue) - 1
    BY <1>1, <1>2, FS_RemoveElement
  <2>2. Cardinality(queue \ {p}) \in Nat
    BY <2>1, FS_CardinalityType
  <2>3. QED
    BY <1>1, <2>1, <2>2
<1>3. ASSUME NEW p PROVE Cardinality(queue \cup {p}) \in 0..(Cardinality(queue) + 1)
  <2>1. Cardinality(queue \cup {p}) \in {Cardinality(queue), Cardinality(queue) + 1}
    BY <1>1, FS_AddElement
  <2>2. QED
    BY <1>1, <2>1
<1>4. \A S : S = {} => Cardinality(S) = 0
    BY FS_EmptySet, Zenon
<1>. QED
    BY <1>1, <1>2, <1>3, <1>4

\* Every step keeps the bound.
LEMMA NextBound == Control /\ BoundInv /\ [Next]_vars => BoundInv'
<1> SUFFICES ASSUME Control, BoundInv, [Next]_vars PROVE BoundInv'
    OBVIOUS
<1> USE DEF BoundInv, InFlightBounded, Pulling
<1>t. /\ Typed /\ limit \in MinLimit..MaxLimit /\ MinLimit \in Nat \ {0} /\ MaxLimit \in Nat
      /\ Cardinality(queue) \in Nat
    BY Sizes DEF Control, Typed, LaneT
<1>a. ASSUME queue' = {} , ~Pulling' PROVE BoundInv'
    BY <1>a, <1>t, Sizes
<1>k. ASSUME UNCHANGED <<queue, limit>>, Pulling' => Pulling PROVE BoundInv'
    BY <1>k
<1>1. CASE StartRun
  <2>1. Cardinality(queue') = 0
    BY <1>1, <1>t, Sizes DEF StartRun
  <2>2. QED
    BY <1>1, <1>t, <2>1 DEF StartRun
<1>2. CASE Submit
  <2>1. Cardinality(queue') \in 0..(Cardinality(queue) + 1)
    BY <1>2, <1>t, Sizes DEF Submit
  <2>2. QED
    BY <1>2, <1>t, <2>1 DEF Submit, Dispatching
<1>3. CASE PrefixDrops \/ SourceEnds
    BY <1>3, <1>k DEF PrefixDrops, SourceEnds, Dispatching
<1>4. CASE LoopHead
    BY <1>4, <1>t DEF LoopHead, Full, Dispatching
<1>5. CASE LeaveDrain
    BY <1>5, <1>t DEF LeaveDrain, Full, Dispatching
<1>6. CASE PopHead
  <2>1. queue' = queue \ {Oldest(queue)} /\ Oldest(queue) \in queue
    BY <1>6, <1>t, OldestIn DEF PopHead, Popped
  <2>2. Cardinality(queue') \in 0..Cardinality(queue)
    BY <1>t, <2>1, Sizes
  <2>3. QED
    BY <1>6, <1>t, <2>2 DEF PopHead
<1>7. CASE CompleteFuture \/ FenceLost \/ FinalEnd \/ UNCHANGED vars
    BY <1>7, <1>k DEF CompleteFuture, FenceLost, FinalEnd, vars, lane, Dispatching
<1>s. ASSUME Abort \/ SoftError \/ Return, pc \in Dispatching, limit' = limit PROVE BoundInv'
    BY <1>s, <1>a, <1>k DEF Abort, SoftError, Return, Dispatching
<1>8. CASE Resolve
    BY <1>8, <1>k DEF Resolve, Dispatching
<1>9. CASE WriteOne \/ RouteMiddlewareFailure \/ RouteSinkFailure
    BY <1>9, <1>s, <1>k DEF WriteOne, RouteMiddlewareFailure, RouteSinkFailure, Dispatching
<1>10. CASE Save \/ Ack
    BY <1>10, <1>s, <1>k DEF Save, Ack, Dispatching
<1>11. CASE Cancel \/ Crash
    BY <1>11, <1>a DEF Cancel, Crash, Abort, Dispatching
<1>. QED
    BY <1>1, <1>2, <1>3, <1>4, <1>5, <1>6, <1>7, <1>8, <1>9, <1>10, <1>11
       DEF Next, Pull, LaneStep, Finished

\* Backpressure is real: never more than the greatest stage limit in flight,
\* however the limit adapts while the queue is full.
THEOREM InFlightIsBounded == Spec => []InFlightBounded
<1>1. Init => BoundInv
    BY FS_EmptySet DEF Init, BoundInv, InFlightBounded, Pulling, Dispatching
<1>2. BoundInv => InFlightBounded
    BY DEF BoundInv
<1>3. QED
    BY <1>1, <1>2, NextBound, ControlHolds, PTL DEF Spec

-----------------------------------------------------------------------------
(* Acknowledgements.                                                       *)

Accounted == written \cup dead \cup dropped

\* A hook is carried only by a record that is accounted for.
AckedInv ==
  /\ AckedIsAccountedFor
  /\ pc = "route" /\ stage = "partial" => cur \in written
  /\ pc \in {"save", "ack"} /\ hook = "carried" => cur \in Accounted

\* A record that is accounted for, or given up, stays so.
LEMMA AccountedGrows ==
  [Next]_vars => written \subseteq written' /\ dead \subseteq dead' /\ dropped \subseteq dropped'
                 /\ skipped \subseteq skipped'
<1> SUFFICES ASSUME [Next]_vars
             PROVE  written \subseteq written' /\ dead \subseteq dead' /\ dropped \subseteq dropped'
                    /\ skipped \subseteq skipped'
    OBVIOUS
<1>1. CASE PrefixDrops \/ Resolve \/ WriteOne
    BY <1>1 DEF PrefixDrops, Resolve, WriteOne
<1>2. CASE RouteMiddlewareFailure \/ RouteSinkFailure
    BY <1>2 DEF RouteMiddlewareFailure, RouteSinkFailure
<1>3. CASE UNCHANGED <<written, dead, dropped, skipped>>
    BY <1>3
<1>. QED
    BY <1>1, <1>2, <1>3 DEF Next, StartRun, Pull, Submit, SourceEnds, LaneStep, CompleteFuture,
       LoopHead, PopHead, LeaveDrain, FinalEnd, Save, Ack, FenceLost, Cancel, Crash, Finished,
       vars, lane, world

\* Every step keeps the acknowledgement invariant.
LEMMA NextAcked == Control /\ AckedInv /\ [Next]_vars => AckedInv'
<1> SUFFICES ASSUME Control, AckedInv, [Next]_vars PROVE AckedInv'
    OBVIOUS
<1>g. written \subseteq written' /\ Accounted \subseteq Accounted'
    BY AccountedGrows DEF Accounted
<1> USE DEF AckedInv, AckedIsAccountedFor
<1>a. acked \subseteq Accounted
    BY DEF Accounted
<1>k. ASSUME acked' = acked, pc' \notin {"route", "save", "ack"} PROVE AckedInv'
    BY <1>g, <1>k, <1>a DEF Accounted
<1>u. ASSUME acked' = acked, UNCHANGED <<pc, stage, hook, cur>> PROVE AckedInv'
    BY <1>g, <1>u, <1>a DEF Accounted
<1>e. ASSUME acked' = acked, Abort \/ SoftError \/ Return PROVE AckedInv'
    BY <1>e, <1>k DEF Abort, SoftError, Return, Control, Typed, LaneT
<1>1. CASE Submit \/ SourceEnds \/ LoopHead \/ PopHead \/ LeaveDrain \/ FinalEnd \/ StartRun
    BY <1>1, <1>k DEF Submit, SourceEnds, LoopHead, PopHead, LeaveDrain, FinalEnd, StartRun, world
<1>2. CASE CompleteFuture \/ FenceLost \/ UNCHANGED vars
    BY <1>2, <1>u DEF CompleteFuture, FenceLost, vars, lane, world
<1>3. CASE Cancel \/ Crash
    BY <1>3, <1>k DEF Cancel, Crash, Abort, world
<1>4. CASE PrefixDrops \/ Resolve
    BY <1>4, <1>g, <1>a, <1>k DEF PrefixDrops, Resolve, Accounted
<1>5. CASE WriteOne
    BY <1>5, <1>g, <1>a, <1>e DEF WriteOne, Accounted
<1>6. CASE RouteMiddlewareFailure
  <2>1. CASE Abort \/ SoftError \/ Return
    BY <1>6, <2>1, <1>e DEF RouteMiddlewareFailure
  <2>2. CASE pc' = "save" /\ cur' = cur /\ cur \in Accounted'
    BY <1>6, <2>2, <1>g, <1>a DEF RouteMiddlewareFailure, Accounted
  <2>3. QED
    BY <1>6, <2>1, <2>2 DEF RouteMiddlewareFailure, FencedRoutes, Routes, Captured, Accounted
<1>7. CASE RouteSinkFailure
  <2>1. CASE Abort \/ SoftError
    BY <1>7, <2>1, <1>e DEF RouteSinkFailure
  <2>2. CASE pc' = "save" /\ cur' = cur /\ (hook' = "carried" => cur \in Accounted')
    BY <1>7, <2>2, <1>g, <1>a DEF RouteSinkFailure, Accounted
  <2>3. QED
    BY <1>7, <2>1, <2>2 DEF RouteSinkFailure, AckDue, Captured, Accounted
<1>8. CASE Save
    BY <1>8, <1>e, <1>g, <1>a DEF Save, Accounted
<1>9. CASE Ack
  <2>1. CASE acked' = acked
    BY <1>9, <2>1, <1>e DEF Ack
  <2>2. CASE Return /\ hook = "carried" /\ acked' = acked \cup {cur}
    <3>1. pc' \notin {"route", "save", "ack"}
      BY <2>2 DEF Return, Control, Typed, LaneT
    <3>2. acked' \subseteq Accounted'
      BY <1>9, <1>g, <1>a, <2>2 DEF Ack
    <3>3. QED
      BY <3>1, <3>2 DEF Accounted
  <2>3. QED
    BY <1>9, <2>1, <2>2 DEF Ack
<1>. QED
    BY <1>1, <1>2, <1>3, <1>4, <1>5, <1>6, <1>7, <1>8, <1>9
       DEF Next, Pull, LaneStep, Finished

\* The source is told only about records that were written, captured by the DLQ
\* or dropped.
THEOREM AcknowledgedIsAccountedFor == Spec => []AckedIsAccountedFor
<1>1. Init => AckedInv
    BY DEF Init, WorldInit, AckedInv, AckedIsAccountedFor, Accounted
<1>2. AckedInv => AckedIsAccountedFor
    BY DEF AckedInv
<1>3. QED
    BY <1>1, <1>2, NextAcked, ControlHolds, PTL DEF Spec

-----------------------------------------------------------------------------
(* Coverage.  A record the prefix drops is committed ahead of the queue,   *)
(* and a DLQ that raises leaves a record behind whose followers are still  *)
(* drained and checkpointed: the theorems are about the configurations in  *)
(* which neither can reach the store.                                      *)

\* There is no store, or the prefix keeps every record and the DLQ does not raise.
KeepsOrder(c) ==
  c.store => c.mw \subseteq {"value"} /\ (c.dlq => c.dlqPolicy # RAISE)

\* Nothing was lost on the way: no failure has ended the source loop, or one did
\* but what it left is handled and the lease still there.
Going == pc \in Busy /\ (fate # "error" \/ (conf.store /\ ~fenced))

\* Behind the cursor, a record is handled, queued or being dispatched.
NothingLost == Going => 1..(next - 1) \subseteq Handled \cup queue \cup {cur}

\* A dispatched record lies in front of the queue where its checkpoint counts,
\* and is handled before its checkpoint is looked at.
CurrentCovers ==
  /\ conf.store => \A p \in queue : cur < p
  /\ pc \in {"save", "ack"} => cur \in Handled

Covered == CheckpointCovers /\ NothingLost /\ CurrentCovers /\ CompletedRunHandledAll

\* A terminal outcome is never taken back, in this run or a later one.
LEMMA HandledGrows == [Next]_vars => Handled \subseteq Handled'
BY AccountedGrows DEF Handled

\* Nothing is claimed for a run that is over without having completed.
LEMMA EndedCovered ==
  ASSUME Covered, Control, Handled \subseteq Handled', durable' = durable,
         pc' \in {"failed", "idle"}, queue' = {}
  PROVE  Covered'
<1>1. CheckpointCovers'
    BY DEF Covered, CheckpointCovers
<1>2. NothingLost' /\ CurrentCovers' /\ CompletedRunHandledAll'
    BY DEF NothingLost, Going, CurrentCovers, CompletedRunHandledAll, Busy
<1>. QED
    BY <1>1, <1>2 DEF Covered

\* A run that is not over: three conjuncts of the invariant to look at.
LEMMA BusyCovered ==
  ASSUME Covered, Handled \subseteq Handled', durable' = durable, pc' \in Busy, NothingLost',
         CurrentCovers'
  PROVE  Covered'
BY DEF Covered, CheckpointCovers, CompletedRunHandledAll, Busy

\* The record is handled and the lane goes on where it left off, or drains the
\* queue after an error; without a store or without the lease the record need
\* not be handled.
LEMMA LeftCovered ==
  ASSUME Control, Covered, Handled \subseteq Handled', durable' = durable, pc \in Dispatching,
         UNCHANGED <<conf, next, fenced>>,
         \/ Return /\ cur \in Handled'
         \/ SoftError /\ (cur \in Handled' \/ ~conf.store \/ fenced)
  PROVE  Covered'
<1> USE DEF Control, Typed
<1>1. CASE Abort
    BY <1>1, EndedCovered DEF Abort
<1>2. CASE ~Abort
  <2>1. /\ pc' \in {"pull", "loop", "drain", "final"} /\ cur' = 0 /\ queue' = queue
        /\ \/ fate' = fate /\ cur \in Handled'
           \/ fate' = "error" /\ (cur \in Handled' \/ ~conf.store \/ fenced)
    BY <1>2 DEF Return, SoftError, LaneT
  <2>2. NothingLost'
    <3>1. SUFFICES ASSUME Going' PROVE 1..(next - 1) \subseteq Handled' \cup queue \cup {0}
      BY <2>1 DEF NothingLost
    <3>2. cur \in Handled'
      BY <2>1, <3>1 DEF Going
    <3>3. Going
      BY <2>1, <3>1 DEF Going, Busy, Dispatching, SoftError, FateOK
    <3>4. QED
      BY <3>2, <3>3 DEF Covered, NothingLost
  <2>3. CurrentCovers'
    BY <2>1 DEF CurrentCovers, LaneT, Position
  <2>4. QED
    BY <2>1, <2>2, <2>3, BusyCovered DEF Busy
<1>. QED
    BY <1>1, <1>2

\* The record stays the current one.
LEMMA StaysCovered ==
  ASSUME Control, Covered, Handled \subseteq Handled', durable' = durable, pc \in Busy,
         pc' \in Busy, UNCHANGED <<conf, next, cur, queue>>,
         fenced => fenced', fate' = fate \/ fate = "none",
         pc' \in {"save", "ack"} => cur \in Handled'
  PROVE  Covered'
<1>1. NothingLost'
    BY DEF Covered, NothingLost, Going
<1>2. CurrentCovers'
    BY DEF Covered, CurrentCovers
<1>. QED
    BY <1>1, <1>2, BusyCovered

\* The start of a run, and the steps that pull a record.
LEMMA PullCovered ==
  ASSUME Control, Covered, Handled \subseteq Handled', KeepsOrder(conf), StartRun \/ Pull
  PROVE  Covered'
<1> USE DEF Control, Typed
<1>1. CASE StartRun
  <2> USE <1>1 DEF StartRun, world
  <2>1. next' = 1 \/ next' = durable + 1
    BY DEF ResumeValues, ResumePosition
  <2>2. NothingLost' /\ CurrentCovers'
    BY <2>1 DEF NothingLost, CurrentCovers, Covered, CheckpointCovers, WorldTypeOK
  <2>3. QED
    BY <2>2, BusyCovered DEF Busy
<1>0. CASE Pull
  <2>0. pc = "pull" /\ cur = 0 /\ fate = "none" /\ pc \in Busy
    BY <1>0 DEF Pull, Submit, PrefixDrops, SourceEnds, CurrentOK, FateOK, Dispatching, Busy
  <2>l. 1..(next - 1) \subseteq Handled \cup queue \cup {0}
    BY <2>0 DEF Covered, NothingLost, Going
  <2>1. CASE Submit
    <3> USE <2>1 DEF Submit, world
    <3>1. next \in 1..N /\ queue \subseteq 1..N
      BY DEF LaneT, Position
    <3>2. NothingLost'
      BY <2>0, <2>l, <3>1 DEF NothingLost
    <3>3. CurrentCovers'
      BY <2>0, <3>1 DEF CurrentCovers
    <3>4. QED
      BY <3>2, <3>3, BusyCovered DEF Busy
  <2>2. CASE PrefixDrops
    <3> USE <2>2 DEF PrefixDrops
    <3>1. next \in 1..N /\ ~conf.store
      BY DEF LaneT, KeepsOrder
    <3>2. NothingLost'
      BY <2>0, <2>l, <3>1 DEF NothingLost
    <3>3. CurrentCovers'
      BY <2>0, <3>1 DEF CurrentCovers, Handled
    <3>4. QED
      BY <3>2, <3>3, BusyCovered DEF Busy
  <2>3. CASE SourceEnds
    BY <2>0, <2>3, StaysCovered DEF SourceEnds, world, Busy
  <2>. QED
    BY <1>0, <2>1, <2>2, <2>3 DEF Pull
<1>. QED
    BY <1>0, <1>1

\* The steps between two records.
LEMMA DrainCovered ==
  ASSUME Control, Covered, Handled \subseteq Handled',
         CompleteFuture \/ LoopHead \/ PopHead \/ LeaveDrain \/ FinalEnd \/ FenceLost
  PROVE  Covered'
<1> USE DEF Control, Typed
<1>1. CASE CompleteFuture \/ FenceLost
    BY <1>1, StaysCovered DEF CompleteFuture, FenceLost, world, Covered, CurrentCovers
<1>2. CASE LoopHead \/ LeaveDrain
    BY <1>2, StaysCovered DEF LoopHead, LeaveDrain, world, Busy
<1>3. CASE PopHead
  <2> USE <1>3 DEF PopHead
  <2>0. cur = 0 /\ pc \in Busy
    BY DEF CurrentOK, Dispatching, Busy
  <2>1. /\ cur' \in queue /\ cur' \in 1..N /\ \A q \in queue : cur' <= q
        /\ queue' = queue \ {cur'} /\ queue \subseteq 1..N
    BY OldestIn DEF Popped, LaneT, Position
  <2>2. NothingLost'
    <3>1. SUFFICES ASSUME Going' PROVE 1..(next - 1) \subseteq Handled' \cup queue' \cup {cur'}
      BY DEF NothingLost
    <3>2. 1..(next - 1) \subseteq Handled \cup queue \cup {0}
      BY <2>0, <3>1 DEF Covered, NothingLost, Going
    <3>3. QED
      BY <2>1, <3>2
  <2>3. CurrentCovers'
    BY <2>1 DEF CurrentCovers
  <2>4. QED
    BY <2>2, <2>3, BusyCovered DEF Busy, world
<1>4. CASE FinalEnd
  <2> USE <1>4 DEF FinalEnd
  <2>1. CASE fate # "ok"
    BY <2>1, EndedCovered DEF world
  <2>2. CASE fate = "ok"
    <3>1. Position \subseteq Handled
      BY <2>2 DEF Covered, NothingLost, Going, Busy, FateOK, CurrentOK, Dispatching, Position
    <3>2. CheckpointCovers' /\ CompletedRunHandledAll'
      BY <3>1 DEF Covered, CheckpointCovers, CompletedRunHandledAll, world
    <3>3. NothingLost' /\ CurrentCovers'
      BY <2>2 DEF NothingLost, Going, CurrentCovers, Busy
    <3>4. QED
      BY <3>2, <3>3 DEF Covered
  <2>3. QED
    BY <2>1, <2>2
<1>. QED
    BY <1>1, <1>2, <1>3, <1>4

\* The writer and the DLQ.
LEMMA WriteCovered ==
  ASSUME Control, Covered, Handled \subseteq Handled', KeepsOrder(conf),
         Resolve \/ WriteOne \/ RouteMiddlewareFailure \/ RouteSinkFailure
  PROVE  Covered'
<1> USE DEF Control, Typed
<1>0. pc \in Dispatching /\ pc \in Busy
    BY DEF Resolve, WriteOne, RouteMiddlewareFailure, RouteSinkFailure, Dispatching, Busy
<1>r. conf.store => "raised" \notin FencedRoutes
    BY DEF KeepsOrder, FencedRoutes, Routes
<1>1. CASE Resolve
    BY <1>0, <1>1, StaysCovered DEF Resolve, Busy, Handled
<1>2. CASE WriteOne
  <2>1. CASE fenced /\ SoftError
    BY <1>0, <1>2, <2>1, LeftCovered DEF WriteOne
  <2>2. CASE /\ pc' \in {"save", "route"} /\ UNCHANGED <<queue, cur, fate>>
             /\ pc' = "save" => cur \in Handled'
    BY <1>0, <1>2, <2>2, StaysCovered DEF WriteOne, Busy
  <2>3. QED
    BY <1>2, <2>1, <2>2 DEF WriteOne, Handled
<1>3. CASE RouteMiddlewareFailure
  <2>1. CASE Abort
    BY <1>3, <2>1, EndedCovered DEF RouteMiddlewareFailure, Abort
  <2>2. CASE SoftError /\ ~conf.store
    BY <1>0, <1>3, <2>2, LeftCovered DEF RouteMiddlewareFailure
  <2>3. CASE Return /\ cur \in Handled'
    BY <1>0, <1>3, <2>3, LeftCovered DEF RouteMiddlewareFailure
  <2>4. CASE pc' = "save" /\ UNCHANGED <<queue, cur, fate>> /\ cur \in Handled'
    BY <1>0, <1>3, <2>4, StaysCovered DEF RouteMiddlewareFailure, Busy
  <2>5. QED
    BY <1>3, <1>r, <2>1, <2>2, <2>3, <2>4 DEF RouteMiddlewareFailure, Handled, Captured,
       FencedRoutes, Routes
<1>4. CASE RouteSinkFailure
  <2>1. CASE Abort
    BY <1>4, <2>1, EndedCovered DEF RouteSinkFailure, Abort
  <2>2. CASE SoftError /\ ~conf.store
    BY <1>0, <1>4, <2>2, LeftCovered DEF RouteSinkFailure
  <2>3. CASE pc' = "save" /\ UNCHANGED <<queue, cur, fate>> /\ cur \in Handled'
    BY <1>0, <1>4, <2>3, StaysCovered DEF RouteSinkFailure, Busy
  <2>4. QED
    BY <1>4, <1>r, <2>1, <2>2, <2>3 DEF RouteSinkFailure, Handled, Captured, GivenUp, Continues
<1>. QED
    BY <1>1, <1>2, <1>3, <1>4

\* What a save stores is covered.
LEMMA SavedIsCovered ==
  ASSUME Control, Covered, Save, durable' # durable
  PROVE  durable' \in 0..N /\ 1..durable' \subseteq Handled
<1> USE DEF Control, Typed
<1>0. cur \in 1..N /\ {cur} \subseteq Position
    BY DEF Save, CurrentOK, Dispatching, LaneT, Position
<1>1. durable' = LastDue(count, last, {cur}) /\ durable' # 0 /\ ~fenced
    BY DEF Save
<1>2. durable' = cur /\ conf.store
    BY <1>0, <1>1, LastDueIn
<1>3. 1..(next - 1) \subseteq Handled \cup queue \cup {cur}
    BY <1>1, <1>2 DEF Save, Covered, NothingLost, Going, Busy
<1>4. cur \in Handled /\ cur < next /\ next \in 1..(N + 1) /\ queue \subseteq 1..N
    BY DEF Save, Covered, CurrentCovers, InOrder, LaneT, Position
<1>5. \A p \in queue : cur < p
    BY <1>2 DEF Covered, CurrentCovers
<1>. QED
    BY <1>0, <1>2, <1>3, <1>4, <1>5

\* The checkpoint and the hook.
LEMMA CommitCovered ==
  ASSUME Control, Covered, Handled \subseteq Handled', Save \/ Ack
  PROVE  Covered'
<1> USE DEF Control, Typed
<1>0. pc \in Dispatching /\ pc \in Busy /\ cur \in Handled'
    BY DEF Save, Ack, Covered, CurrentCovers, Dispatching, Busy
<1>1. CASE Save /\ durable' = durable
    BY <1>0, <1>1, EndedCovered, StaysCovered DEF Save, Abort, Busy
<1>2. CASE Save /\ durable' # durable
  <2>1. CheckpointCovers'
    BY <1>2, SavedIsCovered DEF CheckpointCovers
  <2>2. pc' = "ack" /\ UNCHANGED <<conf, next, cur, queue, fenced, fate>>
    BY <1>2 DEF Save
  <2>3. NothingLost' /\ CurrentCovers' /\ CompletedRunHandledAll'
    BY <1>0, <2>2 DEF Covered, NothingLost, Going, CurrentCovers, CompletedRunHandledAll, Busy
  <2>4. QED
    BY <2>1, <2>3 DEF Covered
<1>3. CASE Ack
    BY <1>0, <1>3, LeftCovered DEF Ack
<1>. QED
    BY <1>1, <1>2, <1>3

\* The configuration is fixed at the start.
LEMMA SameConfig == [Next]_vars => conf' = conf
BY DEF Next, StartRun, Pull, Submit, PrefixDrops, SourceEnds, LaneStep, LoopHead, PopHead,
   LeaveDrain, FinalEnd, Resolve, WriteOne, RouteMiddlewareFailure, RouteSinkFailure, Save, Ack,
   CompleteFuture, FenceLost, Cancel, Crash, Finished, Abort, SoftError, Return, vars, world

\* Every step keeps the coverage invariant.
LEMMA NextCovered ==
  ASSUME KeepsOrder(conf), Control, Covered, [Next]_vars
  PROVE  Covered'
<1>1. Handled \subseteq Handled'
    BY HandledGrows
<1>2. CASE UNCHANGED vars
  <2>1. CheckpointCovers' /\ NothingLost' /\ CurrentCovers' /\ CompletedRunHandledAll'
    BY <1>1, <1>2 DEF vars, lane, world, Covered, CheckpointCovers, NothingLost, Going,
       CurrentCovers, CompletedRunHandledAll
  <2>2. QED
    BY <2>1 DEF Covered
<1>3. CASE Cancel \/ Crash
    BY <1>1, <1>3, EndedCovered DEF Cancel, Crash, Abort, world
<1>. QED
    BY <1>1, <1>2, <1>3, PullCovered, DrainCovered, WriteCovered, CommitCovered
       DEF Next, LaneStep, Finished

\* The coverage invariant holds in every state.
LEMMA CoverageInvariant == KeepsOrder(conf) /\ Spec => [](Control /\ Covered)
<1>1. Init => Covered
    BY DEF Init, WorldInit, Covered, CheckpointCovers, NothingLost, Going, CurrentCovers,
       CompletedRunHandledAll, Busy
<1>2. Control /\ KeepsOrder(conf) /\ Covered /\ [Next]_vars => KeepsOrder(conf)' /\ Covered'
    BY NextCovered, SameConfig DEF KeepsOrder
<1>3. QED
    BY <1>1, <1>2, InitControl, NextControl, PTL DEF Spec

\* The stored position has nothing unhandled at or below it, although the stages
\* finish out of order and a lost lease or a failing hook drains what is left.
THEOREM CheckpointIsCovered == KeepsOrder(conf) /\ Spec => []CheckpointCovers
<1>1. Covered => CheckpointCovers
    BY DEF Covered
<1>2. QED
    BY <1>1, CoverageInvariant, PTL

\* A run that reports completion has left no record in the queue, in a future or
\* in the drain.
THEOREM CompletionIsComplete == KeepsOrder(conf) /\ Spec => []CompletedRunHandledAll
<1>1. Covered => CompletedRunHandledAll
    BY DEF Covered
<1>2. QED
    BY <1>1, CoverageInvariant, PTL

\* The buffered lane implements CheckpointContract: a step handles records, saves
\* a covered position, or does not show.
THEOREM KeepsTheContract == KeepsOrder(conf) /\ Spec => KeepsContract
<1>1. Init => Contract!Init
    BY DEF Init, WorldInit, Contract!Init, Handled
<1>2. ASSUME Control, Covered, Control', [Next]_vars
      PROVE  [Contract!Next]_(Contract!vars)
  <2> USE <1>2 DEF Contract!Next, Contract!vars, Contract!Handle, Contract!Save
  <2>1. Handled \subseteq Handled' /\ Handled' \in SUBSET (1..N)
    BY HandledGrows DEF Control, Typed, WorldTypeOK, Position, Handled
  <2>2. CASE UNCHANGED durable
    BY <2>1, <2>2
  <2>3. CASE Save /\ durable' # durable
    <3>1. Handled' = Handled
      BY SMTT(60), <2>3 DEF Save, Handled
    <3>2. QED
      BY <2>3, <3>1, SavedIsCovered
  <2>4. QED
    BY <2>2, <2>3 DEF Next, StartRun, Pull, Submit, PrefixDrops, SourceEnds, LaneStep, LoopHead,
       PopHead, LeaveDrain, FinalEnd, Resolve, WriteOne, RouteMiddlewareFailure,
       RouteSinkFailure, Ack, CompleteFuture, FenceLost, Cancel, Crash, Finished, vars, world
<1>3. QED
    BY <1>1, <1>2, CoverageInvariant, PTL DEF Spec, KeepsContract, Contract!Spec

-----------------------------------------------------------------------------
(* The lanes together.  A behaviour of LanesSpec is one of the lane its    *)
(* configuration selects; what is proved of the lanes therefore holds of   *)
(* LanesSpec, the specification the run checks.                            *)

BTP == INSTANCE BatchLane_proofs
QLP == INSTANCE BatchedLane_proofs

\* The lane the proofs are about is the lane of MCLanes.
LEMMA SameBatchLane ==
  /\ BT!Init <=> BTP!Init
  /\ [BT!Next]_(BT!vars) <=> [BTP!Next]_(BTP!vars)
  /\ BT!TypeOK <=> BTP!TypeOK
  /\ BT!SinkOrder <=> BTP!SinkOrder
  /\ BT!InFlightBounded <=> BTP!InFlightBounded
BY SMTT(60) DEF
   BT!final, BTP!final, BT!lane, BTP!lane, BT!vars, BTP!vars, BT!Halted, BTP!Halted, BT!Busy,
   BTP!Busy, BT!TypeOK, BTP!TypeOK, BT!Init, BTP!Init, BT!ClearFinal, BTP!ClearFinal,
   BT!ResumePosition, BTP!ResumePosition, BT!StartRun, BTP!StartRun, BT!Abort, BTP!Abort,
   BT!SoftError, BTP!SoftError, BT!Return, BTP!Return, BT!First, BTP!First, BT!Full, BTP!Full,
   BT!NextBatches, BTP!NextBatches, BT!RouteBatch, BTP!RouteBatch, BT!SaveBatch, BTP!SaveBatch,
   BT!Submit, BTP!Submit, BT!PrefixFinalizes, BTP!PrefixFinalizes, BT!SourceEnds, BTP!SourceEnds,
   BT!CompleteFuture, BTP!CompleteFuture, BT!LoopHead, BTP!LoopHead, BT!OldestBatch,
   BTP!OldestBatch, BT!Popped, BTP!Popped, BT!PopHead, BTP!PopHead, BT!LeaveDrain,
   BTP!LeaveDrain, BT!FinalEnd, BTP!FinalEnd, BT!Resolve, BTP!Resolve, BT!OutcomesDue,
   BTP!OutcomesDue, BT!WriteAccepted, BTP!WriteAccepted, BT!WriteMixed, BTP!WriteMixed,
   BT!FailedRows, BTP!FailedRows, BT!WriteRaises, BTP!WriteRaises, BT!WriteFenced,
   BTP!WriteFenced, BT!FencedRoutes, BTP!FencedRoutes, BT!RouteOne, BTP!RouteOne, BT!Mispaired,
   BTP!Mispaired, BT!GoesOn, BTP!GoesOn, BT!BatchAcks, BTP!BatchAcks, BT!Failed, BTP!Failed,
   BT!RouteEnd, BTP!RouteEnd, BT!ResolveOne, BTP!ResolveOne, BT!CommitOutcomes,
   BTP!CommitOutcomes, BT!Persist, BTP!Persist, BT!RunHook, BTP!RunHook, BT!BatchEnd,
   BTP!BatchEnd, BT!FenceLost, BTP!FenceLost, BT!Cancel, BTP!Cancel, BT!Crash, BTP!Crash,
   BT!Finished, BTP!Finished, BT!LaneStep, BTP!LaneStep, BT!Pull, BTP!Pull, BT!Next, BTP!Next,
   BT!AckedIsAccountedFor, BTP!AckedIsAccountedFor, BT!SinkOrder, BTP!SinkOrder,
   BT!InFlightBounded, BTP!InFlightBounded, BT!FAIL_CLOSED, BTP!FAIL_CLOSED, BT!LOG_AND_CONTINUE,
   BTP!LOG_AND_CONTINUE, BT!LOG_ONLY, BTP!LOG_ONLY, BT!RAISE, BTP!RAISE, BT!ConfigType,
   BTP!ConfigType, BT!world, BTP!world, BT!Position, BTP!Position, BT!WorldTypeOK,
   BTP!WorldTypeOK, BT!WorldInit, BTP!WorldInit, BT!Handled, BTP!Handled, BT!ShouldSave,
   BTP!ShouldSave, BT!Counted, BTP!Counted, BT!Latest, BTP!Latest, BT!LastDue, BTP!LastDue,
   BT!BatchEndDue, BTP!BatchEndDue, BT!ResumeValues, BTP!ResumeValues, BT!LoadMayAbort,
   BTP!LoadMayAbort, BT!Routes, BTP!Routes, BT!Captured, BTP!Captured, BT!Continues,
   BTP!Continues, BT!GivenUp, BTP!GivenUp, BT!AckDue, BTP!AckDue, BT!Cardinality,
   BTP!Cardinality, BT!IsFiniteSet, BTP!IsFiniteSet

\* The same for the lane with a write queue.
LEMMA SameQueueLane ==
  /\ QL!Init <=> QLP!Init
  /\ [QL!Next]_(QL!vars) <=> [QLP!Next]_(QLP!vars)
  /\ QL!TypeOK <=> QLP!TypeOK
  /\ QL!ReplayWindow <=> QLP!ReplayWindow
BY ZenonT(90) DEF
   QL!pump, QLP!pump, QL!ckst, QLP!ckst, QL!flush, QLP!flush, QL!owner, QLP!owner, QL!vars,
   QLP!vars, QL!Halted, QLP!Halted, QL!Busy, QLP!Busy, QL!Alive, QLP!Alive, QL!TypeOK,
   QLP!TypeOK, QL!Fresh, QLP!Fresh, QL!Init, QLP!Init, QL!TakeBatch, QLP!TakeBatch,
   QL!FlushEndsWith, QLP!FlushEndsWith, QL!WriteAccepted, QLP!WriteAccepted, QL!WriteMixed,
   QLP!WriteMixed, QL!WriteRaises, QLP!WriteRaises, QL!WriteFenced, QLP!WriteFenced, QL!First,
   QLP!First, QL!ResolveOne, QLP!ResolveOne, QL!StopAt, QLP!StopAt, QL!PrepareOutcomes,
   QLP!PrepareOutcomes, QL!RouteOne, QLP!RouteOne, QL!PersistBatch, QLP!PersistBatch, QL!RunHook,
   QLP!RunHook, QL!FlushReturns, QLP!FlushReturns, QL!FlushStep, QLP!FlushStep,
   QL!ResumePosition, QLP!ResumePosition, QL!StartRun, QLP!StartRun, QL!SignalClose,
   QLP!SignalClose, QL!EndLoop, QLP!EndLoop, QL!EndOfStream, QLP!EndOfStream, QL!SourceFails,
   QLP!SourceFails, QL!AtCapacity, QLP!AtCapacity, QL!Enqueue, QLP!Enqueue, QL!CheckCapacity,
   QLP!CheckCapacity, QL!AwaitFlushed, QLP!AwaitFlushed, QL!DropRecord, QLP!DropRecord,
   QL!MiddlewareFails, QLP!MiddlewareFails, QL!RouteDropped, QLP!RouteDropped, QL!PersistDropped,
   QLP!PersistDropped, QL!AckDropped, QLP!AckDropped, QL!OwnerClosed, QLP!OwnerClosed,
   QL!WaitIsTimed, QLP!WaitIsTimed, QL!OwnerLoop, QLP!OwnerLoop, QL!OwnerNotified,
   QLP!OwnerNotified, QL!OwnerTimeout, QLP!OwnerTimeout, QL!OwnerStep, QLP!OwnerStep, QL!Crash,
   QLP!Crash, QL!Cancel, QLP!Cancel, QL!Finished, QLP!Finished, QL!PumpStep, QLP!PumpStep,
   QL!Pull, QLP!Pull, QL!Next, QLP!Next, QL!AckedIsAccountedFor, QLP!AckedIsAccountedFor,
   QL!ReplayWindow, QLP!ReplayWindow, QL!FAIL_CLOSED, QLP!FAIL_CLOSED, QL!LOG_AND_CONTINUE,
   QLP!LOG_AND_CONTINUE, QL!LOG_ONLY, QLP!LOG_ONLY, QL!RAISE, QLP!RAISE, QL!ConfigType,
   QLP!ConfigType, QL!world, QLP!world, QL!Position, QLP!Position, QL!WorldTypeOK,
   QLP!WorldTypeOK, QL!WorldInit, QLP!WorldInit, QL!Handled, QLP!Handled, QL!ShouldSave,
   QLP!ShouldSave, QL!Counted, QLP!Counted, QL!Latest, QLP!Latest, QL!LastDue, QLP!LastDue,
   QL!BatchEndDue, QLP!BatchEndDue, QL!ResumeValues, QLP!ResumeValues, QL!LoadMayAbort,
   QLP!LoadMayAbort, QL!Routes, QLP!Routes, QL!Captured, QLP!Captured, QL!Continues,
   QLP!Continues, QL!GivenUp, QLP!GivenUp, QL!AckDue, QLP!AckDue, QL!Cardinality,
   QLP!Cardinality, QL!IsFiniteSet, QLP!IsFiniteSet

\* The configurations are configurations of every lane.
LEMMA ConfigsOfLanes ==
  Configs \subseteq BTP!ConfigType /\ Configs \subseteq QLP!ConfigType
BY DEF ConfigType, FAIL_CLOSED, LOG_AND_CONTINUE, LOG_ONLY, RAISE,
   BTP!ConfigType, BTP!FAIL_CLOSED, BTP!LOG_AND_CONTINUE, BTP!LOG_ONLY, BTP!RAISE,
   QLP!ConfigType, QLP!FAIL_CLOSED, QLP!LOG_AND_CONTINUE, QLP!LOG_ONLY, QLP!RAISE

USE ConfigsOfLanes
    DEF BTP!NAssumption, BTP!ConfigsAssumption, BTP!MaxRunsAssumption,
        QLP!NAssumption, QLP!ConfigsAssumption, QLP!MaxRunsAssumption

\* The configurations under which the theorems about the store hold, by lane.
Fit(c) ==
  IF c.flush \in {"list", "arrow"} THEN BTP!Trusted(c)
  ELSE IF c.batch > 1 THEN QLP!Paced(c) ELSE KeepsOrder(c)

\* A behaviour keeps its configuration, and with it its lane.
LEMMA SameLane == [LanesNext]_all => conf' = conf
<1> SUFFICES ASSUME [LanesNext]_all PROVE conf' = conf
    OBVIOUS
<1>1. CASE UNCHANGED all
    BY <1>1 DEF all, vars
<1>2. CASE Next
    BY <1>2, SameConfig
<1>3. CASE BT!Next
    BY <1>3, SameBatchLane, BTP!SameConfig
<1>4. CASE QL!Next
    BY <1>4, SameQueueLane, QLP!SameConfig
<1>. QED
    BY <1>1, <1>2, <1>3, <1>4 DEF LanesNext

\* With batches from the source the behaviour is one of the batch lane.
LEMMA BatchBehaviour == Batched /\ LanesSpec => BTP!Spec /\ []Batched
<1>1. Batched /\ LanesInit => BTP!Init
    BY SameBatchLane DEF LanesInit, Queued
<1>2. Batched /\ [LanesNext]_all => [BTP!Next]_(BTP!vars) /\ Batched'
  <2> SUFFICES ASSUME Batched, [LanesNext]_all PROVE [BTP!Next]_(BTP!vars) /\ Batched'
    OBVIOUS
  <2>1. Batched'
    BY SameLane DEF Batched
  <2>2. CASE UNCHANGED all
    BY <2>1, <2>2, SameBatchLane DEF all, vars, lane, world, shared, ofBatch, BT!vars, BT!lane,
       BT!world, BT!final
  <2>3. CASE LanesNext
    BY <2>1, <2>3, SameBatchLane DEF LanesNext, Queued
  <2>. QED
    BY <2>2, <2>3
<1>3. QED
    BY <1>1, <1>2, PTL DEF LanesSpec, BTP!Spec

\* With a write queue it is one of the queued lane.
LEMMA QueueBehaviour == Queued /\ LanesSpec => QLP!Spec /\ []Queued
<1>1. Queued /\ LanesInit => QLP!Init
    BY SameQueueLane DEF LanesInit, Queued
<1>2. Queued /\ [LanesNext]_all => [QLP!Next]_(QLP!vars) /\ Queued'
  <2> SUFFICES ASSUME Queued, [LanesNext]_all PROVE [QLP!Next]_(QLP!vars) /\ Queued'
    OBVIOUS
  <2>1. Queued'
    BY SameLane DEF Batched, Queued
  <2>2. CASE UNCHANGED all
    BY <2>1, <2>2, SameQueueLane DEF all, vars, lane, world, shared, ofQueue, QL!vars, QL!pump,
       QL!world, QL!ckst, QL!flush, QL!owner
  <2>3. CASE LanesNext
    BY <2>1, <2>3, SameQueueLane DEF LanesNext, Queued
  <2>. QED
    BY <2>2, <2>3
<1>3. QED
    BY <1>1, <1>2, PTL DEF LanesSpec, QLP!Spec

\* Otherwise it is one of the buffered lane.
LEMMA BufferedBehaviour == ~Batched /\ ~Queued /\ LanesSpec => Spec /\ [](~Batched /\ ~Queued)
<1>1. ~Batched /\ ~Queued /\ LanesInit => Init
    BY DEF LanesInit
<1>2. ~Batched /\ ~Queued /\ [LanesNext]_all => [Next]_vars /\ ~Batched' /\ ~Queued'
    BY SameLane DEF LanesNext, Batched, Queued, all
<1>3. QED
    BY <1>1, <1>2, PTL DEF LanesSpec, Spec

\* Whatever the lane, records and batches reach the writer in source order in
\* whatever order the stage finishes them, and the stage holds no more than its
\* limit allows, however the limit adapts.
THEOREM StagesStayInOrder == LanesSpec => []StageInOrder
<1>1. Batched /\ BTP!SinkOrder /\ BTP!InFlightBounded => StageInOrder
    BY SameBatchLane DEF StageInOrder
<1>2. Queued => StageInOrder
    BY DEF StageInOrder, Queued
<1>3. ~Batched /\ ~Queued /\ SinkOrder /\ InFlightBounded => StageInOrder
    BY DEF StageInOrder
<1>4. QED
    BY <1>1, <1>2, <1>3, BatchBehaviour, QueueBehaviour, BufferedBehaviour, BTP!WritesInOrder,
       BTP!InFlightIsBounded, WritesInOrder, InFlightIsBounded, PTL

\* Whatever the lane, the state stays well typed and only records that are
\* accounted for are acknowledged; behind the write queue, where the direct path
\* saves at the cadence and nothing overtakes the queue, a crash replays fewer
\* than checkpoint_every records.
THEOREM BookkeepingIsKept ==
  (Queued => QLP!Paced(conf)) /\ LanesSpec => []Bookkeeping
<1>1. Batched /\ BTP!AckedIsAccountedFor /\ BTP!TypeOK => Bookkeeping
    BY SameBatchLane DEF Bookkeeping, Queued, AckedIsAccountedFor, BTP!AckedIsAccountedFor
<1>2. Queued /\ QLP!AckedIsAccountedFor /\ QLP!TypeOK /\ QLP!ReplayWindow => Bookkeeping
    BY SameQueueLane DEF Bookkeeping, Queued, AckedIsAccountedFor, QLP!AckedIsAccountedFor
<1>3. ~Batched /\ ~Queued /\ AckedIsAccountedFor /\ TypeOK => Bookkeeping
    BY DEF Bookkeeping
<1>4. Batched => BTP!Batching(conf)
    BY DEF Batched, BTP!Batching
<1>5. QED
    BY <1>1, <1>2, <1>3, <1>4, BatchBehaviour, QueueBehaviour, BufferedBehaviour,
       BTP!AcknowledgedIsAccountedFor, BTP!TypeCorrect, QLP!AcknowledgedIsAccountedFor,
       QLP!TypeCorrect, QLP!ReplayIsBounded, AcknowledgedIsAccountedFor, TypeCorrect, PTL

\* Fit by lane.
LEMMA FitByLane ==
  Fit(conf) => /\ Batched => BTP!Trusted(conf)
               /\ Queued => QLP!Paced(conf) /\ QLP!KeepsOrder(conf)
               /\ ~Batched /\ ~Queued => KeepsOrder(conf)
BY DEF Fit, Batched, Queued, QLP!Paced

\* In every lane a run that reports completion has handled every record.
THEOREM LanesComplete == Fit(conf) /\ LanesSpec => []CompletedRunHandledAll
<1>1. BTP!CompletedRunHandledAll => CompletedRunHandledAll
    BY DEF BTP!CompletedRunHandledAll, CompletedRunHandledAll, BTP!Position, Position,
       BTP!Handled, Handled
<1>2. QLP!CompletedRunHandledAll => CompletedRunHandledAll
    BY DEF QLP!CompletedRunHandledAll, CompletedRunHandledAll, QLP!Position, Position,
       QLP!Handled, Handled
<1>3. QED
    BY <1>1, <1>2, FitByLane, BatchBehaviour, QueueBehaviour, BufferedBehaviour,
       BTP!CompletionIsComplete, QLP!CompletionIsComplete, CompletionIsComplete, PTL

\* Every lane implements CheckpointContract.
THEOREM LanesKeepTheContract == Fit(conf) /\ LanesSpec => KeepsContract
<1>1. BTP!Contract!Spec <=> Contract!Spec
    BY DEF BTP!Contract!Spec, Contract!Spec, BTP!Contract!Init, Contract!Init,
       BTP!Contract!Next, Contract!Next, BTP!Contract!vars, Contract!vars,
       BTP!Contract!Handle, Contract!Handle, BTP!Contract!Save, Contract!Save,
       BTP!Handled, Handled
<1>2. QLP!Contract!Spec <=> Contract!Spec
    BY DEF QLP!Contract!Spec, Contract!Spec, QLP!Contract!Init, Contract!Init,
       QLP!Contract!Next, Contract!Next, QLP!Contract!vars, Contract!vars,
       QLP!Contract!Handle, Contract!Handle, QLP!Contract!Save, Contract!Save,
       QLP!Handled, Handled
<1>3. QED
    BY <1>1, <1>2, FitByLane, BatchBehaviour, QueueBehaviour, BufferedBehaviour,
       BTP!KeepsTheContract, QLP!KeepsTheContract, KeepsTheContract, PTL
       DEF KeepsContract, QLP!KeepsContract

=============================================================================
