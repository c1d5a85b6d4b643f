--------------------------- MODULE RowLane_proofs ---------------------------
(***************************************************************************)
(* Theorems about RowLane, for every number of records, every set of       *)
(* configurations and every number of runs.                                *)
(***************************************************************************)
EXTENDS RowLane, TLAPS

USE NAssumption, ConfigsAssumption, MaxRunsAssumption
    DEF NAssumption, ConfigsAssumption, MaxRunsAssumption

-----------------------------------------------------------------------------
(* Type correctness.  TypeOK alone is not inductive: that the record being *)
(* handled is one of the source's must be known too.                       *)

CursorOK == pc \in {"write", "route", "save", "ack"} => next <= N

Typed == TypeOK /\ CursorOK

\* The initial states are well typed, whatever configuration is chosen.
LEMMA InitTyped == Init => Typed
BY DEF Init, WorldInit, Typed, CursorOK, TypeOK, WorldTypeOK, Position, Halted, Busy

\* Every step of the lane keeps the types: only positions of the source enter
\* the world's sets, and the cursor moves past a record that exists.
LEMMA NextTyped == Typed /\ [Next]_vars => Typed'
<1> SUFFICES ASSUME Typed, [Next]_vars PROVE Typed'
    OBVIOUS
<1> USE DEF Typed, CursorOK, TypeOK, WorldTypeOK, Position, Halted, Busy
<1>1. CASE StartRun
    BY <1>1 DEF StartRun, world, ResumeValues, ResumePosition
<1>2. CASE LoadFails
    BY <1>2 DEF LoadFails, world
<1>3. CASE Pull
  <2>1. next \in Position
    BY <1>3 DEF Pull
  <2>2. QED
    BY <1>3, <2>1 DEF Pull, world
<1>4. CASE EndOfStream \/ SourceFails \/ Crash
    BY <1>4 DEF EndOfStream, SourceFails, Crash, world
<1>5. CASE WriteOne
  <2>1. next \in Position
    BY <1>5 DEF WriteOne
  <2>2. QED
    BY <1>5, <2>1 DEF WriteOne
<1>6. CASE RouteMiddlewareFailure
  <2>1. next \in Position /\ next + 1 \in 1..(N + 1)
    BY <1>6 DEF RouteMiddlewareFailure
  <2>2. QED
    BY <1>6, <2>1 DEF RouteMiddlewareFailure, Captured
<1>7. CASE RouteSinkFailure
  <2>1. next \in Position
    BY <1>7 DEF RouteSinkFailure
  <2>2. QED
    BY <1>7, <2>1 DEF RouteSinkFailure, Captured, GivenUp
<1>8. CASE Save
  <2>1. next \in Position
    BY <1>8 DEF Save
  <2>2. count' \in Nat
    BY <1>8 DEF Save
  <2>3. QED
    BY <1>8, <2>1, <2>2 DEF Save
<1>9. CASE Ack
  <2>1. next \in Position /\ next + 1 \in 1..(N + 1)
    BY <1>9 DEF Ack
  <2>2. QED
    BY <1>9, <2>1 DEF Ack
<1>10. CASE UNCHANGED vars
    BY <1>10 DEF vars, world, lane
<1>. QED
    BY <1>1, <1>2, <1>3, <1>4, <1>5, <1>6, <1>7, <1>8, <1>9, <1>10
       DEF Next, Finished

\* TypeOK is an invariant of the row lane.
THEOREM TypeCorrect == Spec => []TypeOK
<1>1. Spec => []Typed
    BY InitTyped, NextTyped, PTL DEF Spec
<1>2. Typed => TypeOK
    BY DEF Typed
<1>3. QED
    BY <1>1, <1>2, PTL

-----------------------------------------------------------------------------
(* The checkpoint covers what it claims.  The invariant adds that a live   *)
(* run has handled everything before its cursor, and the record at the     *)
(* cursor once it is about to be checkpointed.                             *)

Covered ==
  /\ CheckpointCovers
  /\ pc \in Busy => 1..(next - 1) \subseteq Handled
  /\ pc \in {"save", "ack"} => next \in Handled
  /\ CompletedRunHandledAll

\* A terminal outcome is never taken back, in this run or a later one.
LEMMA HandledGrows == [Next]_vars => Handled \subseteq Handled'
<1> SUFFICES ASSUME [Next]_vars PROVE Handled \subseteq Handled'
    OBVIOUS
<1> USE DEF Handled
<1>1. CASE Pull \/ WriteOne
    BY <1>1 DEF Pull, WriteOne, world
<1>2. CASE RouteMiddlewareFailure \/ RouteSinkFailure
    BY <1>2 DEF RouteMiddlewareFailure, RouteSinkFailure
<1>3. CASE UNCHANGED <<written, dead, dropped, skipped>>
    BY <1>3
<1>. QED
    BY <1>1, <1>2, <1>3 DEF Next, StartRun, LoadFails, EndOfStream, SourceFails,
       Save, Ack, Crash, Finished, vars, world

\* Every step keeps the coverage invariant.
LEMMA NextCovered == Typed /\ Covered /\ [Next]_vars => Covered'
<1> SUFFICES ASSUME Typed, Covered, [Next]_vars PROVE Covered'
    OBVIOUS
<1>h. Handled \subseteq Handled'
    BY HandledGrows
<1> USE DEF Typed, CursorOK, TypeOK, WorldTypeOK, Position, Halted, Busy, Covered,
       CheckpointCovers, CompletedRunHandledAll
<1>1. CASE StartRun
    BY <1>1, <1>h DEF StartRun, world, ResumeValues, ResumePosition
<1>2. CASE LoadFails \/ SourceFails \/ Crash
    BY <1>2, <1>h DEF LoadFails, SourceFails, Crash, world
<1>3. CASE Pull
  <2>1. durable' = durable /\ next' = next /\ pc' \in {"write", "save", "route"}
    BY <1>3 DEF Pull, world
  <2>2. pc' = "save" => next \in Handled'
    BY <1>3 DEF Pull, Handled
  <2>3. QED
    BY <1>3, <1>h, <2>1, <2>2 DEF Pull
<1>4. CASE EndOfStream
    BY <1>4, <1>h DEF EndOfStream, world
<1>5. CASE WriteOne
  <2>1. durable' = durable /\ next' = next /\ pc' \in {"save", "route", "failed"}
    BY <1>5 DEF WriteOne
  <2>2. pc' = "save" => next \in Handled'
    BY <1>5 DEF WriteOne, Handled
  <2>3. QED
    BY <1>5, <1>h, <2>1, <2>2 DEF WriteOne
<1>6. CASE RouteMiddlewareFailure
  <2>1. /\ durable' = durable
        /\ \/ pc' = "failed"
           \/ pc' = "save" /\ next' = next /\ next \in Handled'
           \/ pc' = "pull" /\ next' = next + 1 /\ next \in Handled'
    BY <1>6 DEF RouteMiddlewareFailure, Captured, Handled
  <2>2. QED
    BY <1>6, <1>h, <2>1 DEF RouteMiddlewareFailure
<1>7. CASE RouteSinkFailure
  <2>1. /\ durable' = durable /\ next' = next
        /\ pc' = "failed" \/ (pc' = "save" /\ next \in Handled')
    BY <1>7 DEF RouteSinkFailure, Captured, Continues, GivenUp, Handled
  <2>2. QED
    BY <1>7, <1>h, <2>1 DEF RouteSinkFailure
<1>8. CASE Save
  <2>1. durable' \in {durable, next} /\ next' = next /\ pc' \in {"ack", "failed"}
    BY <1>8 DEF Save
  <2>2. QED
    BY <1>8, <1>h, <2>1 DEF Save
<1>9. CASE Ack
  <2>1. durable' = durable /\ (pc' = "failed" \/ (pc' = "pull" /\ next' = next + 1))
    BY <1>9 DEF Ack
  <2>2. QED
    BY <1>9, <1>h, <2>1 DEF Ack
<1>10. CASE UNCHANGED vars
    BY <1>10, <1>h DEF vars, world, lane
<1>. QED
    BY <1>1, <1>2, <1>3, <1>4, <1>5, <1>6, <1>7, <1>8, <1>9, <1>10
       DEF Next, Finished

\* The typed coverage invariant holds throughout.
LEMMA CoverageInvariant == Spec => [](Typed /\ Covered)
<1>1. Init => Covered
    BY DEF Init, WorldInit, Covered, CheckpointCovers, CompletedRunHandledAll, Busy
<1>2. QED
    BY <1>1, InitTyped, NextTyped, NextCovered, PTL DEF Spec

\* The stored position never has an unhandled record at or below it, across
\* failures, crashes and resumes.
THEOREM CheckpointIsCovered == Spec => []CheckpointCovers
<1>1. Covered => CheckpointCovers
    BY DEF Covered
<1>2. QED
    BY <1>1, CoverageInvariant, PTL

\* A run that reports completion has left no record of the source unhandled.
THEOREM CompletionIsComplete == Spec => []CompletedRunHandledAll
<1>1. Covered => CompletedRunHandledAll
    BY DEF Covered
<1>2. QED
    BY <1>1, CoverageInvariant, PTL

\* Every step of the lane handles records, saves a covered position, or does
\* not show in the contract: the lane implements CheckpointContract.
THEOREM KeepsTheContract == Spec => KeepsContract
<1>1. Init => Contract!Init
    BY DEF Init, WorldInit, Contract!Init, Handled
<1>2. ASSUME Typed, Covered, Typed', [Next]_vars
      PROVE  [Contract!Next]_(Contract!vars)
  <2> USE <1>2 DEF Contract!Next, Contract!vars, Contract!Handle, Contract!Save
  <2>1. Handled \subseteq Handled' /\ Handled' \in SUBSET (1..N)
    BY HandledGrows DEF Typed, TypeOK, WorldTypeOK, Position, Handled
  <2>2. CASE Save
    <3>1. Handled' = Handled /\ durable' \in {durable, next} /\ next \in 1..N
      BY <2>2 DEF Save, Handled, Typed, CursorOK, TypeOK, WorldTypeOK
    <3>2. 1..next \subseteq Handled
      BY <2>2 DEF Save, Covered, Busy, Typed, TypeOK
    <3>3. QED
      BY <3>1, <3>2
  <2>3. CASE UNCHANGED durable
    BY <2>1, <2>3
  <2>4. QED
    BY <2>2, <2>3 DEF Next, StartRun, LoadFails, Pull, EndOfStream, SourceFails,
       WriteOne, RouteMiddlewareFailure, RouteSinkFailure, Ack, Crash, Finished,
       vars, world
<1>3. QED
    BY <1>1, <1>2, CoverageInvariant, PTL DEF Spec, KeepsContract, Contract!Spec

-----------------------------------------------------------------------------
(* Acknowledgements. *)

Accounted == written \cup dead \cup dropped

AckedInv ==
  /\ AckedIsAccountedFor
  /\ (pc \in {"save", "ack"} /\ hook = "carried") => next \in Accounted
  /\ (pc = "route" /\ stage = "partial") => next \in Accounted

\* Every step keeps the acknowledgement invariant: a hook is carried only by an
\* outcome that accounts for its record.
LEMMA NextAcked == AckedInv /\ [Next]_vars => AckedInv'
<1> SUFFICES ASSUME AckedInv, [Next]_vars PROVE AckedInv'
    OBVIOUS
<1> USE DEF AckedInv, AckedIsAccountedFor, Accounted
<1>1. CASE StartRun \/ LoadFails \/ EndOfStream \/ SourceFails \/ Crash
    BY <1>1 DEF StartRun, LoadFails, EndOfStream, SourceFails, Crash, world
<1>2. CASE Pull
    BY <1>2 DEF Pull, world
<1>3. CASE WriteOne
    BY <1>3 DEF WriteOne
<1>4. CASE RouteMiddlewareFailure
    BY <1>4 DEF RouteMiddlewareFailure, Captured
<1>5. CASE RouteSinkFailure
    BY <1>5 DEF RouteSinkFailure, Captured, AckDue
<1>6. CASE Save
    BY <1>6 DEF Save
<1>7. CASE Ack
    BY <1>7 DEF Ack
<1>8. CASE UNCHANGED vars
    BY <1>8 DEF vars, world, lane
<1>. QED
    BY <1>1, <1>2, <1>3, <1>4, <1>5, <1>6, <1>7, <1>8 DEF Next, Finished

\* The source is told only about records that reached a sink, the DLQ, or were
\* dropped: a failure that was merely logged is never acknowledged.
THEOREM AcknowledgedIsAccountedFor == Spec => []AckedIsAccountedFor
<1>1. Init => AckedInv
    BY DEF Init, WorldInit, AckedInv, AckedIsAccountedFor, Accounted
<1>2. AckedInv => AckedIsAccountedFor
    BY DEF AckedInv
<1>3. QED
    BY <1>1, <1>2, NextAcked, PTL DEF Spec

-----------------------------------------------------------------------------
(* The store does not move backwards. *)

BehindCursor ==
  /\ ~conf.store => durable = 0
  /\ (conf.ckptPolicy = FAIL_CLOSED /\ pc \in Busy)
       => (durable < next \/ (pc = "ack" /\ durable = next))

\* With fail-closed checkpoints the stored position stays behind the cursor: a
\* run starts right after it, and it is saved at the cursor.
LEMMA NextBehindCursor ==
  Typed /\ BehindCursor /\ [Next]_vars => BehindCursor'
<1> SUFFICES ASSUME Typed, BehindCursor, [Next]_vars PROVE BehindCursor'
    OBVIOUS
<1> USE DEF BehindCursor, Busy, Halted, Typed, CursorOK, TypeOK, WorldTypeOK,
       FAIL_CLOSED, LOG_AND_CONTINUE
<1>1. CASE StartRun
    BY <1>1 DEF StartRun, world, ResumeValues, ResumePosition
<1>2. CASE LoadFails \/ EndOfStream \/ SourceFails \/ Crash
    BY <1>2 DEF LoadFails, EndOfStream, SourceFails, Crash, world
<1>3. CASE Pull \/ WriteOne
    BY <1>3 DEF Pull, WriteOne, world
<1>4. CASE RouteMiddlewareFailure \/ RouteSinkFailure
    BY <1>4 DEF RouteMiddlewareFailure, RouteSinkFailure
<1>5. CASE Save
    BY <1>5 DEF Save
<1>6. CASE Ack
    BY <1>6 DEF Ack
<1>7. CASE UNCHANGED vars
    BY <1>7 DEF vars, world, lane
<1>. QED
    BY <1>1, <1>2, <1>3, <1>4, <1>5, <1>6, <1>7 DEF Next, Finished

\* No save, resume or restart lowers the stored position when checkpoint
\* failures are fail-closed.
THEOREM CheckpointIsMonotone == Spec => CheckpointMonotone
<1>1. Init => BehindCursor
    BY DEF Init, WorldInit, BehindCursor, Busy
<1>2. ASSUME Typed, BehindCursor, [Next]_vars
      PROVE  [conf.ckptPolicy = FAIL_CLOSED => durable' >= durable]_vars
  <2> USE <1>2 DEF Typed, TypeOK, WorldTypeOK
  <2>1. CASE Save
    BY <2>1 DEF Save, BehindCursor, Busy
  <2>2. CASE UNCHANGED durable
    BY <2>2
  <2>3. QED
    BY <2>1, <2>2 DEF Next, StartRun, LoadFails, Pull, EndOfStream, SourceFails,
       WriteOne, RouteMiddlewareFailure, RouteSinkFailure, Ack, Crash, Finished,
       vars, world
<1>3. QED
    BY <1>1, <1>2, InitTyped, NextTyped, NextBehindCursor, PTL
       DEF Spec, CheckpointMonotone

-----------------------------------------------------------------------------
(* What a crash replays. *)

\* Counting one more record wraps the remainder to zero or raises it by one.
LEMMA ModSuccessor ==
  ASSUME NEW e \in Nat \ {0}, NEW c \in Nat
  PROVE  (c + 1) % e = 0 \/ (c + 1) % e = (c % e) + 1
<1> DEFINE d == ((c + 1) \div e) - (c \div e)
<1>1. c = e * (c \div e) + (c % e) /\ c % e \in 0..(e - 1) /\ c \div e \in Int
    BY SMT
<1>2. /\ c + 1 = e * ((c + 1) \div e) + ((c + 1) % e)
      /\ (c + 1) % e \in 0..(e - 1) /\ (c + 1) \div e \in Int
    BY SMT
<1>3. e * d = (c % e) + 1 - ((c + 1) % e)
    BY <1>1, <1>2
<1>4. CASE d = 0
    BY <1>1, <1>2, <1>3, <1>4
<1>5. CASE d >= 1
    BY <1>1, <1>2, <1>3, <1>5
<1>6. CASE d <= -1
    BY <1>1, <1>2, <1>3, <1>6
<1>. QED
    BY <1>1, <1>2, <1>4, <1>5, <1>6

\* The distance between cursor and store is the count modulo `every`, and the
\* value last marked as saved lies behind the cursor.
WindowInv ==
  (conf.store /\ conf.ckptPolicy = FAIL_CLOSED /\ pc \in Busy) =>
    IF pc = "ack" THEN next - durable = count % conf.every /\ last <= next
    ELSE next - 1 - durable = count % conf.every /\ last < next

\* Every step keeps the distance in step with the count.
LEMMA NextWindow == Typed /\ WindowInv /\ [Next]_vars => WindowInv'
<1> SUFFICES ASSUME Typed, WindowInv, [Next]_vars,
                    (conf.store /\ conf.ckptPolicy = FAIL_CLOSED /\ pc \in Busy)'
             PROVE  IF pc' = "ack"
                    THEN next' - durable' = count' % conf'.every /\ last' <= next'
                    ELSE next' - 1 - durable' = count' % conf'.every /\ last' < next'
    BY DEF WindowInv
<1> USE DEF WindowInv, Busy, Halted, Typed, CursorOK, TypeOK, WorldTypeOK,
       FAIL_CLOSED, LOG_AND_CONTINUE
<1>0. conf.every \in Nat \ {0}
    BY DEF ConfigType
<1>1. CASE StartRun
  <2>1. 0 % conf.every = 0
    BY <1>0
  <2>2. QED
    BY <1>1, <2>1 DEF StartRun, world, ResumeValues, ResumePosition
<1>2. CASE LoadFails \/ EndOfStream \/ SourceFails \/ Crash
    BY <1>2 DEF LoadFails, EndOfStream, SourceFails, Crash, world
<1>3. CASE Pull \/ WriteOne
    BY <1>3 DEF Pull, WriteOne, world
<1>4. CASE RouteMiddlewareFailure \/ RouteSinkFailure
    BY <1>4 DEF RouteMiddlewareFailure, RouteSinkFailure
<1>5. CASE Save
  <2>1. (count + 1) % conf.every = 0 \/ (count + 1) % conf.every = (count % conf.every) + 1
    BY <1>0, ModSuccessor
  <2>2. QED
    BY <1>5, <2>1 DEF Save, ShouldSave
<1>6. CASE Ack
    BY <1>6 DEF Ack
<1>7. CASE UNCHANGED vars
    BY <1>7 DEF vars, world, lane
<1>. QED
    BY <1>1, <1>2, <1>3, <1>4, <1>5, <1>6, <1>7 DEF Next, Finished

\* Under fail-closed checkpoints fewer than checkpoint_every handled records
\* lie between the store and the cursor when the next record is pulled.
THEOREM ReplayIsBounded == Spec => []ReplayWindow
<1>1. Init => WindowInv
    BY DEF Init, WindowInv, Busy
<1>2. Typed /\ WindowInv => ReplayWindow
  <2> SUFFICES ASSUME Typed, WindowInv PROVE ReplayWindow
    OBVIOUS
  <2>1. conf.every \in Nat \ {0} /\ count \in Nat
    BY DEF Typed, TypeOK, WorldTypeOK, ConfigType
  <2>2. count % conf.every < conf.every
    BY <2>1, SMT
  <2>3. QED
    BY <2>2 DEF WindowInv, ReplayWindow, Busy
<1>3. QED
    BY <1>1, <1>2, InitTyped, NextTyped, NextWindow, PTL DEF Spec
=============================================================================
