------------------------------ MODULE MCLanes ------------------------------
(***************************************************************************)
(* Model checking the lanes that hold records back: BatchedLane for the    *)
(* configurations with writer_batch_size > 1, BatchLane for those that     *)
(* flush "list" or "arrow" batches, and BufferedLane.  They share Delivery *)
(* and the RunState a lane keeps.                                          *)
(***************************************************************************)
EXTENDS BufferedLane

VARIABLES live, routed,                                           \* BatchLane
          todo, part, acks, halt, due,                            \* both
          pdue, pending, fl, batch, own, notify, stop, flushed, timed   \* BatchedLane

BT == INSTANCE BatchLane
QL == INSTANCE BatchedLane

ofBuffered == <<limit, hook>>
ofBatch    == <<live, routed>>
shared     == <<todo, part, acks, halt, due>>
ofQueue    == <<pdue, pending, fl, batch, own, notify, stop, flushed, timed>>
stages     == <<queue, ready, cur, back, fenced, lastSink>>
all        == <<vars, ofBatch, shared, ofQueue>>

Batched == conf.flush \in {"list", "arrow"}
Queued  == ~Batched /\ conf.batch > 1

LanesInit ==
  \/ /\ Init /\ ~Batched /\ ~Queued
     /\ live = {} /\ routed = "yes"
     /\ todo = {} /\ part = {} /\ acks = {} /\ halt = 0 /\ due = 0
     /\ pdue = 0 /\ pending = {} /\ fl = "none" /\ batch = {}
     /\ own = "none" /\ notify = FALSE /\ stop = FALSE /\ flushed = FALSE /\ timed = FALSE
  \/ /\ BT!Init /\ Batched
     /\ limit = MinLimit /\ hook = "none"
     /\ pdue = 0 /\ pending = {} /\ fl = "none" /\ batch = {}
     /\ own = "none" /\ notify = FALSE /\ stop = FALSE /\ flushed = FALSE /\ timed = FALSE
  \/ /\ QL!Init /\ Queued
     /\ limit = MinLimit /\ hook = "none" /\ live = {} /\ routed = "yes"
     /\ queue = {} /\ ready = {} /\ cur = 0 /\ back = "pull" /\ fenced = FALSE /\ lastSink = 0

LanesNext ==
  \/ ~Batched /\ ~Queued /\ Next /\ UNCHANGED <<ofBatch, shared, ofQueue>>
  \/ Batched /\ BT!Next /\ UNCHANGED <<ofBuffered, ofQueue>>
  \/ Queued /\ QL!Next /\ UNCHANGED <<ofBuffered, ofBatch, stages>>

LanesSpec == LanesInit /\ [][LanesNext]_all

-----------------------------------------------------------------------------
Base == [every |-> 1, batch |-> 1, store |-> TRUE, dlq |-> TRUE,
         sinkPolicy |-> FAIL_CLOSED, dlqPolicy |-> LOG_ONLY,
         ckptPolicy |-> FAIL_CLOSED, mw |-> {"value"}, flush |-> "inline",
         inflight |-> 1, errors |-> {"batch"}]

\* With a store the prefix keeps every record and the DLQ does not raise; what
\* the prefix can do besides is there without a store (see README).
BufferedConfigs ==
  {Base, [Base EXCEPT !.every = 2],
   [Base EXCEPT !.ckptPolicy = LOG_AND_CONTINUE, !.every = 2, !.dlq = FALSE],
   [Base EXCEPT !.sinkPolicy = LOG_AND_CONTINUE, !.dlq = FALSE],
   [Base EXCEPT !.store = FALSE, !.mw = {"value", "drop", "fail"}, !.dlq = FALSE],
   [Base EXCEPT !.store = FALSE, !.mw = {"drop", "fail"}, !.dlqPolicy = RAISE]}

List == [Base EXCEPT !.flush = "list", !.batch = 2, !.every = 2, !.dlqPolicy = RAISE,
                     !.mw = {"value", "drop"}]
All == {"value", "drop", "fail"}

\* One batch at a time, the writer fails as a whole.
PlainConfigs ==
  {[List EXCEPT !.every = 1],
   [List EXCEPT !.dlq = FALSE, !.mw = All],
   [List EXCEPT !.sinkPolicy = LOG_AND_CONTINUE, !.mw = {"value", "fail"}],
   [List EXCEPT !.sinkPolicy = LOG_AND_CONTINUE, !.mw = {"value", "fail"}, !.dlq = FALSE,
                !.ckptPolicy = LOG_AND_CONTINUE],
   [List EXCEPT !.flush = "arrow", !.mw = All],
   [List EXCEPT !.flush = "arrow", !.mw = All, !.dlq = FALSE,
                !.sinkPolicy = LOG_AND_CONTINUE],
   [List EXCEPT !.flush = "arrow", !.mw = All, !.store = FALSE, !.dlqPolicy = LOG_ONLY]}

\* Several batches in the stage, single records fail and the run goes on.
PipelinedConfigs ==
  {[List EXCEPT !.sinkPolicy = LOG_AND_CONTINUE, !.dlq = FALSE, !.every = 1,
                !.inflight = 2, !.errors = {"batch", "record"}],
   [List EXCEPT !.sinkPolicy = LOG_AND_CONTINUE, !.dlqPolicy = LOG_ONLY, !.flush = "arrow",
                !.mw = {"value"}, !.inflight = 2, !.errors = {"batch", "record"}]}

Queue == [Base EXCEPT !.batch = 2, !.every = 2, !.dlqPolicy = RAISE]

\* Nothing is dropped; every flusher and every policy.  On
\* the direct path `every` divides the batch size: the cadence is looked at once
\* per batch there.
QueueConfigs ==
  {[Queue EXCEPT !.sinkPolicy = LOG_AND_CONTINUE, !.flush = f] : f \in {"inline", "direct"}}
  \cup {[Queue EXCEPT !.ckptPolicy = LOG_AND_CONTINUE, !.flush = f] : f \in {"inline", "direct"}}
  \cup {[Queue EXCEPT !.every = 1], [Queue EXCEPT !.every = 3],
        [Queue EXCEPT !.every = 1, !.flush = "direct"],
        [Queue EXCEPT !.flush = "owner"],
        [Queue EXCEPT !.flush = "owner", !.sinkPolicy = LOG_AND_CONTINUE, !.dlq = FALSE]}

LaneConfigs == BufferedConfigs \cup PlainConfigs \cup PipelinedConfigs \cup QueueConfigs

\* An Arrow lane without a DLQ.
ArrowConfigs == {[List EXCEPT !.flush = "arrow", !.mw = {"value"}, !.dlq = FALSE]}

-----------------------------------------------------------------------------
(* Records and batches reach the writer in source order, in whatever order *)
(* the concurrent stage finishes them, and no more are in the stage than   *)
(* its limit allows, however the limit adapts.                             *)
StageInOrder ==
  CASE Batched -> BT!SinkOrder /\ BT!InFlightBounded
    [] Queued  -> TRUE
    [] OTHER   -> SinkOrder /\ InFlightBounded

(* The bookkeeping around the position: well-typed state, acknowledgements *)
(* only for records accounted for, and behind the write queue a replay     *)
(* window below checkpoint_every.                                          *)
Bookkeeping ==
  /\ AckedIsAccountedFor
  /\ CASE Batched -> BT!TypeOK
       [] Queued  -> QL!TypeOK /\ QL!ReplayWindow
       [] OTHER   -> TypeOK

=============================================================================
