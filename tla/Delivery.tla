------------------------------ MODULE Delivery ------------------------------
(***************************************************************************)
(* What the execution lanes share: the outside world a run acts on (sink,  *)
(* DLQ, checkpoint store, source acknowledgements), the delivery policies, *)
(* the checkpoint arithmetic of CheckpointState and CheckpointManager, and *)
(* the routing decision of DLQWriter.                                      *)
(*                                                                         *)
(* A record is its source position 1..N, and the checkpoint value a source *)
(* reports after emitting position i is i; 0 stands for "no checkpoint".   *)
(***************************************************************************)
EXTENDS Integers, FiniteSets

CONSTANTS N,         \* number of records in the source
          Configs,   \* the pipeline configurations a behaviour may have
          MaxRuns    \* bound: how often the pipeline is started

FAIL_CLOSED      == "FAIL_CLOSED"
LOG_AND_CONTINUE == "LOG_AND_CONTINUE"
LOG_ONLY         == "LOG_ONLY"
RAISE            == "RAISE"

\* DeliveryConfig.  `store`: a checkpoint store is configured and the source
\* is checkpoint capable; `mw`: the outcomes the middleware chain can have;
\* `flush`: who writes.  Queued records: the lane itself, the lane through
\* flush_batch_direct, or the pending-write owner task; source batches: the
\* batch lane, as lists of records or as Arrow batches.  Of the batch lane:
\* `inflight`: the stage_limit of its pipelined stage; `errors`: the failures
\* its writer can report ("batch": it raises, "record": single records fail).
ConfigType ==
  [every      : Nat \ {0},
   batch      : Nat \ {0},
   store      : BOOLEAN,
   dlq        : BOOLEAN,
   sinkPolicy : {FAIL_CLOSED, LOG_AND_CONTINUE},
   dlqPolicy  : {LOG_ONLY, RAISE},
   ckptPolicy : {FAIL_CLOSED, LOG_AND_CONTINUE},
   mw         : SUBSET {"value", "drop", "fail"},
   flush      : {"inline", "direct", "owner", "list", "arrow"},
   inflight   : Nat \ {0},
   errors     : SUBSET {"batch", "record"}]

ASSUME NAssumption       == N \in Nat
ASSUME ConfigsAssumption == Configs \subseteq ConfigType
ASSUME MaxRunsAssumption == MaxRuns \in Nat

VARIABLES
  conf,     \* the configuration, fixed at the start
  durable,  \* value in the checkpoint store
  written,  \* positions the writer reported as accepted, in any run
  dead,     \* positions captured in the DLQ
  dropped,  \* positions the chain removed (None, or a failure and no DLQ)
            \* or no sink took
  skipped,  \* positions given up: LOG_AND_CONTINUE, or no store to protect
  acked     \* positions whose source delivery hook ran

world == <<durable, written, dead, dropped, skipped, acked>>

Position == 1..N

WorldTypeOK ==
  /\ conf \in Configs
  /\ durable \in 0..N
  /\ written \subseteq Position
  /\ dead \subseteq Position
  /\ dropped \subseteq Position
  /\ skipped \subseteq Position
  /\ acked \subseteq Position

WorldInit ==
  /\ conf \in Configs
  /\ durable = 0
  /\ written = {} /\ dead = {} /\ dropped = {} /\ skipped = {} /\ acked = {}

\* "handled": the record reached a terminal outcome under the active policy.
Handled == written \cup dead \cup dropped \cup skipped

-----------------------------------------------------------------------------
(* CheckpointState: should_save, after `c` records were counted. *)

\* Mutant of ShouldSave: a cadence one too long.
EveryOffByOne(c, last, v) == v # last /\ c % (conf.every + 1) = 0

ShouldSave(c, last, v) == v # last /\ c % conf.every = 0

\* prepare, for the records S in source order: how many are counted, and the
\* last of their values that is due (0: none).
Counted(c, S) == IF conf.store THEN c + Cardinality(S) ELSE c

Latest(S) == IF S = {} THEN 0 ELSE CHOOSE p \in S : \A q \in S : q <= p

LastDue(c, last, S) ==
  IF conf.store
  THEN Latest({p \in S : ShouldSave(c + Cardinality({q \in S : q <= p}), last, p)})
  ELSE 0

\* save_batch: the cadence is looked at once, with the last value of the batch.
BatchEndDue(c, last, S) ==
  IF conf.store /\ ShouldSave(c + Cardinality(S), last, Latest(S))
  THEN Latest(S) ELSE 0

(* restore_checkpoint: the value handed to prepare_resume.  A failing load *)
(* continues from scratch under LOG_AND_CONTINUE and aborts otherwise.     *)
ResumeValues ==
  IF ~conf.store THEN {0}
  ELSE {durable} \cup (IF conf.ckptPolicy = LOG_AND_CONTINUE THEN {0} ELSE {})

LoadMayAbort == conf.store /\ conf.ckptPolicy = FAIL_CLOSED

(* DLQWriter.write: TRUE ("routed"), FALSE because there is no DLQ, the    *)
(* failure is not DLQ eligible or the DLQ failed under LOG_ONLY            *)
(* ("unrouted"), or the DLQ's own exception under RAISE ("raised").        *)
Routes ==
  IF ~conf.dlq THEN {"unrouted"}
  ELSE {"routed", "unrouted"} \cup
       (IF conf.dlqPolicy = RAISE THEN {"raised"} ELSE {})

Captured(r, S) == IF r = "routed" THEN S ELSE {}

\* Mutant of Continues: going on under FAIL_CLOSED too.
ContinuesAlways(r) == r # "raised"

(* After a sink failure: may the run go on, is the record given up, and is *)
(* the source acknowledged although no DLQ took the record?                *)
Continues(r) ==
  r = "routed" \/ (r = "unrouted" /\ conf.sinkPolicy = LOG_AND_CONTINUE)

GivenUp(r, S) ==
  IF r = "unrouted" /\ conf.sinkPolicy = LOG_AND_CONTINUE THEN S ELSE {}

\* Mutant of AckDue: the hook is carried by every continuation.
AcksAnyContinuation(r, wrote) == TRUE

AckDue(r, wrote) == r = "routed" \/ wrote

=============================================================================
