----------------------------- MODULE MCRowLane -----------------------------
(***************************************************************************)
(* Model checking RowLane: every combination of the failure policies, with *)
(* and without a DLQ and a checkpoint store, saving every one or two       *)
(* records.                                                                *)
(***************************************************************************)
EXTENDS RowLane

AllConfigs ==
  [every : {1, 2}, batch : {1}, store : BOOLEAN, dlq : BOOLEAN,
   sinkPolicy : {FAIL_CLOSED, LOG_AND_CONTINUE}, dlqPolicy : {LOG_ONLY, RAISE},
   ckptPolicy : {FAIL_CLOSED, LOG_AND_CONTINUE}, mw : {{"value", "drop", "fail"}},
   flush : {"inline"}, inflight : {1}, errors : {{"batch"}}]

\* A policy for a store or a DLQ that is not there makes no difference.
MCConfigs ==
  {c \in AllConfigs : /\ ~c.store => c.every = 1 /\ c.ckptPolicy = FAIL_CLOSED
                      /\ ~c.dlq => c.dlqPolicy = LOG_ONLY}
=============================================================================
