--------------------------- MODULE MCBatchedLane ---------------------------
(***************************************************************************)
(* Model checking BatchedLane: its liveness, and what drops do to it.      *)
(***************************************************************************)
EXTENDS BatchedLane

Base == [every |-> 2, batch |-> 2, store |-> TRUE, dlq |-> TRUE,
         sinkPolicy |-> FAIL_CLOSED, dlqPolicy |-> RAISE,
         ckptPolicy |-> FAIL_CLOSED, mw |-> {"value"}, flush |-> "inline",
         inflight |-> 1, errors |-> {"batch"}]

\* Everything the chain can do, with the owner task.
LiveConfigs ==
  {[Base EXCEPT !.mw = {"value", "drop", "fail"}, !.flush = "owner",
                !.dlqPolicy = dp] : dp \in {LOG_ONLY, RAISE}}

\* A chain that drops records in front of a queue.
DropConfigs == {[Base EXCEPT !.mw = {"value", "drop"}, !.every = 1]}

=============================================================================
