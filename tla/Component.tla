------------------------------ MODULE Component ------------------------------
(***************************************************************************)
(* The state s of one component around the lanes, whichever it is, and     *)
(* what the modules of the components say of it.  MCComponents adds those  *)
(* that are only model-checked and says which component a behaviour moves; *)
(* Parts_proofs and Components_proofs prove about these.                   *)
(***************************************************************************)

CONSTANTS Settings, MaxCalls, MaxTime,                            \* HttpSource
          Captures, MaxCommands,                                  \* DlqReplay
          NEvents, MaxOrderFaults,                                \* OrderCenter
          MaxStages, MaxSinks,                                    \* ExecutionPlan
          MaxSchemaRecords, MaxSchemaRuns,                        \* SchemaTracking
          Ttl, MaxClock, MaxSaves,                                \* StateStore
          AiSettings, NPrompts, AiBatchSize, MaxTokens, CacheSize, MaxAiRuns  \* AiBatch

VARIABLE s

HS == INSTANCE HttpSource WITH hs <- s
DQ == INSTANCE DlqReplay WITH dq <- s
OC == INSTANCE OrderCenter WITH oc <- s
PL == INSTANCE ExecutionPlan WITH pl <- s
ST == INSTANCE SchemaTracking WITH st <- s
KV == INSTANCE StateStore WITH kv <- s
AI == INSTANCE AiBatch WITH ai <- s

=============================================================================
