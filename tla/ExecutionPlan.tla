---------------------------- MODULE ExecutionPlan ----------------------------
(***************************************************************************)
(* From a bound pipeline to a running one (core/pipeline.py run,           *)
(* core/_executor_support.py): explain() builds the plan and the delivery  *)
(* report, the delivery policy may refuse the pipeline, prepare_execution  *)
(* builds the plan again, and the lane the plan names hands data on in the *)
(* shapes that the capabilities of the objects allow.  Planning reads what *)
(* the source and the sinks declare, execution what they implement.        *)
(***************************************************************************)
EXTENDS Naturals, Sequences, SequencesExt

CONSTANTS MaxStages, MaxSinks  \* lengths of the chain and of the sink list

VARIABLE pl

(* DataPlane *)
Planes == {"rows", "batches", "arrow"}

(* A stage is an ArrowBatchMiddleware, a stage on Python rows, or a        *)
(* buffered stage with min_concurrency > 1.                                *)
Stages == {"arrow", "row", "submit"}

(* What a sink class declares (native_data_planes, {} when it does not)    *)
(* and implements: "file" the file sinks, "batch" a webhook with batches,  *)
(* "plain" log and stdout, "quiet" a sink with an undeclared               *)
(* write_arrow_batch().                                                    *)
Shapes == [file  |-> [declared |-> Planes, batch |-> TRUE, arrow |-> TRUE],
           batch |-> [declared |-> {}, batch |-> TRUE, arrow |-> FALSE],
           plain |-> [declared |-> {}, batch |-> FALSE, arrow |-> FALSE],
           quiet |-> [declared |-> {}, batch |-> FALSE, arrow |-> TRUE]]

(* SinkDeliveryCapability: idempotency and replay_safe.                    *)
Claims == [nothing |-> [idempotency |-> "unknown", safe |-> FALSE],
           none    |-> [idempotency |-> "none", safe |-> FALSE],
           native  |-> [idempotency |-> "sink_native", safe |-> FALSE],
           safe    |-> [idempotency |-> "sink_native", safe |-> TRUE]]

(* SinkFanOut, SinkRouter, or a writer of the application's own.           *)
Writers == {"fanout", "router", "own"}
WithSinks(w, S) == IF w = "own" THEN {<<>>} ELSE SeqOf(S, MaxSinks) \ {<<>>}

(* Pipelines that differ in their planes, and pipelines that differ in     *)
(* what their delivery report says.                                        *)
Planned ==
    UNION {[plane : Planes, streams : BOOLEAN, stages : SeqOf(Stages, MaxStages),
            writer : {w}, size : {1, 2},
            sinks : WithSinks(w, [shape : DOMAIN Shapes, claim : {"nothing"}]),
            replay : {FALSE}, idempotent : {FALSE}, store : {FALSE}, cursor : {FALSE},
            identity : {FALSE}, limited : {FALSE}] : w \in Writers}
Reported ==
    UNION {[plane : {"rows"}, streams : {FALSE}, stages : {<<>>}, writer : {w}, size : {1},
            sinks : WithSinks(w, [shape : {"plain"}, claim : DOMAIN Claims]),
            replay : BOOLEAN, idempotent : BOOLEAN, store : BOOLEAN, cursor : BOOLEAN,
            identity : BOOLEAN, limited : BOOLEAN] : w \in Writers}

Init ==
    \E c \in Planned \union Reported :
        /\ c.plane # "rows" => c.streams
        /\ pl = [conf |-> c, pc |-> "bound", plan |-> <<>>, report |-> <<>>, got |-> <<>>]

-----------------------------------------------------------------------------
(* Capabilities.                                                           *)

(* sink_capabilities, normalized_sink_capabilities                         *)
Native(s) ==
    LET shape == Shapes[s.shape]
    IN IF shape.declared # {} THEN shape.declared
       ELSE {"rows"} \union {p \in {"batches"} : shape.batch}
BatchWritable(s) == Shapes[s.shape].batch \/ "batches" \in Native(s)
ArrowWritable(s) == Shapes[s.shape].arrow

(* Mutant of SelectedPlane: a sink without Arrow is planned for rows.      *)
RowsOtherwise(s, upstream) == IF upstream \in Native(s) THEN upstream ELSE "rows"

SelectedPlane(s, upstream) ==
    IF upstream \in Native(s) THEN upstream
    ELSE IF upstream = "arrow" /\ "batches" \in Native(s) THEN "batches" ELSE "rows"

ArrowStages(c) == \E i \in DOMAIN c.stages : c.stages[i] = "arrow"
OnlyArrowStages(c) == c.stages # <<>> /\ \A i \in DOMAIN c.stages : c.stages[i] = "arrow"

(* Mutant of Compatible: mixed chains are not looked for.                  *)
ArrowSource(c) == ArrowStages(c) => c.plane = "arrow"

(* validate_middleware_chain_compatibility does not raise                  *)
Compatible(c) == ArrowStages(c) => c.plane = "arrow" /\ OnlyArrowStages(c)

BatchSource(c) == c.streams /\ c.plane # "rows"
AcceptsArrow(c) == c.writer = "fanout"

-----------------------------------------------------------------------------
(* The plan and the report.                                                *)

Lane(c) ==
    IF BatchSource(c) THEN "batch"
    ELSE IF \E i \in DOMAIN c.stages : c.stages[i] = "submit" THEN "buffered" ELSE "linear"

(* middleware_execution_plan: output_data_plane                            *)
ChainOutput(c) ==
    IF c.stages = <<>> THEN c.plane
    ELSE IF OnlyArrowStages(c) THEN "arrow"
    ELSE IF BatchSource(c) THEN "batches" ELSE "rows"

ArrowChain(c) ==
    BatchSource(c) /\ c.plane = "arrow" /\ (c.stages = <<>> \/ OnlyArrowStages(c))
WriterInput(c) ==
    IF ChainOutput(c) = "arrow" /\ ~AcceptsArrow(c) THEN "batches" ELSE ChainOutput(c)
DirectFlush(c) ==
    c.size > 1 /\ c.writer = "fanout" /\ Len(c.sinks) = 1 /\ BatchWritable(c.sinks[1])

(* build_runtime_plan *)
Plan(c) ==
    [lane |-> Lane(c), arrowChain |-> ArrowChain(c), input |-> WriterInput(c),
     fast |-> ArrowChain(c) /\ AcceptsArrow(c)
                /\ \E i \in DOMAIN c.sinks : "arrow" \in Native(c.sinks[i]),
     direct |-> DirectFlush(c),
     sinks |-> [i \in DOMAIN c.sinks |-> SelectedPlane(c.sinks[i], WriterInput(c))]]

Checkpointing(c) == c.store /\ c.cursor

(* isinstance(source, CheckpointIdentityProvider): LimitedSource has the   *)
(* method whatever it wraps.                                               *)
IdentitySupported(c) == c.identity \/ c.limited

Claim(s) == Claims[s.claim]
Unsafe(c) == {i \in DOMAIN c.sinks : ~Claim(c.sinks[i]).safe}
NotIdempotent(c) == {i \in DOMAIN c.sinks : Claim(c.sinks[i]).idempotency \in {"unknown", "none"}}

(* Mutant of Mismatches: sinks are held to idempotency only.               *)
SinksUnasked(c) ==
    {m \in {"checkpoint"} : c.replay /\ ~Checkpointing(c)}
    \union {m \in {"identity"} : c.replay /\ ~IdentitySupported(c)}
    \union {m \in {"idempotency"} : c.idempotent /\ NotIdempotent(c) # {}}

(* delivery_policy_mismatches *)
Mismatches(c) ==
    {m \in {"checkpoint"} : c.replay /\ ~Checkpointing(c)}
    \union {m \in {"identity"} : c.replay /\ ~IdentitySupported(c)}
    \union {m \in {"nosinks"} : c.replay /\ c.sinks = <<>>}
    \union {m \in {"unsafe"} : c.replay /\ Unsafe(c) # {}}
    \union {m \in {"idempotency"} : c.idempotent /\ NotIdempotent(c) # {}}

(* build_delivery_capability *)
Report(c) ==
    [safe |-> Checkpointing(c) /\ IdentitySupported(c) /\ c.sinks # <<>> /\ Unsafe(c) = {},
     mismatches |-> Mismatches(c)]

-----------------------------------------------------------------------------
(* BoundPipeline.run: explain builds a plan and raises what planning does. *)

Explain ==
    /\ pl.pc = "bound"
    /\ \/ ~Compatible(pl.conf) /\ pl' = [pl EXCEPT !.pc = "refused"]
       \/ /\ Compatible(pl.conf)
          /\ pl' = [pl EXCEPT !.pc = "explained", !.report = Report(pl.conf)]

(* enforce_delivery_policy *)
Enforce ==
    /\ pl.pc = "explained"
    /\ pl' = [pl EXCEPT !.pc = IF pl.report.mismatches # {} THEN "refused" ELSE "enforced"]

(* prepare_execution *)
Prepare ==
    pl.pc = "enforced" /\ pl' = [pl EXCEPT !.pc = "running", !.plan = Plan(pl.conf)]

(* What the sink's method is given: a list, when it takes lists.           *)
Listed(s) == IF BatchWritable(s) THEN "batches" ELSE "rows"

(* SinkFanOut.write_arrow_batch: the method decides, not the declaration.  *)
WriteArrowBatch(c) ==
    [i \in DOMAIN c.sinks |-> IF ArrowWritable(c.sinks[i]) THEN "arrow" ELSE Listed(c.sinks[i])]

(* SinkFanOut.write_batch and SinkRouter.write_batch.                      *)
WriteBatch(c) == [i \in DOMAIN c.sinks |-> Listed(c.sinks[i])]
Write(c) == [i \in DOMAIN c.sinks |-> "rows"]

Delivered(stages, writer, sinks) ==
    pl' = [pl EXCEPT !.pc = "done", !.got = [stages |-> stages, writer |-> writer, sinks |-> sinks]]

(* The batch lane with an Arrow chain: no to_pylist() before the writer,   *)
(* and there only if the writer has no write_arrow_batch().                *)
ArrowBatch ==
    /\ pl.pc = "running" /\ pl.plan.lane = "batch" /\ pl.plan.arrowChain
    /\ IF AcceptsArrow(pl.conf) THEN Delivered("arrow", "arrow", WriteArrowBatch(pl.conf))
       ELSE Delivered("arrow", "batches", WriteBatch(pl.conf))

(* The batch lane otherwise: lists.                                        *)
ListBatch ==
    /\ pl.pc = "running" /\ pl.plan.lane = "batch" /\ ~pl.plan.arrowChain
    /\ Delivered("batches", "batches", WriteBatch(pl.conf))

(* The linear and buffered lanes: one record, or batch_size of them.       *)
RowWise ==
    /\ pl.pc = "running" /\ pl.plan.lane # "batch"
    /\ IF pl.conf.size = 1 THEN Delivered("rows", "rows", Write(pl.conf))
       ELSE Delivered("rows", "rows", WriteBatch(pl.conf))

Over == pl.pc \in {"refused", "done"} /\ UNCHANGED pl

Next == Explain \/ Enforce \/ Prepare \/ ArrowBatch \/ ListBatch \/ RowWise \/ Over

Spec == Init /\ [][Next]_pl

-----------------------------------------------------------------------------
(* No stage is handed a shape it does not work on: Arrow stages get Arrow  *)
(* batches, and only they do.                                              *)
StagesGetTheirShape ==
    pl.pc = "done" => \A i \in DOMAIN pl.conf.stages :
        (pl.conf.stages[i] = "arrow") <=> (pl.got.stages = "arrow")

Declares(s) == ArrowWritable(s) => "arrow" \in Native(s)

(* What explain() says of the writer and of every sink is what they get,   *)
(* unless batch_size regroups rows on their way, or a sink takes Arrow     *)
(* batches without saying so.                                              *)
PlanIsKept ==
    pl.pc = "done" /\ (pl.plan.lane = "batch" \/ pl.conf.size = 1)
        => /\ pl.got.writer = pl.plan.input
           /\ pl.plan.fast => \E i \in DOMAIN pl.conf.sinks : pl.got.sinks[i] = "arrow"
           /\ \A i \in DOMAIN pl.conf.sinks :
                  Declares(pl.conf.sinks[i]) => pl.got.sinks[i] = pl.plan.sinks[i]

(* A run that starts under require_replay_safe is one the report calls     *)
(* replay-safe, and one that starts under require_idempotent_sinks reaches *)
(* no sink that says unknown or none.                                      *)
StartedAsRequired ==
    pl.pc \in {"running", "done"}
        => /\ pl.conf.replay => pl.report.safe
           /\ pl.conf.idempotent => NotIdempotent(pl.conf) = {}

=============================================================================
