---------------------------- MODULE Parts_proofs ----------------------------
(***************************************************************************)
(* What a step of a component may do to its state: inductive invariants of *)
(* the execution plan (ExecutionPlan), schema tracking (SchemaTracking),   *)
(* dead-letter replay (DlqReplay), the order command center (OrderCenter), *)
(* the state backends and their users (StateStore) and the requests of an  *)
(* HTTP source (HttpSource), for any value of their constants.  The state  *)
(* of the component is s; Components_proofs says what that means for the   *)
(* behaviours of MCComponents.                                             *)
(***************************************************************************)
EXTENDS Component, Integers, Sequences, FiniteSets, SequenceTheorems,
        FiniteSetTheorems, TLAPS

-----------------------------------------------------------------------------
(* ExecutionPlan.                                                          *)

\* Lengths of the chain and of the list of sinks.
PlanBounds == MaxStages \in Nat /\ MaxSinks \in Nat

Pipelines == {c \in PL!Planned \union PL!Reported : c.plane # "rows" => c.streams}

\* What the lane of a pipeline hands to the stages, to the writer and to the sinks.
HandedOut(c) ==
  IF PL!Lane(c) # "batch"
  THEN [stages |-> "rows", writer |-> "rows",
        sinks |-> IF c.size = 1 THEN PL!Write(c) ELSE PL!WriteBatch(c)]
  ELSE IF ~PL!ArrowChain(c)
  THEN [stages |-> "batches", writer |-> "batches", sinks |-> PL!WriteBatch(c)]
  ELSE IF PL!AcceptsArrow(c)
  THEN [stages |-> "arrow", writer |-> "arrow", sinks |-> PL!WriteArrowBatch(c)]
  ELSE [stages |-> "arrow", writer |-> "batches", sinks |-> PL!WriteBatch(c)]

\* The plan a run follows and the report it was allowed by are those of its pipeline.
PlanInv(p) ==
  /\ p = [conf |-> p.conf, pc |-> p.pc, plan |-> p.plan, report |-> p.report, got |-> p.got]
  /\ p.conf \in Pipelines
  /\ p.pc \in {"bound", "refused", "explained", "enforced", "running", "done"}
  /\ p.pc \notin {"bound", "refused"} =>
        PL!Compatible(p.conf) /\ p.report = PL!Report(p.conf)
  /\ p.pc \in {"enforced", "running", "done"} => PL!Mismatches(p.conf) = {}
  /\ p.pc \in {"running", "done"} => p.plan = PL!Plan(p.conf)
  /\ p.pc = "done" => p.got = HandedOut(p.conf)

\* The fields of a pipeline.
LEMMA PipelineFields ==
  ASSUME PlanBounds, NEW c \in Pipelines
  PROVE  /\ c.plane \in PL!Planes /\ c.streams \in BOOLEAN /\ c.size \in {1, 2}
         /\ c.plane # "rows" => c.streams
         /\ c.replay \in BOOLEAN /\ c.idempotent \in BOOLEAN
         /\ c.writer \in PL!Writers
         /\ \E n \in Nat : c.stages \in [1 .. n -> PL!Stages]
         /\ \E n \in Nat : c.sinks \in [1 .. n -> [shape : DOMAIN PL!Shapes,
                                                   claim : DOMAIN PL!Claims]]
         /\ c.writer = "own" => c.sinks = <<>>
<1>1. PICK w \in PL!Writers :
        \/ c \in [plane : PL!Planes, streams : BOOLEAN, stages : PL!SeqOf(PL!Stages, MaxStages),
                  writer : {w}, size : {1, 2},
                  sinks : PL!WithSinks(w, [shape : DOMAIN PL!Shapes, claim : {"nothing"}]),
                  replay : {FALSE}, idempotent : {FALSE}, store : {FALSE}, cursor : {FALSE},
                  identity : {FALSE}, limited : {FALSE}]
        \/ c \in [plane : {"rows"}, streams : {FALSE}, stages : {<<>>}, writer : {w}, size : {1},
                  sinks : PL!WithSinks(w, [shape : {"plain"}, claim : DOMAIN PL!Claims]),
                  replay : BOOLEAN, idempotent : BOOLEAN, store : BOOLEAN, cursor : BOOLEAN,
                  identity : BOOLEAN, limited : BOOLEAN]
    BY DEF Pipelines, PL!Planned, PL!Reported
<1>2. \A w2, x : x \in PL!WithSinks(w2, [shape : {"plain"}, claim : DOMAIN PL!Claims])
        => x \in PL!WithSinks(w2, [shape : DOMAIN PL!Shapes, claim : DOMAIN PL!Claims])
    BY DEF PL!WithSinks, PL!SeqOf, PL!Shapes
<1>3. \A w2, x : x \in PL!WithSinks(w2, [shape : DOMAIN PL!Shapes, claim : {"nothing"}])
        => x \in PL!WithSinks(w2, [shape : DOMAIN PL!Shapes, claim : DOMAIN PL!Claims])
    BY DEF PL!WithSinks, PL!SeqOf, PL!Claims
<1>4. \A w2, x, S : x \in PL!WithSinks(w2, S)
        => (\E n \in Nat : x \in [1 .. n -> S]) /\ (w2 = "own" => x = <<>>)
  <2> SUFFICES ASSUME NEW w2, NEW x, NEW S, x \in PL!WithSinks(w2, S)
               PROVE  (\E n \in Nat : x \in [1 .. n -> S]) /\ (w2 = "own" => x = <<>>)
    OBVIOUS
  <2>1. CASE w2 = "own"
    <3>1. x = <<>>
        BY <2>1 DEF PL!WithSinks
    <3>2. x \in [1 .. 0 -> S]
        BY <3>1
    <3>. QED
        BY <2>1, <3>1, <3>2
  <2>2. CASE w2 # "own"
    <3>1. x \in PL!SeqOf(S, MaxSinks)
        BY <2>2 DEF PL!WithSinks
    <3>2. PICK m \in 0 .. MaxSinks : x \in [1 .. m -> S]
        BY <3>1 DEF PL!SeqOf
    <3>. QED
        BY <2>2, <3>2 DEF PlanBounds
  <2>. QED
    BY <2>1, <2>2
<1>5. \A x : x \in PL!SeqOf(PL!Stages, MaxStages) => \E n \in Nat : x \in [1 .. n -> PL!Stages]
    BY DEF PL!SeqOf, PlanBounds
<1>6. <<>> \in [1 .. 0 -> PL!Stages]
    OBVIOUS
<1>7. c.plane # "rows" => c.streams
    BY DEF Pipelines
<1>8. c.writer = w /\ c.sinks \in PL!WithSinks(w, [shape : DOMAIN PL!Shapes,
                                                claim : DOMAIN PL!Claims])
    BY <1>1, <1>2, <1>3
<1>9. \E n \in Nat : c.stages \in [1 .. n -> PL!Stages]
    BY <1>1, <1>5, <1>6
<1>10. /\ c.plane \in PL!Planes /\ c.streams \in BOOLEAN /\ c.size \in {1, 2}
       /\ c.replay \in BOOLEAN /\ c.idempotent \in BOOLEAN
    BY <1>1 DEF PL!Planes
<1>. QED
    BY <1>4, <1>7, <1>8, <1>9, <1>10

\* What the kinds of sinks can be given.
LEMMA ShapesAre ==
  ASSUME NEW k, k.shape \in {"file", "batch", "plain", "quiet"}
  PROVE  /\ PL!Native(k) = CASE k.shape = "file" -> PL!Planes
                            [] k.shape = "batch" -> {"rows", "batches"}
                            [] OTHER -> {"rows"}
         /\ PL!BatchWritable(k) <=> k.shape \in {"file", "batch"}
         /\ PL!ArrowWritable(k) <=> k.shape \in {"file", "quiet"}
<1>1. /\ PL!Shapes["file"].declared = PL!Planes /\ PL!Shapes["batch"].declared = {}
      /\ PL!Shapes["plain"].declared = {} /\ PL!Shapes["quiet"].declared = {}
    BY DEF PL!Shapes
<1>2. /\ PL!Shapes["file"].batch /\ PL!Shapes["batch"].batch
      /\ ~PL!Shapes["plain"].batch /\ ~PL!Shapes["quiet"].batch
    BY Zenon DEF PL!Shapes
<1>3. /\ PL!Shapes["file"].arrow /\ ~PL!Shapes["batch"].arrow
      /\ ~PL!Shapes["plain"].arrow /\ PL!Shapes["quiet"].arrow
    BY Zenon DEF PL!Shapes
<1>4. PL!Native(k) = CASE k.shape = "file" -> PL!Planes
                       [] k.shape = "batch" -> {"rows", "batches"}
                       [] OTHER -> {"rows"}
    BY <1>1, <1>2 DEF PL!Native, PL!Planes
<1>. QED
    BY <1>2, <1>3, <1>4 DEF PL!BatchWritable, PL!ArrowWritable, PL!Planes

\* The parts of a plan, and the verdict of a report.
LEMMA PlanParts ==
  ASSUME NEW c
  PROVE  /\ PL!Plan(c).lane = PL!Lane(c) /\ PL!Plan(c).input = PL!WriterInput(c)
         /\ PL!Plan(c).arrowChain <=> PL!ArrowChain(c)
         /\ PL!Plan(c).fast <=> PL!ArrowChain(c) /\ PL!AcceptsArrow(c)
                              /\ \E i \in DOMAIN c.sinks : "arrow" \in PL!Native(c.sinks[i])
         /\ PL!Plan(c).sinks = [i \in DOMAIN c.sinks |->
                                  PL!SelectedPlane(c.sinks[i], PL!WriterInput(c))]
         /\ PL!Report(c).mismatches = PL!Mismatches(c)
         /\ PL!Report(c).safe <=> PL!Checkpointing(c) /\ PL!IdentitySupported(c)
                                 /\ c.sinks # <<>> /\ PL!Unsafe(c) = {}
<1>1. /\ PL!Plan(c).lane = PL!Lane(c) /\ PL!Plan(c).input = PL!WriterInput(c)
      /\ PL!Plan(c).sinks = [i \in DOMAIN c.sinks |->
                                  PL!SelectedPlane(c.sinks[i], PL!WriterInput(c))]
    BY Zenon DEF PL!Plan
<1>2. PL!Plan(c).arrowChain <=> PL!ArrowChain(c)
    BY Zenon DEF PL!Plan
<1>3. PL!Plan(c).fast <=> PL!ArrowChain(c) /\ PL!AcceptsArrow(c)
                              /\ \E i \in DOMAIN c.sinks : "arrow" \in PL!Native(c.sinks[i])
    BY Zenon DEF PL!Plan
<1>4. PL!Report(c).mismatches = PL!Mismatches(c)
    BY Zenon DEF PL!Report
<1>5. PL!Report(c).safe <=> PL!Checkpointing(c) /\ PL!IdentitySupported(c)
                                 /\ c.sinks # <<>> /\ PL!Unsafe(c) = {}
    BY Zenon DEF PL!Report
<1>. QED
    BY <1>1, <1>2, <1>3, <1>4, <1>5

LEMMA PlanInit ==
  ASSUME PlanBounds, PL!Init
  PROVE  PlanInv(s)
BY DEF PL!Init, PlanInv, Pipelines

LEMMA PlanStep ==
  ASSUME PlanBounds, PlanInv(s), PL!Next
  PROVE  PlanInv(s')
<1>. DEFINE c == s.conf
<1>0. /\ PL!Plan(c).lane = PL!Lane(c)
      /\ PL!Plan(c).arrowChain <=> PL!ArrowChain(c)
      /\ PL!Report(c).mismatches = PL!Mismatches(c)
    BY PlanParts
<1>. HIDE DEF c
<1>. USE DEF PlanInv
<1>1. CASE PL!Explain
    BY <1>1 DEF PL!Explain
<1>2. CASE PL!Enforce
    BY <1>2, <1>0 DEF PL!Enforce, c
<1>3. CASE PL!Prepare
    BY <1>3 DEF PL!Prepare
<1>4. CASE PL!ArrowBatch
  <2>1. /\ s.pc = "running" /\ s.plan = PL!Plan(c) /\ c = s.conf
        /\ PL!Lane(c) = "batch" /\ PL!ArrowChain(c)
    BY <1>4, <1>0 DEF PL!ArrowBatch, c
  <2>2. s' = [s EXCEPT !.pc = "done", !.got = HandedOut(c)]
    BY <1>4, <2>1 DEF PL!ArrowBatch, PL!Delivered, HandedOut
  <2>. QED
    BY <2>1, <2>2
<1>5. CASE PL!ListBatch
  <2>1. /\ s.pc = "running" /\ s.plan = PL!Plan(c) /\ c = s.conf
        /\ PL!Lane(c) = "batch" /\ ~PL!ArrowChain(c)
    BY <1>5, <1>0 DEF PL!ListBatch, c
  <2>2. s' = [s EXCEPT !.pc = "done", !.got = HandedOut(c)]
    BY <1>5, <2>1 DEF PL!ListBatch, PL!Delivered, HandedOut
  <2>. QED
    BY <2>1, <2>2
<1>6. CASE PL!RowWise
  <2>1. /\ s.pc = "running" /\ s.plan = PL!Plan(c) /\ c = s.conf
        /\ PL!Lane(c) # "batch"
    BY <1>6, <1>0 DEF PL!RowWise, c
  <2>2. s' = [s EXCEPT !.pc = "done", !.got = HandedOut(c)]
    BY <1>6, <2>1 DEF PL!RowWise, PL!Delivered, HandedOut
  <2>. QED
    BY <2>1, <2>2
<1>7. CASE PL!Over
    BY <1>7 DEF PL!Over
<1>. QED
    BY <1>1, <1>2, <1>3, <1>4, <1>5, <1>6, <1>7 DEF PL!Next

LEMMA PlanHolds ==
  ASSUME PlanBounds, PlanInv(s)
  PROVE  PL!StagesGetTheirShape /\ PL!PlanIsKept /\ PL!StartedAsRequired
<1>. DEFINE c == s.conf
<1>0. c \in Pipelines
    BY DEF PlanInv
<1>1. /\ c.plane \in PL!Planes /\ c.streams \in BOOLEAN /\ c.size \in {1, 2}
      /\ c.plane # "rows" => c.streams
      /\ c.writer \in PL!Writers
      /\ c.writer = "own" => c.sinks = <<>>
    BY <1>0, PipelineFields
<1>2. PICK n \in Nat : c.stages \in [1 .. n -> PL!Stages]
    BY <1>0, PipelineFields
<1>3. PICK m \in Nat : c.sinks \in [1 .. m -> [shape : DOMAIN PL!Shapes,
                                              claim : DOMAIN PL!Claims]]
    BY <1>0, PipelineFields
<1>4. PL!StagesGetTheirShape
  <2> SUFFICES ASSUME s.pc = "done", NEW i \in DOMAIN c.stages
               PROVE  (c.stages[i] = "arrow") <=> (s.got.stages = "arrow")
    BY DEF PL!StagesGetTheirShape
  <2>1. s.got.stages = IF PL!Lane(c) # "batch" THEN "rows"
                       ELSE IF ~PL!ArrowChain(c) THEN "batches" ELSE "arrow"
    BY DEF PlanInv, HandedOut
  <2>2. PL!Compatible(c)
    BY DEF PlanInv
  <2>3. c.stages # <<>>
    BY <1>2
  <2>4. c.stages[i] = "arrow" => c.plane = "arrow" /\ PL!OnlyArrowStages(c)
    BY <2>2 DEF PL!Compatible, PL!ArrowStages
  <2>5. PL!OnlyArrowStages(c) => c.stages[i] = "arrow"
    BY DEF PL!OnlyArrowStages
  <2>. QED
    BY <2>1, <2>3, <2>4, <2>5, <1>1 DEF PL!ArrowChain, PL!BatchSource, PL!Lane, PL!Planes
<1>5. PL!StartedAsRequired
  <2> SUFFICES ASSUME s.pc \in {"running", "done"}
               PROVE  /\ c.replay => s.report.safe
                      /\ c.idempotent => PL!NotIdempotent(c) = {}
    BY DEF PL!StartedAsRequired
  <2>1. PL!Mismatches(c) = {} /\ s.report = PL!Report(c)
    BY DEF PlanInv
  <2>2. c.replay => PL!Checkpointing(c) /\ PL!IdentitySupported(c) /\ c.sinks # <<>>
                    /\ PL!Unsafe(c) = {}
    BY <2>1 DEF PL!Mismatches
  <2>3. c.idempotent => PL!NotIdempotent(c) = {}
    BY <2>1 DEF PL!Mismatches
  <2>. QED
    BY <2>1, <2>2, <2>3, PlanParts
<1>6. PL!PlanIsKept
  <2> SUFFICES ASSUME s.pc = "done", s.plan.lane = "batch" \/ c.size = 1
               PROVE  /\ s.got.writer = s.plan.input
                      /\ s.plan.fast => \E i \in DOMAIN c.sinks : s.got.sinks[i] = "arrow"
                      /\ \A i \in DOMAIN c.sinks :
                            PL!Declares(c.sinks[i]) => s.got.sinks[i] = s.plan.sinks[i]
    BY DEF PL!PlanIsKept
  <2>1. s.plan = PL!Plan(c) /\ s.got = HandedOut(c) /\ PL!Compatible(c)
    BY DEF PlanInv
  <2>2. /\ PL!Plan(c).input = PL!WriterInput(c) /\ PL!Plan(c).lane = PL!Lane(c)
        /\ PL!Plan(c).fast <=> PL!ArrowChain(c) /\ PL!AcceptsArrow(c)
                            /\ \E i \in DOMAIN c.sinks : "arrow" \in PL!Native(c.sinks[i])
        /\ PL!Plan(c).sinks = [i \in DOMAIN c.sinks |->
                                  PL!SelectedPlane(c.sinks[i], PL!WriterInput(c))]
    BY PlanParts
  <2>3. \A i \in DOMAIN c.sinks : c.sinks[i].shape \in {"file", "batch", "plain", "quiet"}
    BY <1>3 DEF PL!Shapes
  <2>4. ASSUME NEW i \in DOMAIN c.sinks
        PROVE  /\ PL!Native(c.sinks[i]) = CASE c.sinks[i].shape = "file" -> PL!Planes
                                      [] c.sinks[i].shape = "batch" -> {"rows", "batches"}
                                      [] OTHER -> {"rows"}
               /\ PL!BatchWritable(c.sinks[i]) <=> c.sinks[i].shape \in {"file", "batch"}
               /\ PL!ArrowWritable(c.sinks[i]) <=> c.sinks[i].shape \in {"file", "quiet"}
    <3>. DEFINE k == c.sinks[i]
    <3>1. k.shape \in {"file", "batch", "plain", "quiet"}
        BY <2>3
    <3>. HIDE DEF k
    <3>2. /\ PL!Native(k) = CASE k.shape = "file" -> PL!Planes
                              [] k.shape = "batch" -> {"rows", "batches"}
                              [] OTHER -> {"rows"}
          /\ PL!BatchWritable(k) <=> k.shape \in {"file", "batch"}
          /\ PL!ArrowWritable(k) <=> k.shape \in {"file", "quiet"}
        BY <3>1, ShapesAre
    <3>. QED
        BY <3>2 DEF k
  <2>9. PL!OnlyArrowStages(c) => c.plane = "arrow" /\ PL!ArrowStages(c)
    <3>1. PL!OnlyArrowStages(c) => PL!ArrowStages(c)
        BY <1>2 DEF PL!OnlyArrowStages, PL!ArrowStages
    <3>. QED
        BY <3>1, <2>1 DEF PL!Compatible
  <2>10. PL!Lane(c) = "batch" <=> PL!BatchSource(c)
    BY DEF PL!Lane
  <2>5. CASE PL!Lane(c) # "batch"
    <3>0. PL!Lane(c) # "batch" /\ c.size = 1 /\ ~PL!ArrowChain(c)
        BY <2>5, <2>1, <2>2, <2>10 DEF PL!ArrowChain
    <3>1. c.plane = "rows" /\ ~PL!BatchSource(c)
        BY <2>5, <2>10, <1>1 DEF PL!BatchSource
    <3>2. PL!WriterInput(c) = "rows"
        BY <3>1, <2>9, <2>1 DEF PL!WriterInput, PL!ChainOutput
    <3>3. s.got.writer = "rows" /\ s.got.sinks = PL!Write(c)
        BY <2>1, <3>0 DEF HandedOut
    <3>4. \A i \in DOMAIN c.sinks :
            PL!Declares(c.sinks[i]) => s.got.sinks[i] = PL!SelectedPlane(c.sinks[i], "rows")
        BY <3>3, <2>3, <2>4 DEF PL!Declares, PL!SelectedPlane, PL!Listed, PL!Planes, PL!Write
    <3>. QED
        BY <2>1, <2>2, <3>0, <3>2, <3>3, <3>4, <2>4
  <2>6. CASE PL!Lane(c) = "batch" /\ ~PL!ArrowChain(c)
    <3>0. PL!Lane(c) = "batch" /\ ~PL!ArrowChain(c)
        BY <2>6
    <3>1. PL!BatchSource(c) /\ ~PL!OnlyArrowStages(c) /\ (c.stages = <<>> => c.plane = "batches")
        BY <2>6, <2>9, <2>10, <1>1 DEF PL!ArrowChain, PL!BatchSource, PL!Planes
    <3>2. PL!WriterInput(c) = "batches"
        BY <3>1, <2>9, <2>1 DEF PL!WriterInput, PL!ChainOutput
    <3>3. s.got.writer = "batches" /\ s.got.sinks = PL!WriteBatch(c)
        BY <2>1, <3>0 DEF HandedOut
    <3>4. \A i \in DOMAIN c.sinks :
            PL!Declares(c.sinks[i]) => s.got.sinks[i] = PL!SelectedPlane(c.sinks[i], "batches")
        BY <3>3, <2>3, <2>4 DEF PL!Declares, PL!SelectedPlane, PL!Listed, PL!Planes, PL!WriteBatch
    <3>. QED
        BY <2>1, <2>2, <3>0, <3>2, <3>3, <3>4, <2>4
  <2>7. CASE PL!Lane(c) = "batch" /\ PL!ArrowChain(c) /\ PL!AcceptsArrow(c)
    <3>0. PL!Lane(c) = "batch" /\ PL!ArrowChain(c) /\ PL!AcceptsArrow(c)
        BY <2>7
    <3>1. c.plane = "arrow" /\ (c.stages = <<>> \/ PL!OnlyArrowStages(c)) /\ PL!AcceptsArrow(c)
        BY <2>7 DEF PL!ArrowChain
    <3>2. PL!WriterInput(c) = "arrow"
        BY <3>1, <2>9, <2>1 DEF PL!WriterInput, PL!ChainOutput
    <3>3. s.got.writer = "arrow" /\ s.got.sinks = PL!WriteArrowBatch(c)
        BY <2>1, <3>0 DEF HandedOut
    <3>4. \A i \in DOMAIN c.sinks :
            PL!Declares(c.sinks[i]) => s.got.sinks[i] = PL!SelectedPlane(c.sinks[i], "arrow")
        BY <3>3, <2>3, <2>4
           DEF PL!Declares, PL!SelectedPlane, PL!Listed, PL!Planes, PL!WriteArrowBatch
    <3>5. \A i \in DOMAIN c.sinks : "arrow" \in PL!Native(c.sinks[i]) => s.got.sinks[i] = "arrow"
        BY <3>3, <2>3, <2>4 DEF PL!Planes, PL!WriteArrowBatch
    <3>. QED
        BY <3>5, <2>1, <2>2, <3>0, <3>2, <3>3, <3>4, <2>4
  <2>8. CASE PL!Lane(c) = "batch" /\ PL!ArrowChain(c) /\ ~PL!AcceptsArrow(c)
    <3>0. PL!Lane(c) = "batch" /\ PL!ArrowChain(c) /\ ~PL!AcceptsArrow(c)
        BY <2>8
    <3>1. c.plane = "arrow" /\ (c.stages = <<>> \/ PL!OnlyArrowStages(c)) /\ ~PL!AcceptsArrow(c)
        BY <2>8 DEF PL!ArrowChain
    <3>2. PL!WriterInput(c) = "batches"
        BY <3>1, <2>9, <2>1 DEF PL!WriterInput, PL!ChainOutput
    <3>3. s.got.writer = "batches" /\ s.got.sinks = PL!WriteBatch(c)
        BY <2>1, <3>0 DEF HandedOut
    <3>4. \A i \in DOMAIN c.sinks :
            PL!Declares(c.sinks[i]) => s.got.sinks[i] = PL!SelectedPlane(c.sinks[i], "batches")
        BY <3>3, <2>3, <2>4 DEF PL!Declares, PL!SelectedPlane, PL!Listed, PL!Planes, PL!WriteBatch
    <3>. QED
        BY <2>1, <2>2, <3>0, <3>2, <3>3, <3>4, <2>4
  <2>. QED
    BY <2>5, <2>6, <2>7, <2>8
<1>. QED
    BY <1>4, <1>5, <1>6

\* Whatever the source, the chain and the sinks: stages and sinks get the shape the plan shows,
\* and a policy that was asked for holds of the run that starts.
THEOREM PlanAlways ==
  ASSUME PlanBounds
  PROVE  PL!Init /\ [][PL!Next]_s =>
           [](PL!StagesGetTheirShape /\ PL!PlanIsKept /\ PL!StartedAsRequired)
<1>1. PL!Init => PlanInv(s)
    BY PlanInit
<1>2. PlanInv(s) /\ [PL!Next]_s => PlanInv(s)'
  <2>1. SUFFICES ASSUME PlanInv(s), [PL!Next]_s
                 PROVE  PlanInv(s')
    BY ZenonT(90) DEF PlanInv, Pipelines, HandedOut,
           PL!Planes, PL!Stages, PL!Shapes, PL!Claims, PL!Writers, PL!WithSinks,
           PL!Planned, PL!Reported, PL!Native, PL!BatchWritable, PL!ArrowWritable,
           PL!RowsOtherwise, PL!SelectedPlane, PL!ArrowStages, PL!OnlyArrowStages,
           PL!ArrowSource, PL!Compatible, PL!BatchSource, PL!AcceptsArrow, PL!Lane,
           PL!ChainOutput, PL!ArrowChain, PL!WriterInput, PL!DirectFlush, PL!Plan,
           PL!Checkpointing, PL!IdentitySupported, PL!Claim, PL!Unsafe,
           PL!NotIdempotent, PL!SinksUnasked, PL!Mismatches, PL!Report, PL!Listed,
           PL!WriteArrowBatch, PL!WriteBatch, PL!Write, PL!SeqOf
  <2>. QED
    BY SMTT(60), <2>1, PlanStep
<1>3. PlanInv(s) => PL!StagesGetTheirShape /\ PL!PlanIsKept /\ PL!StartedAsRequired
    BY PlanHolds
<1>. QED
    BY <1>1, <1>2, <1>3, PTL

-----------------------------------------------------------------------------
(* SchemaTracking.  A run is r, a schema is x.                             *)

IsCols(x) == x = [c \in DOMAIN x |-> x[c]] /\ \A c \in DOMAIN x : x[c] \in ST!Types

IsSchema(x) ==
  /\ x = [cols |-> x.cols, version |-> x.version]
  /\ IsCols(x.cols) /\ x.version \in Nat
  /\ x.version = 0 => x.cols = <<>>

ValuesOf(r, c) == {f[c] : f \in {g \in r.inputs : c \in DOMAIN g}}

\* FREEZE, within the run.
Frozen(r) ==
  r.conf.contract = "freeze" =>
    /\ r.cur = r.start
    /\ \A f \in r.sent : \A c \in DOMAIN f : c \in DOMAIN r.cur.cols /\ f[c] = r.cur.cols[c]
    /\ r.dropped > 0 => r.pending

\* The inferrer has a column for each field it saw, of the least type, and the middleware a wider.
Inferred(r) ==
  /\ \A c : c \in DOMAIN r.inf <=> \E g \in r.inputs : c \in DOMAIN g
  /\ \A c \in DOMAIN r.inf :
       /\ r.inf[c] = ST!LeastType(ValuesOf(r, c))
       /\ r.conf.contract = "evolve" =>
            c \in DOMAIN r.cur.cols /\ ST!Fits(r.inf[c], r.cur.cols[c])

RunFields(r) ==
  r = [conf |-> r.conf, pc |-> r.pc, cur |-> r.cur, pending |-> r.pending, fed |-> r.fed,
       inf |-> r.inf, inputs |-> r.inputs, sent |-> r.sent, dropped |-> r.dropped,
       start |-> r.start]

RunInv(r) ==
  /\ RunFields(r)
  /\ r.conf.contract \in ST!Contracts /\ r.pc \in {"down", "up"}
  /\ r.pending \in BOOLEAN /\ r.dropped \in Nat
  /\ IsSchema(r.cur) /\ IsCols(r.inf) /\ r.inputs \subseteq ST!Fields
  /\ ~ST!Known(r.cur) => r.sent \subseteq {<<>>}
  /\ \A f \in r.sent : ST!Describes(r.cur.cols, f)
  /\ Frozen(r) /\ Inferred(r)

\* What was saved is described by what is stored, and by the schema of the run that goes on from it.
SchemaInv(b) ==
  /\ b = [run |-> b.run, runs |-> b.runs, stored |-> b.stored, intact |-> b.intact,
          outcome |-> b.outcome, covered |-> b.covered, forgot |-> b.forgot]
  /\ RunInv(b.run) /\ IsSchema(b.stored) /\ b.intact \in BOOLEAN /\ b.forgot \in BOOLEAN
  /\ b.run.conf.contract = "freeze" /\ b.run.dropped > 0 /\ b.run.pc = "down" =>
        b.outcome \in {"error", "died"}
  /\ ~b.forgot /\ b.intact => \A f \in b.covered : ST!Describes(b.stored.cols, f)
  /\ ~b.forgot /\ b.run.pc = "up" =>
        b.intact /\ \A f \in b.covered : ST!Describes(b.run.cur.cols, f)

\* No fields, no columns.
LEMMA NoFields ==
  /\ IsCols(<<>>) /\ DOMAIN <<>> = {} /\ \A x : ST!Describes(x, <<>>)
  /\ IsSchema(ST!NoSchema) /\ ~ST!Known(ST!NoSchema)
  /\ \A x, f : ST!Describes(<<>>, f) => ST!Describes(x, f)
<1>1. DOMAIN <<>> = {}
    OBVIOUS
<1>2. IsCols(<<>>)
    BY <1>1 DEF IsCols
<1>3. \A x : ST!Describes(x, <<>>)
    BY <1>1 DEF ST!Describes
<1>4. IsSchema(ST!NoSchema) /\ ~ST!Known(ST!NoSchema)
    BY <1>2 DEF IsSchema, ST!NoSchema, ST!Known
<1>5. \A x, f : ST!Describes(<<>>, f) => ST!Describes(x, f)
    BY <1>1 DEF ST!Describes
<1>. QED
    BY <1>1, <1>2, <1>3, <1>4, <1>5

\* The fields of a record are columns.
LEMMA FieldsAre ==
  ASSUME NEW f \in ST!Fields
  PROVE  IsCols(f)
<1>1. CASE \E t \in ST!Types : f = [a |-> t]
    BY <1>1 DEF IsCols
<1>2. CASE \E t \in {"null", "integer"} : f = [a |-> "integer", b |-> t]
  <2>1. PICK t \in {"null", "integer"} : f = [a |-> "integer", b |-> t]
    BY <1>2
  <2>2. DOMAIN f = {"a", "b"} /\ f.a = "integer" /\ f.b = t
    BY <2>1
  <2>. QED
    BY <2>1, <2>2 DEF IsCols, ST!Types
<1>. QED
    BY <1>1, <1>2, NoFields DEF ST!Fields

\* A wider type holds what the narrower did, and the value it was widened for.
LEMMA Widens ==
  ASSUME NEW o \in ST!Types, NEW t \in ST!Types
  PROVE  /\ ST!MergeType(o, t) \in ST!Types /\ ST!WidenType(o, t) \in ST!Types
         /\ ST!MergeType(o, o) = o
         /\ \A v : ST!Fits(v, o) => ST!Fits(v, ST!MergeType(o, t))
         /\ ST!Fits(t, ST!MergeType(o, t)) /\ ST!Fits(t, t)
         /\ \A i \in ST!Types : ST!Fits(i, o) =>
              ST!Fits(ST!WidenType(i, t), ST!MergeType(o, t))
BY DEF ST!Types, ST!MergeType, ST!WidenType, ST!CanWiden, ST!Fits

\* The least type, by what is among the values.
LEMMA LeastIs ==
  ASSUME NEW V \in SUBSET ST!Types
  PROVE  /\ V \subseteq {"null"} => ST!LeastType(V) = "null"
         /\ \A t \in ST!Types : t # "null" /\ t \in V /\ V \subseteq {t, "null"} =>
              ST!LeastType(V) = t
         /\ V \subseteq {"null", "integer", "float"} /\ "integer" \in V /\ "float" \in V =>
              ST!LeastType(V) = "float"
         /\ (\E t, u \in V : t # u /\ t # "null" /\ u # "null"
               /\ ~({t, u} = {"integer", "float"} /\ V \subseteq {"null", "integer", "float"}))
              => ST!LeastType(V) = "string"
<1>1. V \subseteq {"null"} => ST!LeastType(V) = "null"
    BY DEF ST!LeastType
<1>2. ASSUME NEW t \in ST!Types, t # "null", t \in V, V \subseteq {t, "null"}
      PROVE  ST!LeastType(V) = t
  <2>1. V \ {"null"} = {t}
    BY <1>2
  <2>2. ~(V \subseteq {"null"})
    BY <1>2
  <2>3. (CHOOSE u \in ST!Types : V \ {"null"} = {u}) = t
    BY <2>1
  <2>. QED
    BY <2>1, <2>2, <2>3 DEF ST!LeastType
<1>3. ASSUME V \subseteq {"null", "integer", "float"}, "integer" \in V, "float" \in V
      PROVE  ST!LeastType(V) = "float"
  <2>1. V \ {"null"} = {"integer", "float"}
    BY <1>3
  <2>2. ~(V \subseteq {"null"}) /\ ~\E u \in ST!Types : V \ {"null"} = {u}
    BY <1>3
  <2>. QED
    BY <2>1, <2>2 DEF ST!LeastType
<1>4. ASSUME NEW t \in V, NEW u \in V, t # u, t # "null", u # "null",
             ~({t, u} = {"integer", "float"} /\ V \subseteq {"null", "integer", "float"})
      PROVE  ST!LeastType(V) = "string"
  <2>1. ~(V \subseteq {"null"}) /\ ~\E w \in ST!Types : V \ {"null"} = {w}
    BY <1>4
  <2>2. V \ {"null"} # {"integer", "float"}
    BY <1>4
  <2>. QED
    BY <2>1, <2>2 DEF ST!LeastType
<1>. QED
    BY <1>1, <1>2, <1>3, <1>4

\* A value more: the type is widened for it.
LEMMA LeastGrows ==
  ASSUME NEW V \in SUBSET ST!Types, NEW t \in ST!Types
  PROVE  /\ ST!LeastType({t}) = t
         /\ V # {} => ST!LeastType(V \union {t}) = ST!WidenType(ST!LeastType(V), t)
<1>. DEFINE W == V \union {t}
<1>0. W \in SUBSET ST!Types /\ {t} \in SUBSET ST!Types
    OBVIOUS
<1>. USE DEF ST!WidenType, ST!Types
<1>1. ST!LeastType({t}) = t
  <2>1. CASE t = "null"
    BY <2>1, <1>0, LeastIs
  <2>2. CASE t # "null"
    BY <2>2, <1>0, LeastIs
  <2>. QED
    BY <2>1, <2>2
<1>2. ASSUME V \subseteq {"null"}, V # {}
      PROVE  ST!LeastType(W) = ST!WidenType(ST!LeastType(V), t)
  <2>1. ST!LeastType(V) = "null"
    BY <1>2, LeastIs
  <2>2. ST!LeastType(W) = t
    <3>1. CASE t = "null"
        BY <3>1, <1>2, <1>0, LeastIs
    <3>2. CASE t # "null"
        BY ZenonT(90), <3>2, <1>2, <1>0, LeastIs
    <3>. QED
        BY <3>1, <3>2
  <2>. QED
    BY <2>1, <2>2
<1>3. ASSUME NEW u \in V, u # "null", V \subseteq {u, "null"}
      PROVE  ST!LeastType(W) = ST!WidenType(ST!LeastType(V), t)
  <2>0. u \in ST!Types
    BY <1>3
  <2>1. ST!LeastType(V) = u
    <3>1. \A x \in ST!Types : x # "null" /\ x \in V /\ V \subseteq {x, "null"} =>
            ST!LeastType(V) = x
        BY LeastIs
    <3>. QED
        BY <3>1, <2>0, <1>3
  <2>2. CASE t \in {u, "null"}
    <3>0. W \subseteq {u, "null"} /\ u \in W
        BY <2>2, <1>3
    <3>2. \A x \in ST!Types : x # "null" /\ x \in W /\ W \subseteq {x, "null"} =>
            ST!LeastType(W) = x
        BY <1>0, LeastIs
    <3>1. ST!LeastType(W) = u
        BY <3>0, <3>2, <2>0, <1>3
    <3>. QED
        BY <3>1, <2>1, <2>2, <1>3
  <2>3. CASE {u, t} = {"integer", "float"}
    <3>1. W \subseteq {"null", "integer", "float"} /\ "integer" \in W /\ "float" \in W
        BY <2>3, <1>3
    <3>2. ST!LeastType(W) = "float"
        BY <3>1, <1>0, LeastIs
    <3>. QED
        BY <3>2, <2>1, <2>3, <1>3
  <2>4. CASE t \notin {u, "null"} /\ {u, t} # {"integer", "float"}
    <3>1. u \in W /\ t \in W
        BY <1>3
    <3>2. ST!LeastType(W) = "string"
        BY <3>1, <2>4, <1>3, <1>0, LeastIs
    <3>. QED
        BY <3>2, <2>1, <2>4, <1>3
  <2>. QED
    BY <2>2, <2>3, <2>4
<1>4. ASSUME V \subseteq {"null", "integer", "float"}, "integer" \in V, "float" \in V
      PROVE  ST!LeastType(W) = ST!WidenType(ST!LeastType(V), t)
  <2>1. ST!LeastType(V) = "float"
    BY <1>4, LeastIs
  <2>2. CASE t \in {"null", "integer", "float"}
    <3>1. ST!LeastType(W) = "float"
        BY <2>2, <1>4, <1>0, LeastIs
    <3>. QED
        BY <3>1, <2>1, <2>2
  <2>3. CASE t \notin {"null", "integer", "float"}
    <3>1. t \in W /\ "float" \in W
        BY <1>4
    <3>2. ST!LeastType(W) = "string"
        BY <3>1, <2>3, <1>0, LeastIs
    <3>. QED
        BY <3>2, <2>1, <2>3
  <2>. QED
    BY <2>2, <2>3
<1>5. ASSUME NEW u \in V, NEW w \in V, u # w, u # "null", w # "null",
             ~({u, w} = {"integer", "float"} /\ V \subseteq {"null", "integer", "float"})
      PROVE  ST!LeastType(W) = ST!WidenType(ST!LeastType(V), t)
  <2>1. ST!LeastType(V) = "string"
    BY <1>5, LeastIs
  <2>2. u \in W /\ w \in W
      /\ ~({u, w} = {"integer", "float"} /\ W \subseteq {"null", "integer", "float"})
    BY <1>5
  <2>3. ST!LeastType(W) = "string"
    BY <2>2, <1>5, <1>0, LeastIs
  <2>. QED
    BY <2>1, <2>3
<1>6. ASSUME V # {}
      PROVE  \/ V \subseteq {"null"}
             \/ \E u \in V : u # "null" /\ V \subseteq {u, "null"}
             \/ \E u, w \in V : u # w /\ u # "null" /\ w # "null"
    BY <1>6
<1>7. ASSUME NEW u \in V, NEW w \in V, u # w, u # "null", w # "null"
      PROVE  \/ V \subseteq {"null", "integer", "float"} /\ "integer" \in V /\ "float" \in V
             \/ ~({u, w} = {"integer", "float"} /\ V \subseteq {"null", "integer", "float"})
    BY <1>7
<1>. QED
    BY <1>1, <1>2, <1>3, <1>4, <1>5, <1>6, <1>7

\* A merge widens the columns, adds new ones under EVOLVE only, and is idle under FREEZE.
LEMMA MergeIs ==
  ASSUME NEW k \in ST!Contracts, NEW x, IsSchema(x), NEW new, IsCols(new)
  PROVE  /\ IsSchema(ST!Merge(k, x, new))
         /\ ST!Known(x) => ST!Known(ST!Merge(k, x, new))
         /\ DOMAIN ST!Merge(k, x, new).cols = DOMAIN x.cols \union ST!Added(k, x.cols, new)
         /\ \A c \in DOMAIN ST!Merge(k, x, new).cols :
              ST!Merge(k, x, new).cols[c] =
                IF c \notin DOMAIN new THEN x.cols[c]
                ELSE IF c \notin DOMAIN x.cols THEN new[c] ELSE ST!MergeType(x.cols[c], new[c])
         /\ \A f : ST!Describes(x.cols, f) => ST!Describes(ST!Merge(k, x, new).cols, f)
         /\ DOMAIN new \subseteq DOMAIN ST!Merge(k, x, new).cols =>
              ST!Describes(ST!Merge(k, x, new).cols, new)
         /\ k = "freeze" /\ ~ST!Rejects(k, x.cols, new) /\ ST!Known(x) =>
              ST!Merge(k, x, new) = x
<1>. DEFINE m == ST!Merge(k, x, new)
            cols == [c \in DOMAIN x.cols \union ST!Added(k, x.cols, new) |->
                       IF c \notin DOMAIN new THEN x.cols[c]
                       ELSE IF c \notin DOMAIN x.cols THEN new[c]
                       ELSE ST!MergeType(x.cols[c], new[c])]
            v == x.version + (IF ST!Changed(x.cols, new) \union ST!Added(k, x.cols, new) # {}
                              THEN 1 ELSE 0)
<1>1. m = [cols |-> cols, version |-> v]
    BY DEF ST!Merge
<1>2. ST!Added(k, x.cols, new) \subseteq DOMAIN new \ DOMAIN x.cols
    BY DEF ST!Added
<1>3. /\ IsCols(x.cols) /\ x.version \in Nat /\ (x.version = 0 => x.cols = <<>>)
      /\ x = [cols |-> x.cols, version |-> x.version]
    BY DEF IsSchema
<1>4. /\ \A c \in DOMAIN x.cols : x.cols[c] \in ST!Types
      /\ \A c \in DOMAIN new : new[c] \in ST!Types
      /\ x.cols = [c \in DOMAIN x.cols |-> x.cols[c]]
    BY <1>3 DEF IsCols
<1>5. IsCols(cols)
    BY <1>2, <1>4, Widens DEF IsCols
<1>6. v \in Nat /\ v >= x.version /\ (v = 0 => cols = <<>>)
  <2>1. v \in Nat /\ v >= x.version
    BY <1>3
  <2>2. ASSUME v = 0
        PROVE  cols = <<>>
    <3>1. x.version = 0 /\ ST!Added(k, x.cols, new) = {}
        BY <2>2, <1>3
    <3>2. DOMAIN x.cols = {}
        BY <3>1, <1>3, NoFields
    <3>3. DOMAIN cols = {}
        BY <3>1, <3>2
    <3>. QED
        BY <3>3
  <2>. QED
    BY <2>1, <2>2
<1>7. IsSchema(m) /\ (ST!Known(x) => ST!Known(m))
  <2>1. m.cols = cols /\ m.version = v
    BY <1>1
  <2>. QED
    BY <1>1, <2>1, <1>3, <1>5, <1>6 DEF IsSchema, ST!Known
<1>8. /\ DOMAIN m.cols = DOMAIN x.cols \union ST!Added(k, x.cols, new)
      /\ \A c \in DOMAIN m.cols :
              m.cols[c] = IF c \notin DOMAIN new THEN x.cols[c]
                          ELSE IF c \notin DOMAIN x.cols THEN new[c]
                          ELSE ST!MergeType(x.cols[c], new[c])
    BY <1>1
<1>. HIDE DEF m
<1>9. ASSUME NEW f, ST!Describes(x.cols, f)
      PROVE  ST!Describes(m.cols, f)
  <2> SUFFICES ASSUME NEW c \in DOMAIN f
               PROVE  c \in DOMAIN m.cols /\ ST!Fits(f[c], m.cols[c])
    BY DEF ST!Describes
  <2>1. c \in DOMAIN x.cols /\ ST!Fits(f[c], x.cols[c])
    BY <1>9 DEF ST!Describes
  <2>2. c \in DOMAIN new => ST!Fits(f[c], ST!MergeType(x.cols[c], new[c]))
    BY <2>1, <1>4, Widens
  <2>. QED
    BY <2>1, <2>2, <1>8
<1>10. ASSUME DOMAIN new \subseteq DOMAIN m.cols
       PROVE  ST!Describes(m.cols, new)
  <2> SUFFICES ASSUME NEW c \in DOMAIN new
               PROVE  c \in DOMAIN m.cols /\ ST!Fits(new[c], m.cols[c])
    BY DEF ST!Describes
  <2>1. new[c] \in ST!Types /\ (c \in DOMAIN x.cols => x.cols[c] \in ST!Types)
    BY <1>4
  <2>2. /\ ST!Fits(new[c], new[c])
        /\ c \in DOMAIN x.cols => ST!Fits(new[c], ST!MergeType(x.cols[c], new[c]))
    BY <2>1, Widens
  <2>. QED
    BY <2>2, <1>8, <1>10
<1>11. ASSUME k = "freeze", ~ST!Rejects(k, x.cols, new), ST!Known(x)
       PROVE  m = x
  <2>1. ST!Changed(x.cols, new) = {} /\ ST!Added(k, x.cols, new) = {}
    BY <1>11 DEF ST!Rejects, ST!Added
  <2>2. \A c \in DOMAIN x.cols : c \in DOMAIN new => x.cols[c] = new[c]
    BY <2>1 DEF ST!Changed, ST!Common
  <2>3. \A c \in DOMAIN x.cols : ST!MergeType(x.cols[c], x.cols[c]) = x.cols[c]
    BY <1>4, Widens
  <2>4. cols = x.cols
    BY <2>1, <2>2, <2>3, <1>4
  <2>5. v = x.version
    BY <2>1, <1>3
  <2>. QED
    BY <2>4, <2>5, <1>1, <1>3
<1>. QED
    BY <1>7, <1>8, <1>9, <1>10, <1>11 DEF m

\* The inferrer sees one record more.
LEMMA Observes ==
  ASSUME NEW r, IsCols(r.inf), r.inputs \subseteq ST!Fields, Inferred(r), NEW f \in ST!Fields,
         NEW q, q.inputs = r.inputs \union {f}, q.inf = ST!ObserveField(r.inf, f)
  PROVE  /\ IsCols(q.inf) /\ q.inputs \subseteq ST!Fields
         /\ \A c : c \in DOMAIN q.inf <=> \E g \in q.inputs : c \in DOMAIN g
         /\ \A c \in DOMAIN q.inf : q.inf[c] = ST!LeastType(ValuesOf(q, c))
<1>1. /\ DOMAIN q.inf = DOMAIN r.inf \union DOMAIN f
      /\ \A c \in DOMAIN q.inf : q.inf[c] = IF c \notin DOMAIN f THEN r.inf[c]
                                            ELSE IF c \notin DOMAIN r.inf THEN f[c]
                                            ELSE ST!WidenType(r.inf[c], f[c])
      /\ q.inf = [c \in DOMAIN q.inf |-> q.inf[c]]
    BY DEF ST!ObserveField
<1>2. \A g \in q.inputs : \A c \in DOMAIN g : g[c] \in ST!Types
    BY FieldsAre DEF IsCols
<1>3. \A c \in DOMAIN r.inf : r.inf[c] \in ST!Types
    BY DEF IsCols
<1>4. \A c : c \in DOMAIN q.inf <=> \E g \in q.inputs : c \in DOMAIN g
    BY <1>1 DEF Inferred
<1>5. ASSUME NEW c \in DOMAIN q.inf
      PROVE  q.inf[c] = ST!LeastType(ValuesOf(q, c)) /\ q.inf[c] \in ST!Types
  <2>1. ValuesOf(r, c) \in SUBSET ST!Types
    BY <1>2 DEF ValuesOf
  <2>2. CASE c \notin DOMAIN f
    <3>1. ValuesOf(q, c) = ValuesOf(r, c)
        BY <2>2 DEF ValuesOf
    <3>2. c \in DOMAIN r.inf
        BY <2>2, <1>1
    <3>. QED
        BY <3>1, <3>2, <2>2, <1>1, <1>3 DEF Inferred
  <2>3. CASE c \in DOMAIN f
    <3>1. ValuesOf(q, c) = ValuesOf(r, c) \union {f[c]}
        BY <2>3 DEF ValuesOf
    <3>2. f[c] \in ST!Types
        BY <2>3, <1>2
    <3>3. CASE c \in DOMAIN r.inf
      <4>1. ValuesOf(r, c) # {} /\ r.inf[c] = ST!LeastType(ValuesOf(r, c))
        BY <3>3 DEF Inferred, ValuesOf
      <4>. DEFINE V == ValuesOf(r, c)
                  t == f[c]
      <4>5. V \in SUBSET ST!Types /\ t \in ST!Types /\ V # {}
        BY <4>1, <3>2, <2>1
      <4>. HIDE DEF V, t
      <4>6. ST!LeastType(V \union {t}) = ST!WidenType(ST!LeastType(V), t)
        BY <4>5, LeastGrows
      <4>2. ST!LeastType(ValuesOf(q, c)) = ST!WidenType(r.inf[c], f[c])
        BY <4>1, <4>6, <3>1 DEF V, t
      <4>3. ST!WidenType(r.inf[c], f[c]) \in ST!Types
        BY <3>3, <1>3, <3>2, Widens
      <4>. QED
        BY <4>2, <4>3, <3>3, <2>3, <1>1
    <3>4. CASE c \notin DOMAIN r.inf
      <4>1. ValuesOf(r, c) = {}
        BY <3>4 DEF Inferred, ValuesOf
      <4>2. ST!LeastType(ValuesOf(q, c)) = f[c]
        BY <4>1, <3>1, <3>2, <2>1, LeastGrows
      <4>. QED
        BY <4>2, <3>4, <2>3, <1>1, <3>2
    <3>. QED
        BY <3>3, <3>4
  <2>. QED
    BY <2>2, <2>3
<1>. QED
    BY <1>1, <1>4, <1>5 DEF IsCols

\* What processing the fields f makes of the run r.
Keeps(r, q, f) ==
  /\ RunFields(q) /\ q.conf = r.conf /\ q.pc = r.pc /\ q.inf = r.inf /\ q.inputs = r.inputs
  /\ q.pending \in BOOLEAN /\ q.dropped \in Nat /\ IsSchema(q.cur)
  /\ ~ST!Known(q.cur) => q.sent \subseteq {<<>>}
  /\ \A g \in q.sent : ST!Describes(q.cur.cols, g)
  /\ \A g : ST!Describes(r.cur.cols, g) => ST!Describes(q.cur.cols, g)
  /\ Frozen(q)
  /\ r.conf.contract = "evolve" =>
       \A c \in DOMAIN ST!ObserveField(r.inf, f) :
         /\ c \in DOMAIN q.cur.cols
         /\ ST!Fits(ST!ObserveField(r.inf, f)[c], q.cur.cols[c])

\* The fields that are looked at are columns, and all of the record's but under DISCARD_COLUMN.
LEMMA CandidateIs ==
  ASSUME NEW r, RunInv(r), NEW f \in ST!Fields
  PROVE  /\ IsCols(ST!Candidate(r, f))
         /\ ST!Known(r.cur) /\ r.conf.contract = "discard_column" =>
              DOMAIN ST!Candidate(r, f) \subseteq DOMAIN r.cur.cols
         /\ ~(ST!Known(r.cur) /\ r.conf.contract = "discard_column") => ST!Candidate(r, f) = f
<1>1. IsCols(f)
    BY FieldsAre
<1>2. IsCols(ST!Restricted(f, r.cur.cols))
    BY <1>1 DEF ST!Restricted, IsCols
<1>3. DOMAIN ST!Restricted(f, r.cur.cols) \subseteq DOMAIN r.cur.cols
    BY DEF ST!Restricted
<1>. QED
    BY <1>1, <1>2, <1>3 DEF ST!Candidate

LEMMA ProcessedKeeps ==
  ASSUME NEW r, RunInv(r), NEW f \in ST!Fields
  PROVE  Keeps(r, ST!Processed(r, f), f)
<1>. DEFINE q == ST!Processed(r, f)
            x == ST!Candidate(r, f)
            k == r.conf.contract
            o == ST!ObserveField(r.inf, f)
<1>1. /\ IsCols(x)
      /\ ST!Known(r.cur) /\ k = "discard_column" => DOMAIN x \subseteq DOMAIN r.cur.cols
      /\ ~(ST!Known(r.cur) /\ k = "discard_column") => x = f
    BY CandidateIs
<1>2. /\ RunFields(r) /\ k \in ST!Contracts /\ IsSchema(r.cur) /\ IsCols(r.inf) /\ Frozen(r)
      /\ Inferred(r)
      /\ r.pending \in BOOLEAN /\ r.dropped \in Nat
      /\ ~ST!Known(r.cur) => r.sent \subseteq {<<>>}
      /\ \A g \in r.sent : ST!Describes(r.cur.cols, g)
    BY DEF RunInv
<1>3. /\ DOMAIN o = DOMAIN r.inf \union DOMAIN f
      /\ \A c \in DOMAIN o : o[c] = IF c \notin DOMAIN f THEN r.inf[c]
                                    ELSE IF c \notin DOMAIN r.inf THEN f[c]
                                    ELSE ST!WidenType(r.inf[c], f[c])
    BY DEF ST!ObserveField
<1>4. \A c \in DOMAIN f : f[c] \in ST!Types
    BY FieldsAre DEF IsCols
<1>5. IsCols(r.cur.cols) /\ (~ST!Known(r.cur) => r.cur.cols = <<>>)
    BY <1>2 DEF IsSchema, ST!Known
<1>. HIDE DEF q, x, k, o
<1>6. CASE ST!Known(r.cur) /\ k = "discard_row" /\ ST!Violates(f, r.cur.cols)
  <2>1. q = [r EXCEPT !.dropped = @ + 1]
    BY <1>6 DEF q, k, ST!Processed, ST!Dropped
  <2>2. /\ RunFields(q) /\ q.conf = r.conf /\ q.pc = r.pc /\ q.inf = r.inf
        /\ q.inputs = r.inputs /\ q.pending = r.pending /\ q.cur = r.cur /\ q.sent = r.sent
        /\ q.dropped \in Nat
    BY <2>1, <1>2 DEF RunFields
  <2>. QED
    BY <2>2, <1>2, <1>6 DEF Keeps, Frozen, q, k
<1>7. CASE ~(ST!Known(r.cur) /\ k = "discard_row" /\ ST!Violates(f, r.cur.cols)) /\ x = <<>>
  <2>1. q = [r EXCEPT !.sent = @ \union {<<>>}]
    BY <1>7 DEF q, k, x, ST!Processed, ST!Sent
  <2>2. /\ RunFields(q) /\ q.conf = r.conf /\ q.pc = r.pc /\ q.inf = r.inf
        /\ q.inputs = r.inputs /\ q.pending = r.pending /\ q.cur = r.cur
        /\ q.sent = r.sent \union {<<>>} /\ q.dropped = r.dropped /\ q.start = r.start
    BY <2>1, <1>2 DEF RunFields
  <2>3. Frozen(q)
    BY <2>2, <1>2, NoFields DEF Frozen
  <2>4. ASSUME k = "evolve", NEW c \in DOMAIN o
        PROVE  c \in DOMAIN q.cur.cols /\ ST!Fits(o[c], q.cur.cols[c])
    <3>1. f = <<>>
        BY <1>1, <1>7, <2>4
    <3>2. c \in DOMAIN r.inf /\ o[c] = r.inf[c]
        BY <3>1, <1>3, NoFields
    <3>. QED
        BY <3>2, <2>2, <2>4, <1>2 DEF Inferred, k
  <2>5. \A g \in q.sent : ST!Describes(q.cur.cols, g)
    BY <2>2, <1>2, NoFields
  <2>. QED
    BY <2>2, <2>3, <2>4, <2>5, <1>2 DEF Keeps, q, k, o
<1>8. CASE ~ST!Known(r.cur) /\ x # <<>>
  <2>0. x = f
    BY <1>8, <1>1
  <2>1. q = [r EXCEPT !.sent = @ \union {f}, !.cur = [cols |-> f, version |-> 1],
                      !.start = [cols |-> f, version |-> 1]]
    BY <1>8, <2>0 DEF q, k, x, ST!Processed, ST!FirstSchema, ST!Sent
  <2>2. /\ RunFields(q) /\ q.conf = r.conf /\ q.pc = r.pc /\ q.inf = r.inf
        /\ q.inputs = r.inputs /\ q.pending = r.pending /\ q.cur = [cols |-> f, version |-> 1]
        /\ q.sent = r.sent \union {f} /\ q.dropped = r.dropped /\ q.start = q.cur
    BY <2>1, <1>2 DEF RunFields
  <2>3. q.cur.cols = f /\ q.cur.version = 1 /\ IsSchema(q.cur) /\ ST!Known(q.cur)
    <3>1. q.cur.cols = f /\ q.cur.version = 1
        BY <2>2
    <3>. QED
        BY <3>1, <2>2, FieldsAre DEF IsSchema, ST!Known
  <2>4. r.sent \subseteq {<<>>} /\ r.cur.cols = <<>>
    BY <1>8, <1>2, <1>5
  <2>5. ST!Describes(f, f)
    BY <1>4, Widens DEF ST!Describes
  <2>6. \A g \in q.sent : ST!Describes(q.cur.cols, g)
    BY <2>2, <2>3, <2>4, <2>5, NoFields
  <2>7. \A g : ST!Describes(r.cur.cols, g) => ST!Describes(q.cur.cols, g)
    BY <2>4, NoFields
  <2>8. Frozen(q)
    BY <2>2, <2>3, <2>4, <1>2, NoFields DEF Frozen
  <2>9. ASSUME k = "evolve", NEW c \in DOMAIN o
        PROVE  c \in DOMAIN q.cur.cols /\ ST!Fits(o[c], q.cur.cols[c])
    <3>1. c \notin DOMAIN r.inf
        BY <2>4, <2>9, <1>2, NoFields DEF Inferred, k
    <3>2. c \in DOMAIN f /\ o[c] = f[c]
        BY <3>1, <1>3
    <3>. QED
        BY <3>2, <2>3, <1>4, Widens
  <2>. QED
    BY <2>2, <2>3, <2>6, <2>7, <2>8, <2>9, <1>2 DEF Keeps, q, k, o
<1>9. CASE /\ ST!Known(r.cur) /\ x # <<>>
           /\ ~(k = "discard_row" /\ ST!Violates(f, r.cur.cols))
           /\ ST!Rejects(k, r.cur.cols, x)
  <2>1. q = [[r EXCEPT !.dropped = @ + 1] EXCEPT !.pending = TRUE]
    BY <1>9 DEF q, k, x, ST!Processed, ST!Dropped
  <2>5. q = [conf |-> r.conf, pc |-> r.pc, cur |-> r.cur, pending |-> TRUE, fed |-> r.fed,
             inf |-> r.inf, inputs |-> r.inputs, sent |-> r.sent, dropped |-> r.dropped + 1,
             start |-> r.start]
    BY <2>1, <1>2 DEF RunFields
  <2>6. q.pending
    BY <2>5, Zenon
  <2>7. /\ RunFields(q) /\ q.conf = r.conf /\ q.pc = r.pc /\ q.inf = r.inf
        /\ q.inputs = r.inputs /\ q.cur = r.cur /\ q.sent = r.sent
        /\ q.dropped = r.dropped + 1 /\ q.start = r.start /\ q.pending \in BOOLEAN
    BY <2>5, Zenon DEF RunFields
  <2>2. /\ RunFields(q) /\ q.conf = r.conf /\ q.pc = r.pc /\ q.inf = r.inf
        /\ q.inputs = r.inputs /\ q.pending /\ q.cur = r.cur /\ q.sent = r.sent
        /\ q.dropped \in Nat /\ q.start = r.start /\ q.pending \in BOOLEAN
    BY <2>6, <2>7, <1>2
  <2>3. k = "freeze"
    BY <1>9 DEF ST!Rejects
  <2>4. Frozen(q)
    BY <2>2, <1>2 DEF Frozen
  <2>. QED
    BY <2>2, <2>3, <2>4, <1>2 DEF Keeps, q, k
<1>10. CASE /\ ST!Known(r.cur) /\ x # <<>>
            /\ ~(k = "discard_row" /\ ST!Violates(f, r.cur.cols))
            /\ ~ST!Rejects(k, r.cur.cols, x)
  <2>. DEFINE m == ST!Merge(k, r.cur, x)
  <2>1. q = [[r EXCEPT !.sent = @ \union {x}] EXCEPT !.cur = m]
    BY <1>10 DEF q, k, x, ST!Processed, ST!Evolved, ST!Sent
  <2>2. /\ RunFields(q) /\ q.conf = r.conf /\ q.pc = r.pc /\ q.inf = r.inf
        /\ q.inputs = r.inputs /\ q.pending = r.pending /\ q.cur = m
        /\ q.sent = r.sent \union {x} /\ q.dropped = r.dropped /\ q.start = r.start
    BY <2>1, <1>2 DEF RunFields
  <2>3. /\ IsSchema(m) /\ ST!Known(m)
        /\ DOMAIN m.cols = DOMAIN r.cur.cols \union ST!Added(k, r.cur.cols, x)
        /\ \A c \in DOMAIN m.cols :
             m.cols[c] = IF c \notin DOMAIN x THEN r.cur.cols[c]
                         ELSE IF c \notin DOMAIN r.cur.cols THEN x[c]
                         ELSE ST!MergeType(r.cur.cols[c], x[c])
        /\ \A g : ST!Describes(r.cur.cols, g) => ST!Describes(m.cols, g)
        /\ DOMAIN x \subseteq DOMAIN m.cols => ST!Describes(m.cols, x)
        /\ k = "freeze" => m = r.cur
    BY <1>1, <1>2, <1>10, MergeIs
  <2>. HIDE DEF m
  <2>4. DOMAIN x \subseteq DOMAIN m.cols
    <3>1. CASE k = "evolve"
        BY <3>1, <2>3 DEF ST!Added
    <3>2. CASE k = "freeze"
        BY <3>2, <2>3, <1>10 DEF ST!Rejects
    <3>3. CASE k = "discard_column"
        BY <3>3, <2>3, <1>1, <1>10
    <3>4. CASE k = "discard_row"
        BY <3>4, <2>3, <1>1, <1>10 DEF ST!Violates
    <3>. QED
        BY <3>1, <3>2, <3>3, <3>4, <1>2 DEF ST!Contracts
  <2>5. \A g \in q.sent : ST!Describes(q.cur.cols, g)
    BY <2>2, <2>3, <2>4, <1>2
  <2>6. Frozen(q)
    <3> SUFFICES ASSUME k = "freeze"
                 PROVE  Frozen(q)
        BY <2>2 DEF Frozen, k
    <3>1. \A c \in DOMAIN x : c \in DOMAIN r.cur.cols /\ x[c] = r.cur.cols[c]
        BY <1>10 DEF ST!Rejects, ST!Changed, ST!Common
    <3>. QED
        BY <3>1, <2>2, <2>3, <1>2 DEF Frozen, k
  <2>7. ASSUME k = "evolve", NEW c \in DOMAIN o
        PROVE  c \in DOMAIN q.cur.cols /\ ST!Fits(o[c], q.cur.cols[c])
    <3>0. x = f
        BY <1>1, <2>7
    <3>1. c \in DOMAIN r.inf \/ c \in DOMAIN f
        BY <1>3
    <3>2. c \in DOMAIN r.inf => /\ c \in DOMAIN r.cur.cols /\ ST!Fits(r.inf[c], r.cur.cols[c])
                                /\ r.inf[c] \in ST!Types
        BY <2>7, <1>2 DEF Inferred, k, IsCols
    <3>3. c \in DOMAIN r.cur.cols => r.cur.cols[c] \in ST!Types
        BY <1>5 DEF IsCols
    <3>4. c \in DOMAIN m.cols
        BY <3>0, <3>1, <3>2, <2>3, <2>4
    <3>5. CASE c \notin DOMAIN f
        BY <3>5, <3>0, <3>1, <3>2, <3>4, <2>2, <2>3, <1>3
    <3>6. CASE c \in DOMAIN f /\ c \notin DOMAIN r.cur.cols
      <4>1. o[c] = f[c] /\ m.cols[c] = f[c]
        BY <3>6, <3>0, <3>2, <3>4, <2>3, <1>3
      <4>2. ST!Fits(f[c], f[c])
        BY <3>6, <1>4, Widens
      <4>. QED
        BY <4>1, <4>2, <3>4, <2>2
    <3>7. CASE c \in DOMAIN f /\ c \in DOMAIN r.cur.cols
      <4>1. m.cols[c] = ST!MergeType(r.cur.cols[c], f[c])
        BY <3>7, <3>0, <3>4, <2>3
      <4>2. /\ ST!Fits(f[c], ST!MergeType(r.cur.cols[c], f[c]))
            /\ c \in DOMAIN r.inf =>
                 ST!Fits(ST!WidenType(r.inf[c], f[c]), ST!MergeType(r.cur.cols[c], f[c]))
        BY <3>7, <3>2, <3>3, <1>4, Widens
      <4>. QED
        BY <4>1, <4>2, <3>4, <3>7, <2>2, <1>3
    <3>. QED
        BY <3>5, <3>6, <3>7
  <2>. QED
    BY <2>2, <2>3, <2>5, <2>6, <2>7, <1>2 DEF Keeps, q, k, o
<1>. QED
    BY <1>6, <1>7, <1>8, <1>9, <1>10 DEF q

\* A run that has not begun.
LEMMA RunBegins ==
  ASSUME NEW k \in ST!Contracts, NEW c, c.contract = k, NEW x, IsSchema(x),
         NEW p \in {"down", "up"},
         NEW r, RunFields(r), r.conf = c, r.pc = p, r.cur = x, r.start = x, r.inf = <<>>,
         r.inputs = {}, r.sent = {}, r.dropped = 0, r.pending \in BOOLEAN
  PROVE  RunInv(r)
<1>1. Frozen(r) /\ Inferred(r)
    BY NoFields DEF Frozen, Inferred
<1>. QED
    BY <1>1, NoFields DEF RunInv

LEMMA RunRecord ==
  ASSUME NEW c, NEW x,
         NEW u, u = [conf |-> c, pc |-> "down", cur |-> x, pending |-> FALSE, fed |-> 0,
                     inf |-> <<>>, inputs |-> {}, sent |-> {}, dropped |-> 0, start |-> x]
  PROVE  /\ RunFields(u) /\ u.conf = c /\ u.pc = "down" /\ u.cur = x /\ u.start = x
         /\ u.inf = <<>> /\ u.inputs = {} /\ u.sent = {} /\ u.dropped = 0
         /\ u.pending \in BOOLEAN
<1>1. RunFields(u) /\ u.conf = c /\ u.pc = "down" /\ u.cur = x /\ u.start = x
         /\ u.inf = <<>> /\ u.inputs = {} /\ u.sent = {} /\ u.dropped = 0
    BY Zenon DEF RunFields
<1>2. u.pending \in BOOLEAN
    BY Zenon
<1>. QED
    BY <1>1, <1>2

LEMMA UnstartedIs ==
  ASSUME NEW c, NEW u, u = ST!Unstarted(c)
  PROVE  /\ RunFields(u) /\ u.conf = c /\ u.pc = "down" /\ u.cur = ST!NoSchema
         /\ u.start = ST!NoSchema /\ u.inf = <<>> /\ u.inputs = {} /\ u.sent = {}
         /\ u.dropped = 0 /\ u.pending \in BOOLEAN
<1>1. u = [conf |-> c, pc |-> "down", cur |-> ST!NoSchema, pending |-> FALSE, fed |-> 0,
           inf |-> <<>>, inputs |-> {}, sent |-> {}, dropped |-> 0, start |-> ST!NoSchema]
    BY DEF ST!Unstarted
<1>. QED
    BY <1>1, RunRecord

LEMMA SchemaInit ==
  ASSUME ST!Init
  PROVE  SchemaInv(s)
<1>1. PICK c \in ST!Configs :
        s = [run |-> ST!Unstarted(c), runs |-> 0, stored |-> ST!NoSchema, intact |-> TRUE,
             outcome |-> "none", covered |-> {}, forgot |-> FALSE]
    BY DEF ST!Init
<1>2. c.contract \in ST!Contracts
    BY DEF ST!Configs
<1>. DEFINE u == ST!Unstarted(c)
<1>3. IsSchema(ST!NoSchema) /\ u = ST!Unstarted(c)
    BY NoFields
<1>. HIDE DEF u
<1>4. /\ RunInv(u) /\ u.pc = "down" /\ u.dropped = 0
  <2>1. /\ RunFields(u) /\ u.conf = c /\ u.pc = "down" /\ u.cur = ST!NoSchema
        /\ u.start = ST!NoSchema /\ u.inf = <<>> /\ u.inputs = {} /\ u.sent = {}
        /\ u.dropped = 0 /\ u.pending \in BOOLEAN
    BY <1>3, UnstartedIs
  <2>. QED
    BY <2>1, <1>2, <1>3, RunBegins
<1>5. /\ s.run = ST!Unstarted(c) /\ s.stored = ST!NoSchema /\ s.covered = {}
      /\ s.intact \in BOOLEAN /\ s.forgot \in BOOLEAN
      /\ s = [run |-> s.run, runs |-> s.runs, stored |-> s.stored, intact |-> s.intact,
              outcome |-> s.outcome, covered |-> s.covered, forgot |-> s.forgot]
    BY <1>1, Zenon
<1>. QED
    BY <1>3, <1>4, <1>5, NoFields DEF SchemaInv

\* The run ends or dies: what it inferred is forgotten.
LEMMA RunEnds ==
  ASSUME NEW r, RunInv(r), NEW q,
         q = ST!Ended(r)
  PROVE  RunInv(q) /\ q.pc = "down" /\ q.conf = r.conf /\ q.dropped = r.dropped
<1>1. /\ RunFields(q) /\ q.conf = r.conf /\ q.pc = "down" /\ q.cur = ST!NoSchema
      /\ q.inf = <<>> /\ q.inputs = {} /\ q.sent = {} /\ q.dropped = r.dropped
      /\ q.start = ST!NoSchema /\ q.pending = r.pending
    BY DEF RunInv, RunFields, ST!Ended, ST!Unstarted
<1>2. Frozen(q) /\ Inferred(q)
    BY <1>1, NoFields DEF Frozen, Inferred, RunInv
<1>. QED
    BY <1>1, <1>2, NoFields DEF RunInv

\* The state of the middleware and its store, from its parts.
LEMMA SchemaFields ==
  ASSUME NEW b, SchemaInv(b)
  PROVE  /\ b = [run |-> b.run, runs |-> b.runs, stored |-> b.stored, intact |-> b.intact,
                 outcome |-> b.outcome, covered |-> b.covered, forgot |-> b.forgot]
         /\ RunInv(b.run) /\ IsSchema(b.stored)
         /\ b.intact \in BOOLEAN /\ b.forgot \in BOOLEAN
BY DEF SchemaInv

LEMMA SchemaProcess ==
  ASSUME SchemaInv(s), NEW in \in ST!Inputs, ST!Process(in)
  PROVE  SchemaInv(s')
<1>. DEFINE r == [s.run EXCEPT !.fed = @ + 1]
            q == IF in.opaque THEN r
                 ELSE [ST!Processed(r, in.fields) EXCEPT
                         !.inputs = @ \union {in.fields},
                         !.inf = ST!ObserveField(@, in.fields)]
<1>1. s.run.pc = "up" /\ s' = [s EXCEPT !.run = q]
    BY DEF ST!Process
<1>2. in.fields \in ST!Fields
    BY DEF ST!Inputs, ST!Fields
<1>3. RunInv(s.run)
    BY DEF SchemaInv
<1>4. /\ RunFields(r) /\ r.conf = s.run.conf /\ r.pc = s.run.pc /\ r.cur = s.run.cur
      /\ r.pending = s.run.pending /\ r.inf = s.run.inf /\ r.inputs = s.run.inputs
      /\ r.sent = s.run.sent /\ r.dropped = s.run.dropped /\ r.start = s.run.start
    BY <1>3 DEF RunInv, RunFields
<1>. HIDE DEF r
<1>5. RunInv(r)
  <2>1. ValuesOf(r, 0) = ValuesOf(r, 0) /\ \A c : ValuesOf(r, c) = ValuesOf(s.run, c)
    BY <1>4 DEF ValuesOf
  <2>2. Frozen(r) /\ Inferred(r)
    BY <2>1, <1>3, <1>4 DEF RunInv, Frozen, Inferred
  <2>. QED
    BY <2>2, <1>3, <1>4 DEF RunInv
<1>6. /\ RunInv(q) /\ q.conf = s.run.conf /\ q.pc = "up"
      /\ \A g : ST!Describes(s.run.cur.cols, g) => ST!Describes(q.cur.cols, g)
  <2>1. CASE in.opaque
    BY <2>1, <1>1, <1>4, <1>5
  <2>2. CASE ~in.opaque
    <3>. DEFINE p == ST!Processed(r, in.fields)
    <3>1. Keeps(r, p, in.fields)
        BY <1>2, <1>5, ProcessedKeeps
    <3>2. q = [p EXCEPT !.inputs = @ \union {in.fields}, !.inf = ST!ObserveField(@, in.fields)]
        BY <2>2
    <3>. HIDE DEF p, q
    <3>3. /\ RunFields(p) /\ p.conf = r.conf /\ p.pc = r.pc /\ p.inf = r.inf
          /\ p.inputs = r.inputs /\ p.pending \in BOOLEAN /\ p.dropped \in Nat
          /\ IsSchema(p.cur) /\ (~ST!Known(p.cur) => p.sent \subseteq {<<>>})
          /\ \A g \in p.sent : ST!Describes(p.cur.cols, g)
          /\ \A g : ST!Describes(r.cur.cols, g) => ST!Describes(p.cur.cols, g)
          /\ Frozen(p)
          /\ r.conf.contract = "evolve" =>
               \A c \in DOMAIN ST!ObserveField(r.inf, in.fields) :
                 /\ c \in DOMAIN p.cur.cols
                 /\ ST!Fits(ST!ObserveField(r.inf, in.fields)[c], p.cur.cols[c])
        BY <3>1 DEF Keeps
    <3>4. /\ RunFields(q) /\ q.conf = p.conf /\ q.pc = p.pc /\ q.cur = p.cur
          /\ q.pending = p.pending /\ q.sent = p.sent /\ q.dropped = p.dropped
          /\ q.start = p.start /\ q.inputs = r.inputs \union {in.fields}
          /\ q.inf = ST!ObserveField(r.inf, in.fields)
        BY <3>2, <3>3 DEF RunFields
    <3>5. /\ IsCols(q.inf) /\ q.inputs \subseteq ST!Fields
          /\ \A c : c \in DOMAIN q.inf <=> \E g \in q.inputs : c \in DOMAIN g
          /\ \A c \in DOMAIN q.inf : q.inf[c] = ST!LeastType(ValuesOf(q, c))
        BY <3>4, <1>2, <1>5, Observes DEF RunInv
    <3>6. Inferred(q)
        BY <3>3, <3>4, <3>5 DEF Inferred
    <3>7. Frozen(q)
        BY <3>3, <3>4 DEF Frozen
    <3>8. RunInv(q)
        BY <3>3, <3>4, <3>5, <3>6, <3>7, <1>5 DEF RunInv
    <3>. QED
        BY <3>3, <3>4, <3>8, <1>1, <1>4
  <2>. QED
    BY <2>1, <2>2
<1>. HIDE DEF q
<1>7. /\ s' = [run |-> s'.run, runs |-> s'.runs, stored |-> s'.stored, intact |-> s'.intact,
               outcome |-> s'.outcome, covered |-> s'.covered, forgot |-> s'.forgot]
      /\ s'.run = q /\ s'.stored = s.stored /\ s'.intact = s.intact /\ s'.outcome = s.outcome
      /\ s'.covered = s.covered /\ s'.forgot = s.forgot
    BY <1>1, SchemaFields
<1>. QED
    BY <1>1, <1>6, <1>7 DEF SchemaInv

\* A state of the middleware and its store, given by its fields.
SchemaShape(b) ==
  b = [run |-> b.run, runs |-> b.runs, stored |-> b.stored, intact |-> b.intact,
       outcome |-> b.outcome, covered |-> b.covered, forgot |-> b.forgot]

LEMMA SchemaStarts ==
  ASSUME SchemaInv(s), NEW ok \in BOOLEAN, ST!OnStart(ok)
  PROVE  SchemaInv(s')
<1>. DEFINE x == IF ok /\ ST!Loads THEN s.stored ELSE ST!NoSchema
            c == s.run.conf
            r == [ST!Unstarted(c) EXCEPT !.pc = "up", !.cur = x, !.start = x]
<1>1. s' = [s EXCEPT !.runs = @ + 1, !.outcome = "none", !.run = r,
                     !.forgot = @ \/ (x # s.stored) \/ ~s.intact]
    BY DEF ST!OnStart
<1>2. IsSchema(x) /\ c.contract \in ST!Contracts
    BY NoFields DEF SchemaInv, RunInv
<1>. DEFINE u == ST!Unstarted(c)
<1>3. /\ RunFields(u) /\ u.conf = c /\ u.inf = <<>> /\ u.inputs = {} /\ u.sent = {}
      /\ u.dropped = 0 /\ u.pending \in BOOLEAN
    BY UnstartedIs
<1>7. r = [u EXCEPT !.pc = "up", !.cur = x, !.start = x]
    OBVIOUS
<1>. HIDE DEF u, x, c, r
<1>8. /\ RunFields(r) /\ r.conf = c /\ r.pc = "up" /\ r.cur = x /\ r.start = x /\ r.inf = <<>>
      /\ r.inputs = {} /\ r.sent = {} /\ r.dropped = 0 /\ r.pending \in BOOLEAN
    BY <1>3, <1>7 DEF RunFields
<1>4. RunInv(r)
    BY <1>2, <1>8, RunBegins
<1>9. s = [run |-> s.run, runs |-> s.runs, stored |-> s.stored, intact |-> s.intact,
           outcome |-> s.outcome, covered |-> s.covered, forgot |-> s.forgot]
      /\ s.forgot \in BOOLEAN /\ s.intact \in BOOLEAN
    BY SchemaFields
<1>10. s' = [run |-> r, runs |-> s.runs + 1, stored |-> s.stored, intact |-> s.intact,
             outcome |-> "none", covered |-> s.covered,
             forgot |-> s.forgot \/ (x # s.stored) \/ ~s.intact]
    BY <1>1, <1>9
<1>5. /\ SchemaShape(s') /\ s'.run = r /\ s'.stored = s.stored /\ s'.covered = s.covered
      /\ s'.intact = s.intact
    BY <1>10, Zenon DEF SchemaShape
<1>6. s'.forgot \in BOOLEAN /\ (~s'.forgot => ~s.forgot /\ x = s.stored /\ s.intact)
    BY <1>10, Zenon
<1>. QED
    BY <1>4, <1>5, <1>6, <1>8, <1>9 DEF SchemaInv, SchemaShape

LEMMA SchemaStops ==
  ASSUME SchemaInv(s), NEW ok \in BOOLEAN, ST!OnStop(ok)
  PROVE  SchemaInv(s')
<1>. DEFINE saves == ok /\ s.run.conf.store = "store" /\ ST!Known(s.run.cur)
            r == ST!Ended(s.run)
<1>1. /\ s.run.pc = "up"
      /\ s' = [s EXCEPT !.run = r,
                        !.stored = IF saves THEN s.run.cur ELSE @,
                        !.intact = saves \/ @,
                        !.covered = IF saves THEN @ \union s.run.sent ELSE @,
                        !.outcome = IF s.run.pending THEN "error" ELSE "ok"]
    BY ZenonT(90), SchemaFields DEF ST!OnStop, RunInv, RunFields
<1>2. RunInv(r) /\ r.pc = "down" /\ r.conf = s.run.conf /\ r.dropped = s.run.dropped
    BY ZenonT(90), RunEnds, SchemaFields
<1>. HIDE DEF r
<1>9. s = [run |-> s.run, runs |-> s.runs, stored |-> s.stored, intact |-> s.intact,
           outcome |-> s.outcome, covered |-> s.covered, forgot |-> s.forgot]
    BY SchemaFields
<1>10. s' = [run |-> r, runs |-> s.runs, stored |-> IF saves THEN s.run.cur ELSE s.stored,
             intact |-> saves \/ s.intact,
             outcome |-> IF s.run.pending THEN "error" ELSE "ok",
             covered |-> IF saves THEN s.covered \union s.run.sent ELSE s.covered,
             forgot |-> s.forgot]
    BY <1>1, <1>9
<1>3. /\ SchemaShape(s') /\ s'.run = r /\ s'.forgot = s.forgot
      /\ s'.outcome = IF s.run.pending THEN "error" ELSE "ok"
    BY <1>10, Zenon DEF SchemaShape
<1>4. /\ s'.stored = IF saves THEN s.run.cur ELSE s.stored
      /\ s'.covered = IF saves THEN s.covered \union s.run.sent ELSE s.covered
    BY <1>1, SchemaFields
<1>5. s'.intact \in BOOLEAN /\ (s'.intact <=> saves \/ s.intact)
    BY <1>1, SchemaFields
<1>6. r.conf.contract = "freeze" /\ r.dropped > 0 => s'.outcome = "error"
    BY <1>2, <1>3 DEF SchemaInv, RunInv, Frozen
<1>7. IsSchema(s'.stored)
    BY <1>4 DEF SchemaInv, RunInv
<1>8. ~s'.forgot /\ s'.intact => \A f \in s'.covered : ST!Describes(s'.stored.cols, f)
  <2>1. CASE saves
    BY <2>1, <1>1, <1>3, <1>4 DEF SchemaInv, RunInv
  <2>2. CASE ~saves
    BY <2>2, <1>1, <1>3, <1>4, <1>5 DEF SchemaInv
  <2>. QED
    BY <2>1, <2>2
<1>. QED
    BY <1>2, <1>3, <1>5, <1>6, <1>7, <1>8, SchemaFields DEF SchemaInv, SchemaShape

LEMMA SchemaDies ==
  ASSUME SchemaInv(s), ST!Dies
  PROVE  SchemaInv(s')
<1>. DEFINE r == ST!Ended(s.run)
<1>1. s.run.pc = "up" /\ s' = [s EXCEPT !.run = r, !.outcome = "died"]
    BY SchemaFields DEF ST!Dies, RunInv, RunFields
<1>2. RunInv(r) /\ r.pc = "down"
    BY ZenonT(90), RunEnds, SchemaFields
<1>. HIDE DEF r
<1>9. s = [run |-> s.run, runs |-> s.runs, stored |-> s.stored, intact |-> s.intact,
           outcome |-> s.outcome, covered |-> s.covered, forgot |-> s.forgot]
    BY SchemaFields
<1>10. s' = [run |-> r, runs |-> s.runs, stored |-> s.stored, intact |-> s.intact,
             outcome |-> "died", covered |-> s.covered, forgot |-> s.forgot]
    BY <1>1, <1>9
<1>3. /\ SchemaShape(s') /\ s'.run = r /\ s'.forgot = s.forgot /\ s'.outcome = "died"
      /\ s'.stored = s.stored /\ s'.covered = s.covered /\ s'.intact = s.intact
    BY <1>10, Zenon DEF SchemaShape
<1>. QED
    BY <1>2, <1>3 DEF SchemaInv, SchemaShape

LEMMA SchemaCorrupts ==
  ASSUME SchemaInv(s), ST!StoreCorrupts
  PROVE  SchemaInv(s')
<1>. DEFINE x == [s.stored EXCEPT !.cols = [a |-> "null"]]
<1>1. /\ ST!Known(s.stored) /\ s.run.pc = "down"
      /\ s' = [s EXCEPT !.intact = FALSE, !.stored = x]
    BY SchemaFields DEF ST!StoreCorrupts, IsSchema
<1>0. s.stored = [cols |-> s.stored.cols, version |-> s.stored.version]
      /\ s.stored.version \in Nat
    BY SchemaFields DEF IsSchema
<1>9. s = [run |-> s.run, runs |-> s.runs, stored |-> s.stored, intact |-> s.intact,
           outcome |-> s.outcome, covered |-> s.covered, forgot |-> s.forgot]
    BY SchemaFields
<1>11. x = [cols |-> [a |-> "null"], version |-> s.stored.version]
    BY <1>0
<1>2. x.cols = [a |-> "null"] /\ x.version = s.stored.version
      /\ x = [cols |-> x.cols, version |-> x.version]
    BY <1>11, Zenon
<1>3. [a |-> "null"] \in ST!Fields
    BY DEF ST!Fields, ST!Types
<1>4. IsCols([a |-> "null"])
    BY <1>3, FieldsAre
<1>5. IsSchema(x)
    BY <1>0, <1>1, <1>2, <1>4 DEF IsSchema, ST!Known
<1>. HIDE DEF x
<1>6. s' = [run |-> s.run, runs |-> s.runs, stored |-> x, intact |-> FALSE,
            outcome |-> s.outcome, covered |-> s.covered, forgot |-> s.forgot]
    BY <1>1, <1>9
<1>7. /\ SchemaShape(s') /\ s'.run = s.run /\ s'.forgot = s.forgot /\ s'.outcome = s.outcome
      /\ s'.stored = x
    BY <1>6, Zenon DEF SchemaShape
<1>8. ~s'.intact /\ s'.intact \in BOOLEAN
    BY <1>6, Zenon
<1>. QED
    BY <1>1, <1>5, <1>7, <1>8 DEF SchemaInv, SchemaShape

LEMMA SchemaStep ==
  ASSUME SchemaInv(s), ST!Next
  PROVE  SchemaInv(s')
<1>1. ASSUME NEW ok \in BOOLEAN, ST!OnStart(ok)
      PROVE  SchemaInv(s')
    BY <1>1, SchemaStarts
<1>2. ASSUME NEW ok \in BOOLEAN, ST!OnStop(ok)
      PROVE  SchemaInv(s')
    BY <1>2, SchemaStops
<1>3. ASSUME NEW in \in ST!Inputs, ST!Process(in)
      PROVE  SchemaInv(s')
    BY <1>3, SchemaProcess
<1>4. ST!Over => SchemaInv(s')
    BY DEF ST!Over
<1>. QED
    BY <1>1, <1>2, <1>3, <1>4, SchemaDies, SchemaCorrupts DEF ST!Next

LEMMA SchemaHolds ==
  ASSUME SchemaInv(s)
  PROVE  ST!SchemaDescribesSent /\ ST!FrozenStaysFrozen /\ ST!InferenceIsLeast
<1>1. RunInv(s.run)
    BY DEF SchemaInv
<1>2. ST!SchemaDescribesSent
    BY <1>1 DEF SchemaInv, RunInv, ST!SchemaDescribesSent
<1>3. ST!FrozenStaysFrozen
    BY <1>1 DEF SchemaInv, RunInv, Frozen, ST!FrozenStaysFrozen
<1>4. ST!InferenceIsLeast
    BY <1>1 DEF RunInv, Inferred, ST!InferenceIsLeast, ST!Values, ValuesOf
<1>. QED
    BY <1>2, <1>3, <1>4

\* Under every contract, whatever is stored, lost or damaged between the runs: the schema
\* describes what was sent on, FREEZE holds, and an inferred type is the least one.
THEOREM SchemaAlways ==
  ST!Init /\ [][ST!Next]_s =>
    [](ST!SchemaDescribesSent /\ ST!FrozenStaysFrozen /\ ST!InferenceIsLeast)
<1>1. ST!Init => SchemaInv(s)
    BY SchemaInit
<1>2. SchemaInv(s) /\ [ST!Next]_s => SchemaInv(s)'
  <2>1. SUFFICES ASSUME SchemaInv(s), [ST!Next]_s
                 PROVE  SchemaInv(s')
    BY ZenonT(90) DEF SchemaInv, RunInv, RunFields, Frozen, Inferred, ValuesOf, IsSchema, IsCols,
           ST!Types, ST!Contracts, ST!Fields, ST!Known, ST!Describes, ST!Fits, ST!LeastType,
           ST!CanWiden, ST!WidenType
  <2>. QED
    BY SMTT(60), <2>1, SchemaStep
<1>3. SchemaInv(s) => ST!SchemaDescribesSent /\ ST!FrozenStaysFrozen /\ ST!InferenceIsLeast
    BY SchemaHolds
<1>. QED
    BY <1>1, <1>2, <1>3, PTL

-----------------------------------------------------------------------------
(* DlqReplay.  The state of the table and its users is d, a command is k.  *)

\* What the pipelines capture: any rows, of the three kinds.
DlqBounds == \A kinds \in Captures : kinds \in Seq({"sink", "chain", "void"})

\* A row of the table, as it is there or as a command read it.
DlqRows == [id : Nat, attempt : Nat]

\* A command that has taken a row works on it.
Working == {"mark", "run", "ack"}

Commands == [pc : {"idle", "next", "exit0", "exit1"} \union Working, todo : Seq(DlqRows),
             row : DlqRows, failed : BOOLEAN, took : SUBSET Nat]

DlqTyped(d) ==
  /\ d = [conf |-> d.conf, captured |-> d.captured, table |-> d.table, started |-> d.started,
          cmd |-> d.cmd, written |-> d.written, tried |-> d.tried, kept |-> d.kept,
          shared |-> d.shared]
  /\ d.conf \in DQ!Configs /\ d.captured \in Nat /\ d.table \subseteq DlqRows
  /\ d.cmd \in [DQ!Operators -> Commands]
  /\ d.written \in [DOMAIN d.conf.kinds -> Nat] /\ d.tried \in [DOMAIN d.conf.kinds -> Nat]
  /\ d.kept \subseteq Nat /\ d.shared \subseteq Nat

\* The rows a command k has still to take, and the rows it holds.
TodoOf(k) == {k.todo[i] : i \in 1 .. Len(k.todo)}
HeldOf(k) == TodoOf(k) \union {r \in {k.row} : k.pc \in Working}

\* An id names one row of the table, and one of those a command holds.
RowsDiffer(d) ==
  /\ d.captured <= Len(d.conf.kinds)
  /\ \A r \in d.table : r.id \in 1 .. d.captured
  /\ \A r, t \in d.table : r.id = t.id => r = t
CommandIs(d, k) ==
  /\ k.pc \notin Working => k.row = DQ!NoRow
  /\ k.pc \in {"idle", "exit0", "exit1"} => k.todo = <<>>
  /\ k.pc = "exit0" => ~k.failed
  /\ \A i, j \in 1 .. Len(k.todo) : i # j => k.todo[i].id # k.todo[j].id
  /\ k.pc \in Working => \A r \in TodoOf(k) : r.id # k.row.id
  /\ \A r \in HeldOf(k) : r.id \in 1 .. d.captured

\* Rows that two commands hold are noted.
SharedIsNoted(d) ==
  \A o, p \in DQ!Operators : o # p =>
    \A r \in HeldOf(d.cmd[o]), t \in HeldOf(d.cmd[p]) : r.id = t.id => r.id \in d.shared

\* What a command read is still so: nobody else has tried the row, nor marked it.
Fresh(d, k) ==
  /\ d.conf.max > 0 => \A r \in HeldOf(k) : r.attempt < d.conf.max
  /\ \A r \in TodoOf(k) : r.id \notin d.shared =>
       /\ d.tried[r.id] <= r.attempt
       /\ \A t \in d.table : t.id = r.id => t.attempt = r.attempt
  /\ k.pc \in Working /\ k.row.id \notin d.shared =>
       /\ d.tried[k.row.id] <= k.row.attempt + (IF k.pc = "ack" THEN 1 ELSE 0)
       /\ \A t \in d.table : t.id = k.row.id =>
            t.attempt = k.row.attempt + (IF k.pc = "mark" THEN 0 ELSE 1)

\* A row is written by the command that is about to delete it, or this is noted.
Unwritten(d, k) ==
  /\ k.pc = "ack" => d.written[k.row.id] > 0
  /\ \A r \in HeldOf(k) : r.id \notin d.kept \union d.shared =>
       d.written[r.id] = 0 \/ (k.pc = "ack" /\ r = k.row)
WritesAreNoted(d) ==
  \A r \in d.table : r.id \notin d.kept \union d.shared =>
    d.written[r.id] = 0 \/ \E o \in DQ!Operators : d.cmd[o].pc = "ack" /\ d.cmd[o].row.id = r.id

\* A row that a command took is gone, still held, or the command has failed.
TookIs(d, k) ==
  \A i \in k.took : /\ i \in 1 .. d.captured
                    /\ k.failed \/ (\A t \in d.table : t.id # i) \/ \E r \in HeldOf(k) : r.id = i

NothingGone(d) == \A i \in 1 .. d.captured : (\E r \in d.table : r.id = i) \/ d.written[i] > 0
Counted(d) == \A r \in d.table : r.id \in d.shared \/ r.attempt >= d.tried[r.id]
Bounded(d) ==
  d.conf.max > 0 => \A i \in DOMAIN d.conf.kinds : i \in d.shared \/ d.tried[i] <= d.conf.max
TwiceIsNoted(d) ==
  \A i \in DOMAIN d.conf.kinds : d.written[i] > 1 => i \in d.kept \union d.shared

\* A row that is yet to come has no past.
Untouched(d) ==
  \A i \in DOMAIN d.conf.kinds : i > d.captured => d.tried[i] = 0 /\ d.written[i] = 0

Promises(d) ==
  /\ RowsDiffer(d) /\ SharedIsNoted(d) /\ WritesAreNoted(d) /\ Untouched(d)
  /\ NothingGone(d) /\ Counted(d) /\ Bounded(d) /\ TwiceIsNoted(d)
CommandInv(d, k) == CommandIs(d, k) /\ Fresh(d, k) /\ Unwritten(d, k) /\ TookIs(d, k)

DlqInv(d) == DlqTyped(d) /\ Promises(d) /\ \A o \in DQ!Operators : CommandInv(d, d.cmd[o])

\* The ids are those of the rows to capture.
LEMMA DlqKinds ==
  ASSUME DlqBounds, NEW d, DlqTyped(d)
  PROVE  /\ d.conf.kinds \in Seq({"sink", "chain", "void"})
         /\ DOMAIN d.conf.kinds = 1 .. Len(d.conf.kinds) /\ Len(d.conf.kinds) \in Nat
         /\ d.conf.max \in 0 .. 2
BY DEF DlqTyped, DlqBounds, DQ!Configs

\* The command that is not there.
LEMMA NoCommandIs ==
  /\ DQ!NoCommand \in Commands /\ DQ!NoCommand.pc = "idle" /\ DQ!NoCommand.todo = <<>>
  /\ DQ!NoCommand.row = DQ!NoRow /\ DQ!NoCommand.took = {}
  /\ TodoOf(DQ!NoCommand) = {} /\ HeldOf(DQ!NoCommand) = {}
<1>1. DQ!NoCommand.pc = "idle" /\ DQ!NoCommand.todo = <<>>
      /\ DQ!NoCommand.row = DQ!NoRow /\ DQ!NoCommand.took = {}
    BY DEF DQ!NoCommand
<1>2. DQ!NoRow \in DlqRows
    BY DEF DQ!NoRow, DlqRows
<1>3. DQ!NoCommand \in Commands
    BY <1>2 DEF DQ!NoCommand, Commands
<1>4. TodoOf(DQ!NoCommand) = {}
    BY <1>1 DEF TodoOf
<1>. QED
    BY <1>1, <1>3, <1>4 DEF HeldOf, Working

\* Who is where in a command.
LEMMA HeldAre ==
  ASSUME NEW k \in Commands
  PROVE  /\ TodoOf(k) \subseteq DlqRows /\ TodoOf(k) \subseteq HeldOf(k)
         /\ HeldOf(k) \subseteq DlqRows
         /\ k.pc \in Working => k.row \in HeldOf(k)
         /\ k.pc \notin Working => HeldOf(k) = TodoOf(k)
         /\ k.todo = <<>> => TodoOf(k) = {}
         /\ k.todo \in Seq(DlqRows) /\ k.row \in DlqRows /\ k.failed \in BOOLEAN
         /\ k.took \subseteq Nat
         /\ k.pc \in {"idle", "next", "exit0", "exit1", "mark", "run", "ack"}
<1>1. /\ k.todo \in Seq(DlqRows) /\ k.row \in DlqRows /\ k.failed \in BOOLEAN
      /\ k.took \subseteq Nat
      /\ k.pc \in {"idle", "next", "exit0", "exit1", "mark", "run", "ack"}
    BY DEF Commands, Working
<1>2. TodoOf(k) \subseteq DlqRows
    BY <1>1 DEF TodoOf
<1>3. k.todo = <<>> => TodoOf(k) = {}
    BY DEF TodoOf
<1>. QED
    BY <1>1, <1>2, <1>3 DEF HeldOf

\* The first row of a command is taken off its list.
LEMMA Takes ==
  ASSUME NEW q \in Seq(DlqRows), q # <<>>,
         \A i, j \in 1 .. Len(q) : i # j => q[i].id # q[j].id
  PROVE  /\ Tail(q) \in Seq(DlqRows) /\ Head(q) \in DlqRows
         /\ \A i, j \in 1 .. Len(Tail(q)) : i # j => Tail(q)[i].id # Tail(q)[j].id
         /\ \A i \in 1 .. Len(Tail(q)) : Tail(q)[i].id # Head(q).id
         /\ {q[i] : i \in 1 .. Len(q)} =
              {Head(q)} \union {Tail(q)[i] : i \in 1 .. Len(Tail(q))}
<1>1. Len(q) \in Nat /\ Len(q) >= 1 /\ Head(q) = q[1] /\ Len(Tail(q)) = Len(q) - 1
      /\ Tail(q) \in Seq(DlqRows) /\ q[1] \in DlqRows
    OBVIOUS
<1>2. \A i \in 1 .. Len(Tail(q)) : Tail(q)[i] = q[i + 1] /\ i + 1 \in 2 .. Len(q)
    BY <1>1
<1>3. \A i \in 2 .. Len(q) : q[i] = Tail(q)[i - 1] /\ i - 1 \in 1 .. Len(Tail(q))
    BY <1>1, <1>2
<1>4. {q[i] : i \in 1 .. Len(q)} = {Head(q)} \union {Tail(q)[i] : i \in 1 .. Len(Tail(q))}
  <2>1. ASSUME NEW i \in 1 .. Len(q)
        PROVE  q[i] \in {Head(q)} \union {Tail(q)[j] : j \in 1 .. Len(Tail(q))}
    <3>1. CASE i = 1
        BY <3>1, <1>1
    <3>2. CASE i # 1
        BY SMTT(60), <3>2, <1>1, <1>3
    <3>. QED
        BY <3>1, <3>2
  <2>2. ASSUME NEW i \in 1 .. Len(Tail(q))
        PROVE  Tail(q)[i] \in {q[j] : j \in 1 .. Len(q)}
    BY <1>1, <1>2
  <2>. QED
    BY <2>1, <2>2, <1>1
<1>. QED
    BY <1>1, <1>2, <1>4

\* The table has finitely many rows, as an id names one row.
LEMMA TableIsFinite ==
  ASSUME NEW d, DlqTyped(d), RowsDiffer(d)
  PROVE  IsFiniteSet(d.table)
<1>. DEFINE f == [r \in d.table |-> r.id]
<1>1. f \in [d.table -> 1 .. d.captured]
    BY DEF RowsDiffer
<1>2. \A r, t \in d.table : f[r] = f[t] => r = t
    BY DEF RowsDiffer
<1>3. f \in Injection(d.table, 1 .. d.captured)
    BY <1>1, <1>2 DEF Injection, IsInjective
<1>4. d.captured \in Int /\ 1 \in Int
    BY DEF DlqTyped
<1>5. IsFiniteSet(1 .. d.captured)
    BY <1>4, FS_Interval
<1>. QED
    BY <1>3, <1>5, FS_Injection

\* The rows a command reads: some of the table's, each once, with attempts left.
LEMMA StreamIs ==
  ASSUME DlqTyped(s), RowsDiffer(s), NEW rows \in DQ!Stream
  PROVE  /\ rows \in Seq(DlqRows)
         /\ \A i \in 1 .. Len(rows) :
              rows[i] \in s.table /\ (s.conf.max = 0 \/ rows[i].attempt < s.conf.max)
         /\ \A i, j \in 1 .. Len(rows) : i # j => rows[i].id # rows[j].id
         /\ DQ!Range(rows) = {rows[i] : i \in 1 .. Len(rows)}
<1>. DEFINE T == {r \in DQ!FetchRows : DQ!Eligible(r)}
            n == Cardinality(T)
<1>1. T \subseteq s.table /\ \A r \in T : s.conf.max = 0 \/ r.attempt < s.conf.max
    BY DEF DQ!FetchRows, DQ!Eligible
<1>2. IsFiniteSet(T)
    BY <1>1, TableIsFinite, FS_Subset
<1>3. n \in Nat
    BY <1>2, FS_CardinalityType
<1>4. rows \in [1 .. n -> T] /\ \A i, j \in 1 .. n : i # j => rows[i] # rows[j]
  <2>1. rows \in DQ!Injection(1 .. DQ!Cardinality(T), T)
    BY DEF DQ!Stream
  <2>. HIDE DEF T
  <2>2. DQ!Cardinality(T) = Cardinality(T)
    BY DEF DQ!Cardinality, Cardinality
  <2>. QED
    BY <2>1, <2>2 DEF DQ!Injection, DQ!IsInjective
<1>. HIDE DEF T, n
<1>5. T \subseteq DlqRows
    BY <1>1 DEF DlqTyped
<1>6. rows \in Seq(DlqRows) /\ Len(rows) = n /\ DOMAIN rows = 1 .. n
    BY <1>3, <1>4, <1>5
<1>7. \A i \in 1 .. n : rows[i] \in T
    BY <1>4
<1>8. \A i, j \in 1 .. n : i # j => rows[i].id # rows[j].id
    BY <1>1, <1>4, <1>7 DEF RowsDiffer
<1>. QED
    BY <1>1, <1>6, <1>7, <1>8 DEF DQ!Range

\* A step of a command that only changes the command, which then holds no more.
LEMMA DlqQuiet ==
  ASSUME NEW d, DlqInv(d), NEW o \in DQ!Operators, NEW k, k \in Commands,
         NEW e, e = [d EXCEPT !.cmd[o] = k],
         HeldOf(k) \subseteq HeldOf(d.cmd[o]), d.cmd[o].pc # "ack", CommandInv(d, k)
  PROVE  DlqInv(e)
<1>1. e = [conf |-> d.conf, captured |-> d.captured, table |-> d.table, started |-> d.started,
           cmd |-> [d.cmd EXCEPT ![o] = k], written |-> d.written, tried |-> d.tried,
           kept |-> d.kept, shared |-> d.shared]
    BY DEF DlqInv, DlqTyped
<1>2. /\ e.conf = d.conf /\ e.captured = d.captured /\ e.table = d.table
      /\ e.started = d.started /\ e.cmd = [d.cmd EXCEPT ![o] = k] /\ e.written = d.written
      /\ e.tried = d.tried /\ e.kept = d.kept /\ e.shared = d.shared
    BY <1>1
<1>3. d.cmd \in [DQ!Operators -> Commands]
    BY DEF DlqInv, DlqTyped
<1>4. e.cmd \in [DQ!Operators -> Commands] /\ e.cmd[o] = k
      /\ \A p \in DQ!Operators : p # o => e.cmd[p] = d.cmd[p]
    BY <1>2, <1>3
<1>5. DlqTyped(e)
    BY <1>1, <1>2, <1>4 DEF DlqInv, DlqTyped
<1>6. SharedIsNoted(e)
    BY <1>2, <1>4 DEF DlqInv, Promises, SharedIsNoted
<1>7. WritesAreNoted(e)
    BY <1>2, <1>4 DEF DlqInv, Promises, WritesAreNoted
<1>8. RowsDiffer(e) /\ Untouched(e) /\ NothingGone(e) /\ Counted(e) /\ Bounded(e)
      /\ TwiceIsNoted(e)
    BY <1>2 DEF DlqInv, Promises, RowsDiffer, Untouched, NothingGone, Counted, Bounded,
       TwiceIsNoted
<1>9. ASSUME NEW q, CommandInv(d, q)
      PROVE  CommandInv(e, q)
    BY <1>2, <1>9 DEF CommandInv, CommandIs, Fresh, Unwritten, TookIs
<1>10. \A p \in DQ!Operators : CommandInv(e, e.cmd[p])
    BY <1>4, <1>9 DEF DlqInv
<1>. QED
    BY <1>5, <1>6, <1>7, <1>8, <1>10 DEF DlqInv, Promises

\* A step of a command on a row that it holds, with id n: the command, now k, holds no more
\* than before, nothing but the row's state changes, and the row's promises are kept.
MovesTo(d, e, o, k, n) ==
  /\ e = [conf |-> d.conf, captured |-> d.captured, table |-> e.table, started |-> d.started,
          cmd |-> [d.cmd EXCEPT ![o] = k], written |-> e.written, tried |-> e.tried,
          kept |-> e.kept, shared |-> d.shared]
  /\ n \in Nat /\ HeldOf(k) \subseteq HeldOf(d.cmd[o])
  /\ \E r \in HeldOf(d.cmd[o]) : r.id = n
  /\ d.cmd[o].pc = "ack" => d.cmd[o].row.id = n
  /\ e.table \subseteq DlqRows /\ e.kept \subseteq Nat /\ d.kept \subseteq e.kept
  /\ e.written \in [DOMAIN d.conf.kinds -> Nat] /\ e.tried \in [DOMAIN d.conf.kinds -> Nat]
  /\ \A r \in DlqRows : r.id # n => (r \in e.table <=> r \in d.table)
  /\ \A r \in e.table : r.id = n => \E t \in d.table : t.id = n
  /\ \A r, t \in e.table : r.id = n /\ t.id = n => r = t
  /\ \A i \in DOMAIN d.conf.kinds : i # n => e.written[i] = d.written[i] /\ e.tried[i] = d.tried[i]
  /\ e.written[n] >= d.written[n]
  /\ (\E r \in e.table : r.id = n) \/ e.written[n] > 0
  /\ \A r \in e.table : r.id = n => n \in d.shared \/ r.attempt >= e.tried[n]
  /\ d.conf.max > 0 => n \in d.shared \/ e.tried[n] <= d.conf.max
  /\ e.written[n] > 1 => n \in e.kept \union d.shared
  /\ \A r \in e.table : r.id = n /\ n \notin e.kept \union d.shared =>
       e.written[n] = 0 \/ (k.pc = "ack" /\ k.row.id = n)

\* What the others hold and know is kept then.
LEMMA DlqMoves ==
  ASSUME DlqBounds, NEW d, DlqInv(d), NEW o \in DQ!Operators, NEW k, k \in Commands,
         NEW n, NEW e, MovesTo(d, e, o, k, n), CommandInv(e, k)
  PROVE  DlqInv(e)
<1>. DEFINE T == e.table
            W == e.written
            R == e.tried
            K == e.kept
<1>1. e = [conf |-> d.conf, captured |-> d.captured, table |-> T, started |-> d.started,
           cmd |-> [d.cmd EXCEPT ![o] = k], written |-> W, tried |-> R, kept |-> K,
           shared |-> d.shared]
    BY DEF MovesTo
<1>0. /\ n \in Nat /\ HeldOf(k) \subseteq HeldOf(d.cmd[o])
      /\ \E r \in HeldOf(d.cmd[o]) : r.id = n
      /\ d.cmd[o].pc = "ack" => d.cmd[o].row.id = n
      /\ T \subseteq DlqRows /\ K \subseteq Nat /\ d.kept \subseteq K
      /\ W \in [DOMAIN d.conf.kinds -> Nat] /\ R \in [DOMAIN d.conf.kinds -> Nat]
      /\ \A r \in DlqRows : r.id # n => (r \in T <=> r \in d.table)
      /\ \A r \in T : r.id = n => \E t \in d.table : t.id = n
      /\ \A r, t \in T : r.id = n /\ t.id = n => r = t
      /\ \A i \in DOMAIN d.conf.kinds : i # n => W[i] = d.written[i] /\ R[i] = d.tried[i]
      /\ W[n] >= d.written[n]
      /\ (\E r \in T : r.id = n) \/ W[n] > 0
      /\ \A r \in T : r.id = n => n \in d.shared \/ r.attempt >= R[n]
      /\ d.conf.max > 0 => n \in d.shared \/ R[n] <= d.conf.max
      /\ W[n] > 1 => n \in K \union d.shared
      /\ \A r \in T : r.id = n /\ n \notin K \union d.shared =>
           W[n] = 0 \/ (k.pc = "ack" /\ k.row.id = n)
    BY DEF MovesTo
<1>. HIDE DEF T, W, R, K
<1>. USE <1>0
<1>2. /\ e.conf = d.conf /\ e.captured = d.captured /\ e.table = T
      /\ e.started = d.started /\ e.cmd = [d.cmd EXCEPT ![o] = k] /\ e.written = W
      /\ e.tried = R /\ e.kept = K /\ e.shared = d.shared
    BY <1>1
<1>3. d.cmd \in [DQ!Operators -> Commands]
    BY DEF DlqInv, DlqTyped
<1>4. e.cmd \in [DQ!Operators -> Commands] /\ e.cmd[o] = k
      /\ \A p \in DQ!Operators : p # o => e.cmd[p] = d.cmd[p]
    BY <1>2, <1>3
<1>5. DlqTyped(e)
  <2>1. e = [conf |-> e.conf, captured |-> e.captured, table |-> e.table,
             started |-> e.started, cmd |-> e.cmd, written |-> e.written, tried |-> e.tried,
             kept |-> e.kept, shared |-> e.shared]
    BY <1>1, <1>2
  <2>. QED
    BY <2>1, <1>2, <1>4 DEF DlqInv, DlqTyped
<1>6. SharedIsNoted(e)
    BY <1>2, <1>4 DEF DlqInv, Promises, SharedIsNoted
<1>7. /\ d.captured \in Nat /\ d.captured <= Len(d.conf.kinds) /\ Len(d.conf.kinds) \in Nat
      /\ DOMAIN d.conf.kinds = 1 .. Len(d.conf.kinds) /\ n \in 1 .. d.captured
      /\ d.written \in [DOMAIN d.conf.kinds -> Nat] /\ d.tried \in [DOMAIN d.conf.kinds -> Nat]
      /\ d.table \subseteq DlqRows
    BY DlqKinds DEF DlqInv, DlqTyped, Promises, RowsDiffer, CommandInv, CommandIs
<1>8. RowsDiffer(e)
  <2>1. \A r \in T : r.id \in 1 .. d.captured
    BY <1>7 DEF DlqInv, Promises, RowsDiffer
  <2>2. \A r, t \in T : r.id = t.id => r = t
    BY <1>7 DEF DlqInv, Promises, RowsDiffer
  <2>. QED
    BY <2>1, <2>2, <1>2, <1>7 DEF RowsDiffer
<1>9. WritesAreNoted(e)
  <2>1. SUFFICES ASSUME NEW r \in T, r.id \notin K \union d.shared, W[r.id] # 0
                 PROVE  \E p \in DQ!Operators : e.cmd[p].pc = "ack" /\ e.cmd[p].row.id = r.id
    BY <1>2 DEF WritesAreNoted
  <2>2. CASE r.id = n
    BY <2>1, <2>2, <1>4
  <2>3. CASE r.id # n
    <3>1. r \in d.table /\ r.id \in DOMAIN d.conf.kinds /\ d.written[r.id] # 0
          /\ r.id \notin d.kept \union d.shared
        BY <2>1, <2>3, <1>2, <1>7, <1>8 DEF RowsDiffer
    <3>2. PICK p \in DQ!Operators : d.cmd[p].pc = "ack" /\ d.cmd[p].row.id = r.id
        BY <3>1 DEF DlqInv, Promises, WritesAreNoted
    <3>. QED
        BY <3>2, <2>3, <1>4
  <2>. QED
    BY <2>2, <2>3
<1>10. Untouched(e)
  <2>1. \A i \in DOMAIN d.conf.kinds : i > d.captured => i # n
    BY <1>7
  <2>. QED
    BY <2>1, <1>2 DEF DlqInv, Promises, Untouched
<1>11. NothingGone(e)
  <2>1. SUFFICES ASSUME NEW i \in 1 .. d.captured, i # n
                 PROVE  (\E r \in T : r.id = i) \/ W[i] > 0
    BY <1>0, <1>2 DEF NothingGone
  <2>2. CASE \E r \in d.table : r.id = i
    BY <2>1, <2>2, <1>7
  <2>3. CASE d.written[i] > 0
    BY SMTT(60), <2>1, <2>3, <1>7
  <2>. QED
    BY <2>2, <2>3 DEF DlqInv, Promises, NothingGone
<1>12. Counted(e)
  <2>1. SUFFICES ASSUME NEW r \in T, r.id # n
                 PROVE  r.id \in d.shared \/ r.attempt >= R[r.id]
    BY <1>2 DEF Counted
  <2>2. r \in d.table /\ r.id \in DOMAIN d.conf.kinds
    BY <2>1, <1>2, <1>7, <1>8 DEF RowsDiffer
  <2>. QED
    BY <2>1, <2>2 DEF DlqInv, Promises, Counted
<1>13. Bounded(e)
    BY <1>2 DEF DlqInv, Promises, Bounded
<1>14. TwiceIsNoted(e)
    BY <1>2 DEF DlqInv, Promises, TwiceIsNoted
<1>15. ASSUME NEW p \in DQ!Operators, p # o
       PROVE  CommandInv(e, d.cmd[p])
  <2>. DEFINE q == d.cmd[p]
  <2>1. CommandInv(d, q) /\ q \in Commands
    BY <1>3 DEF DlqInv
  <2>2. \A r \in HeldOf(q) : r.id \in 1 .. d.captured /\ r.id \in DOMAIN d.conf.kinds
    BY <2>1, <1>7 DEF CommandInv, CommandIs
  <2>3. \A r \in HeldOf(q) : r.id = n => n \in d.shared
    BY <1>15 DEF DlqInv, Promises, SharedIsNoted
  <2>4. TodoOf(q) \subseteq HeldOf(q) /\ (q.pc \in Working => q.row \in HeldOf(q))
    BY <2>1, HeldAre
  <2>5. \A t \in T : t.id # n => t \in d.table
    OBVIOUS
  <2>. HIDE DEF q
  <2>6. CommandIs(e, q)
    BY <2>1, <1>2 DEF CommandInv, CommandIs
  <2>7. Fresh(e, q)
    <3>1. d.conf.max > 0 => \A r \in HeldOf(q) : r.attempt < d.conf.max
        BY <2>1 DEF CommandInv, Fresh
    <3>2. ASSUME NEW r \in TodoOf(q), r.id \notin d.shared
          PROVE  R[r.id] <= r.attempt /\ \A t \in T : t.id = r.id => t.attempt = r.attempt
        BY <3>2, <2>1, <2>2, <2>3, <2>4, <2>5 DEF CommandInv, Fresh
    <3>3. ASSUME q.pc \in Working, q.row.id \notin d.shared
          PROVE  /\ R[q.row.id] <= q.row.attempt + (IF q.pc = "ack" THEN 1 ELSE 0)
                 /\ \A t \in T : t.id = q.row.id =>
                      t.attempt = q.row.attempt + (IF q.pc = "mark" THEN 0 ELSE 1)
        BY <3>3, <2>1, <2>2, <2>3, <2>4, <2>5 DEF CommandInv, Fresh
    <3>. QED
        BY <3>1, <3>2, <3>3, <1>2 DEF Fresh
  <2>8. Unwritten(e, q)
    <3>1. ASSUME q.pc = "ack"
          PROVE  W[q.row.id] > 0
      <4>1. q.row.id \in DOMAIN d.conf.kinds /\ d.written[q.row.id] > 0
        BY <3>1, <2>1, <2>2, <2>4 DEF CommandInv, Unwritten, Working
      <4>2. CASE q.row.id = n
        BY <4>1, <4>2, <1>7
      <4>3. CASE q.row.id # n
        BY <4>1, <4>3
      <4>. QED
        BY <4>2, <4>3
    <3>2. ASSUME NEW r \in HeldOf(q), r.id \notin K \union d.shared
          PROVE  W[r.id] = 0 \/ (q.pc = "ack" /\ r = q.row)
        BY <3>2, <2>1, <2>2, <2>3 DEF CommandInv, Unwritten
    <3>. QED
        BY <3>1, <3>2, <1>2 DEF Unwritten
  <2>9. TookIs(e, q)
    <3>1. ASSUME NEW i, \A t \in d.table : t.id # i
          PROVE  \A t \in T : t.id # i
        BY <3>1, <2>5
    <3>. QED
        BY <3>1, <2>1, <1>2 DEF CommandInv, TookIs
  <2>. QED
    BY <2>6, <2>7, <2>8, <2>9 DEF CommandInv, q
<1>16. \A p \in DQ!Operators : CommandInv(e, e.cmd[p])
    BY <1>4, <1>15
<1>. QED
    BY <1>5, <1>6, <1>8, <1>9, <1>10, <1>11, <1>12, <1>13, <1>14, <1>16 DEF DlqInv, Promises

\* A command that stops working on its row.
LEMMA RestIs ==
  ASSUME DlqBounds, NEW d, DlqInv(d), NEW o \in DQ!Operators, NEW k, k = d.cmd[o],
         k.pc \in Working, NEW e, e.conf = d.conf, e.captured = d.captured,
         e.shared = d.shared, d.kept \subseteq e.kept,
         \A t \in e.table : t.id # k.row.id => t \in d.table,
         \A i \in DOMAIN d.conf.kinds : i # k.row.id =>
           e.written[i] = d.written[i] /\ e.tried[i] = d.tried[i],
         NEW q, q \in Commands, q.pc = "next", q.todo = k.todo, q.row = DQ!NoRow,
         q.took = k.took,
         q.failed \/ ((k.failed => q.failed) /\ \A t \in e.table : t.id # k.row.id)
  PROVE  CommandInv(e, q) /\ HeldOf(q) \subseteq HeldOf(k)
<1>1. k \in Commands /\ CommandInv(d, k)
    BY DEF DlqInv, DlqTyped
<1>2. TodoOf(q) = TodoOf(k) /\ HeldOf(q) = TodoOf(k) /\ q.pc \notin Working
    BY DEF TodoOf, HeldOf, Working
<1>3. HeldOf(k) = TodoOf(k) \union {k.row}
    BY DEF HeldOf
<1>4. \A r \in TodoOf(k) : r.id # k.row.id /\ r.id \in DOMAIN d.conf.kinds
    BY <1>1, <1>3, DlqKinds DEF CommandInv, CommandIs, DlqInv, DlqTyped, Promises, RowsDiffer
<1>5. CommandIs(e, q)
    BY <1>1, <1>2, <1>3 DEF CommandInv, CommandIs
<1>6. Fresh(e, q)
    BY <1>1, <1>2, <1>3, <1>4 DEF CommandInv, Fresh
<1>7. Unwritten(e, q)
  <2>1. ASSUME NEW r \in TodoOf(k), r.id \notin e.kept \union e.shared
        PROVE  e.written[r.id] = 0
    BY <2>1, <1>1, <1>3, <1>4 DEF CommandInv, Unwritten
  <2>. QED
    BY <2>1, <1>2 DEF Unwritten
<1>8. TookIs(e, q)
  <2>1. SUFFICES ASSUME NEW i \in k.took, ~q.failed, NEW t \in e.table, t.id = i
                 PROVE  \E r \in TodoOf(k) : r.id = i
    BY <1>1, <1>2 DEF CommandInv, TookIs
  <2>2. ~k.failed /\ i # k.row.id /\ t \in d.table
    BY <2>1
  <2>3. \E r \in HeldOf(k) : r.id = i
    BY <2>1, <2>2, <1>1 DEF CommandInv, TookIs
  <2>. QED
    BY <2>2, <2>3, <1>3
<1>. QED
    BY <1>2, <1>3, <1>5, <1>6, <1>7, <1>8 DEF CommandInv

\* A command that fails at its row.
LEMMA FailsIs ==
  ASSUME NEW k \in Commands, NEW q, q = DQ!Fails(k)
  PROVE  /\ q \in Commands /\ q.pc = "next" /\ q.todo = k.todo /\ q.row = DQ!NoRow
         /\ q.took = k.took /\ q.failed
<1>1. k = [pc |-> k.pc, todo |-> k.todo, row |-> k.row, failed |-> k.failed, took |-> k.took]
    BY DEF Commands
<1>2. q = [pc |-> "next", todo |-> k.todo, row |-> DQ!NoRow, failed |-> TRUE, took |-> k.took]
    BY <1>1 DEF DQ!Fails
<1>6. q.failed = TRUE
    BY <1>2
<1>3. q.failed
    BY <1>6
<1>4. k.todo \in Seq(DlqRows) /\ k.took \subseteq Nat
    BY HeldAre
<1>5. DQ!NoRow \in DlqRows
    BY DEF DQ!NoRow, DlqRows
<1>. QED
    BY <1>2, <1>3, <1>4, <1>5 DEF Commands

\* A command that goes on, in another place.
LEMMA GoesTo ==
  ASSUME NEW k \in Commands, NEW q,
         NEW pc \in {"idle", "next", "exit0", "exit1"} \union Working, q = [k EXCEPT !.pc = pc]
  PROVE  /\ q \in Commands /\ q.pc = pc /\ q.todo = k.todo /\ q.row = k.row
         /\ q.took = k.took /\ q.failed = k.failed
<1>1. k = [pc |-> k.pc, todo |-> k.todo, row |-> k.row, failed |-> k.failed, took |-> k.took]
    BY DEF Commands
<1>2. q = [pc |-> pc, todo |-> k.todo, row |-> k.row, failed |-> k.failed, took |-> k.took]
    BY <1>1
<1>3. q.failed = k.failed
    BY <1>2, Zenon
<1>4. k.todo \in Seq(DlqRows) /\ k.took \subseteq Nat /\ k.row \in DlqRows
      /\ k.failed \in BOOLEAN
    BY HeldAre
<1>. QED
    BY <1>2, <1>3, <1>4 DEF Commands

\* No command: it holds nothing and has promised nothing.
LEMMA NoCommandInv ==
  ASSUME NEW d
  PROVE  CommandInv(d, DQ!NoCommand)
<1>. DEFINE k == DQ!NoCommand
<1>1. k.pc = "idle" /\ k.todo = <<>> /\ k.row = DQ!NoRow /\ k.took = {} /\ TodoOf(k) = {}
      /\ HeldOf(k) = {} /\ k.pc \notin Working
    BY NoCommandIs DEF Working
<1>. HIDE DEF k
<1>2. CommandIs(d, k)
    BY <1>1 DEF CommandIs
<1>3. Fresh(d, k) /\ Unwritten(d, k) /\ TookIs(d, k)
    BY <1>1 DEF Fresh, Unwritten, TookIs
<1>. QED
    BY <1>2, <1>3 DEF CommandInv, k

\* A command takes its next row, or finds that it cannot be replayed.
LEMMA DlqTake ==
  ASSUME DlqBounds, DlqInv(s), NEW o \in DQ!Operators, DQ!Take(o)
  PROVE  DlqInv(s')
<1>. DEFINE k == s.cmd[o]
            r == Head(k.todo)
<1>1. k \in Commands /\ CommandInv(s, k) /\ k.pc = "next" /\ k.todo # <<>>
    BY DEF DlqInv, DlqTyped, DQ!Take, DQ!Cmd
<1>2. /\ k.todo \in Seq(DlqRows) /\ k.row = DQ!NoRow /\ HeldOf(k) = TodoOf(k)
      /\ k.pc \notin Working /\ k.failed \in BOOLEAN /\ k.took \subseteq Nat
    BY <1>1, HeldAre DEF CommandInv, CommandIs, Working
<1>3. \A i, j \in 1 .. Len(k.todo) : i # j => k.todo[i].id # k.todo[j].id
    BY <1>1 DEF CommandInv, CommandIs
<1>4. /\ Tail(k.todo) \in Seq(DlqRows) /\ r \in DlqRows
      /\ \A i, j \in 1 .. Len(Tail(k.todo)) :
           i # j => Tail(k.todo)[i].id # Tail(k.todo)[j].id
      /\ \A i \in 1 .. Len(Tail(k.todo)) : Tail(k.todo)[i].id # r.id
      /\ TodoOf(k) = {r} \union {Tail(k.todo)[i] : i \in 1 .. Len(Tail(k.todo))}
    BY <1>1, <1>2, <1>3, Takes DEF TodoOf
<1>. HIDE DEF k, r
<1>5. ASSUME NEW q, q \in Commands, q.todo = Tail(k.todo), q.took = k.took,
             \/ q.pc = "next" /\ q.row = DQ!NoRow /\ q.failed
             \/ q.pc = "mark" /\ q.row = r /\ q.failed = k.failed,
             s' = [s EXCEPT !.cmd[o] = q]
      PROVE  DlqInv(s')
  <2>1. TodoOf(k) = TodoOf(q) \union {r} /\ \A t \in TodoOf(q) : t.id # r.id
    BY ZenonT(90), <1>4, <1>5 DEF TodoOf
  <2>2. HeldOf(q) \subseteq HeldOf(k) /\ TodoOf(q) \subseteq HeldOf(q)
        /\ (q.pc = "mark" => HeldOf(q) = HeldOf(k))
    BY <2>1, <1>2, <1>5, HeldAre DEF HeldOf, Working
  <2>3. CommandIs(s, q)
    BY <2>1, <2>2, <1>1, <1>4, <1>5 DEF CommandInv, CommandIs, Working
  <2>4. Fresh(s, q)
    <3>1. r \in TodoOf(k) /\ TodoOf(q) \subseteq TodoOf(k)
        BY <2>1
    <3>2. s.conf.max > 0 => \A t \in HeldOf(q) : t.attempt < s.conf.max
        BY <2>2, <1>1 DEF CommandInv, Fresh
    <3>3. ASSUME NEW t \in TodoOf(q), t.id \notin s.shared
          PROVE  /\ s.tried[t.id] <= t.attempt
                 /\ \A u \in s.table : u.id = t.id => u.attempt = t.attempt
        BY <3>1, <3>3, <1>1 DEF CommandInv, Fresh
    <3>4. ASSUME q.pc \in Working, q.row.id \notin s.shared
          PROVE  q.pc = "mark" /\ s.tried[q.row.id] <= q.row.attempt + 0
                 /\ \A u \in s.table : u.id = q.row.id => u.attempt = q.row.attempt + 0
        BY <3>1, <3>4, <1>1, <1>4, <1>5 DEF CommandInv, Fresh, Working, DlqRows
    <3>. QED
        BY <3>2, <3>3, <3>4 DEF Fresh
  <2>5. Unwritten(s, q)
    BY <2>2, <1>1, <1>5 DEF CommandInv, Unwritten
  <2>6. TookIs(s, q)
    <3>1. CASE q.failed
        BY <3>1, <1>1, <1>5 DEF CommandInv, TookIs
    <3>2. CASE q.pc = "mark" /\ q.failed = k.failed
        BY <3>2, <2>2, <1>1, <1>5 DEF CommandInv, TookIs
    <3>. QED
        BY <3>1, <3>2, <1>5
  <2>7. CommandInv(s, q)
    BY <2>3, <2>4, <2>5, <2>6 DEF CommandInv
  <2>. QED
    BY <2>2, <2>7, <1>1, <1>5, DlqQuiet DEF k
<1>. DEFINE rest == [k EXCEPT !.todo = Tail(@)]
<1>6. k = [pc |-> k.pc, todo |-> k.todo, row |-> k.row, failed |-> k.failed, took |-> k.took]
    BY <1>1 DEF Commands
<1>7. rest = [pc |-> k.pc, todo |-> Tail(k.todo), row |-> k.row, failed |-> k.failed,
              took |-> k.took]
  <2>. DEFINE tl == Tail(k.todo)
  <2>1. rest = [k EXCEPT !.todo = tl]
    OBVIOUS
  <2>. HIDE DEF tl
  <2>2. [k EXCEPT !.todo = tl] = [pc |-> k.pc, todo |-> tl, row |-> k.row,
                                  failed |-> k.failed, took |-> k.took]
    BY <1>6
  <2>. QED
    BY <2>1, <2>2 DEF tl
<1>8. rest \in Commands
    BY <1>1, <1>2, <1>4, <1>7 DEF Commands
<1>9. rest.todo = Tail(k.todo) /\ rest.took = k.took
    BY <1>7
<1>10. CASE s' = [s EXCEPT !.cmd[o] = DQ!Fails(rest)]
  <2>. DEFINE q == DQ!Fails(rest)
  <2>. HIDE DEF rest
  <2>1. /\ q \in Commands /\ q.pc = "next" /\ q.todo = rest.todo /\ q.row = DQ!NoRow
        /\ q.took = rest.took /\ q.failed
    BY <1>8, FailsIs
  <2>. HIDE DEF q
  <2>2. s' = [s EXCEPT !.cmd[o] = q]
    BY <1>10 DEF q
  <2>. QED
    BY <2>1, <2>2, <1>5, <1>9
<1>11. CASE s' = [s EXCEPT !.cmd[o] = [rest EXCEPT !.pc = "mark", !.row = r]]
  <2>. DEFINE q == [rest EXCEPT !.pc = "mark", !.row = r]
  <2>1. q = [pc |-> "mark", todo |-> Tail(k.todo), row |-> r, failed |-> k.failed,
             took |-> k.took]
    <3>. DEFINE tl == Tail(k.todo)
    <3>1. rest = [pc |-> k.pc, todo |-> tl, row |-> k.row, failed |-> k.failed,
                  took |-> k.took]
        BY <1>7
    <3>. HIDE DEF rest, tl
    <3>3. [rest EXCEPT !.pc = "mark"] = [pc |-> "mark", todo |-> tl, row |-> k.row,
                                         failed |-> k.failed, took |-> k.took]
        BY <3>1
    <3>. DEFINE marked == [rest EXCEPT !.pc = "mark"]
    <3>. HIDE DEF marked
    <3>4. marked = [pc |-> "mark", todo |-> tl, row |-> k.row, failed |-> k.failed,
                    took |-> k.took]
        BY <3>3 DEF marked
    <3>5. [marked EXCEPT !.row = r] = [pc |-> "mark", todo |-> tl, row |-> r,
                                       failed |-> k.failed, took |-> k.took]
        BY <3>4
    <3>2. q = [pc |-> "mark", todo |-> tl, row |-> r, failed |-> k.failed, took |-> k.took]
        BY <3>5 DEF marked
    <3>. QED
        BY <3>2 DEF tl
  <2>2. q \in Commands
    BY <2>1, <1>2, <1>4 DEF Commands, Working
  <2>3. q.pc = "mark" /\ q.todo = Tail(k.todo) /\ q.row = r /\ q.took = k.took
    BY <2>1
  <2>4. q.failed = k.failed
    BY <2>1, Zenon
  <2>. HIDE DEF q
  <2>5. s' = [s EXCEPT !.cmd[o] = q]
    BY <1>11 DEF q
  <2>. QED
    BY <2>2, <2>3, <2>4, <2>5, <1>5
<1>. QED
    BY <1>10, <1>11 DEF DQ!Take, DQ!Cmd, k, r

\* The working command k of operator o, and the row it works on.
LEMMA WorkingOn ==
  ASSUME DlqBounds, NEW d, DlqInv(d), NEW o \in DQ!Operators, NEW k, k = d.cmd[o],
         k.pc \in Working
  PROVE  /\ k \in Commands /\ CommandInv(d, k) /\ k.row \in HeldOf(k) /\ k.row \in DlqRows
         /\ k.row.id \in 1 .. d.captured /\ k.row.id \in DOMAIN d.conf.kinds
         /\ HeldOf(k) = TodoOf(k) \union {k.row} /\ \A r \in TodoOf(k) : r.id # k.row.id
         /\ d.written \in [DOMAIN d.conf.kinds -> Nat]
         /\ d.tried \in [DOMAIN d.conf.kinds -> Nat]
         /\ d.table \subseteq DlqRows /\ d.kept \subseteq Nat /\ d.shared \subseteq Nat
         /\ k.row.id \in Nat
<1>1. k \in Commands /\ CommandInv(d, k)
    BY DEF DlqInv, DlqTyped
<1>2. HeldOf(k) = TodoOf(k) \union {k.row} /\ k.row \in DlqRows
    BY <1>1, HeldAre DEF HeldOf
<1>3. d.captured \in Nat /\ d.captured <= Len(d.conf.kinds)
    BY DEF DlqInv, DlqTyped, Promises, RowsDiffer
<1>4. k.row.id \in 1 .. d.captured /\ \A r \in TodoOf(k) : r.id # k.row.id
    BY <1>1, <1>2 DEF CommandInv, CommandIs
<1>5. k.row.id \in DOMAIN d.conf.kinds
    BY <1>3, <1>4, DlqKinds DEF DlqInv
<1>. QED
    BY <1>1, <1>2, <1>4, <1>5 DEF DlqInv, DlqTyped

\* A command counts the attempt, or fails to.
LEMMA DlqMark ==
  ASSUME DlqBounds, DlqInv(s), NEW o \in DQ!Operators, DQ!Mark(o)
  PROVE  DlqInv(s')
<1>. DEFINE k == s.cmd[o]
            n == k.row.id
<1>1. k.pc = "mark" /\ k.pc \in Working
    BY DEF DQ!Mark, DQ!Cmd, Working
<1>2. /\ k \in Commands /\ CommandInv(s, k) /\ k.row \in HeldOf(k) /\ k.row \in DlqRows
      /\ n \in 1 .. s.captured /\ n \in DOMAIN s.conf.kinds
      /\ HeldOf(k) = TodoOf(k) \union {k.row} /\ \A r \in TodoOf(k) : r.id # n
      /\ s.written \in [DOMAIN s.conf.kinds -> Nat] /\ s.tried \in [DOMAIN s.conf.kinds -> Nat]
      /\ s.table \subseteq DlqRows /\ s.kept \subseteq Nat /\ s.shared \subseteq Nat
      /\ n \in Nat
    BY <1>1, WorkingOn
<1>3. CASE s' = [s EXCEPT !.cmd[o] = DQ!Fails(@)]
  <2>. DEFINE q == DQ!Fails(k)
  <2>1. /\ q \in Commands /\ q.pc = "next" /\ q.todo = k.todo /\ q.row = DQ!NoRow
        /\ q.took = k.took /\ q.failed
    BY <1>2, FailsIs
  <2>2. s' = [s EXCEPT !.cmd[o] = q]
    BY <1>3 DEF DlqInv, DlqTyped
  <2>. HIDE DEF q
  <2>3. CommandInv(s, q) /\ HeldOf(q) \subseteq HeldOf(k)
    BY <2>1, <1>1, RestIs
  <2>. QED
    BY <2>1, <2>2, <2>3, <1>1, DlqQuiet
<1>4. CASE s' = [s EXCEPT !.table = DQ!Marked(k.row), !.cmd[o].pc = "run"]
  <2>. DEFINE T == DQ!Marked(k.row)
              q == [k EXCEPT !.pc = "run"]
              e == [conf |-> s.conf, captured |-> s.captured, table |-> T,
                    started |-> s.started, cmd |-> [s.cmd EXCEPT ![o] = q],
                    written |-> s.written, tried |-> s.tried, kept |-> s.kept,
                    shared |-> s.shared]
  <2>1. /\ q \in Commands /\ q.pc = "run" /\ q.todo = k.todo /\ q.row = k.row
        /\ q.took = k.took /\ q.failed = k.failed
    BY <1>2, GoesTo DEF Working
  <2>2. s' = e
    BY <1>4 DEF DlqInv, DlqTyped
  <2>3. ASSUME NEW r \in s.table, r.id = n
        PROVE  [r EXCEPT !.attempt = k.row.attempt + 1] = [id |-> n, attempt |-> k.row.attempt + 1]
    BY <2>3, <1>2 DEF DlqRows
  <2>4. \A t \in T : t \in DlqRows
    BY <2>3, <1>2 DEF DQ!Marked, DlqRows
  <2>5. \A t \in DlqRows : t.id # n => (t \in T <=> t \in s.table)
    BY <2>3 DEF DQ!Marked
  <2>6. \A t \in T : t.id = n => /\ t = [id |-> n, attempt |-> k.row.attempt + 1]
                                 /\ \E r \in s.table : r.id = n
    BY <2>3 DEF DQ!Marked
  <2>7. ASSUME NEW r \in s.table, r.id = n
        PROVE  \E t \in T : t.id = n
    <3>. DEFINE t == [r EXCEPT !.attempt = k.row.attempt + 1]
    <3>1. t \in T
        BY <2>7 DEF DQ!Marked
    <3>2. t.id = n
        BY <2>3, <2>7
    <3>. QED
        BY <3>1, <3>2
  <2>8. \A t \in T : t.id = n => t.attempt = k.row.attempt + 1
    BY <2>6
  <2>. HIDE DEF T, q
  <2>9. /\ e.conf = s.conf /\ e.captured = s.captured /\ e.table = T /\ e.written = s.written
        /\ e.tried = s.tried /\ e.kept = s.kept /\ e.shared = s.shared
    OBVIOUS
  <2>10. HeldOf(q) = HeldOf(k) /\ TodoOf(q) = TodoOf(k) /\ q.pc \in Working
    BY <2>1, <1>1 DEF HeldOf, TodoOf, Working
  <2>. HIDE DEF e
  <2>11. CommandInv(e, q)
    <3>1. CommandIs(e, q)
        BY <2>1, <2>9, <2>10, <1>1, <1>2 DEF CommandInv, CommandIs, Working
    <3>2. Fresh(e, q)
      <4>1. s.conf.max > 0 => \A r \in HeldOf(k) : r.attempt < s.conf.max
        BY <1>2 DEF CommandInv, Fresh
      <4>2. ASSUME NEW r \in TodoOf(k), r.id \notin s.shared
            PROVE  s.tried[r.id] <= r.attempt /\ \A t \in T : t.id = r.id => t.attempt = r.attempt
        BY <4>2, <1>2, <2>4, <2>5 DEF CommandInv, Fresh
      <4>3. n \notin s.shared => s.tried[n] <= k.row.attempt + 0
        BY <1>1, <1>2 DEF CommandInv, Fresh
      <4>. QED
        BY <4>1, <4>2, <4>3, <2>1, <2>8, <2>9, <2>10 DEF Fresh
    <3>3. Unwritten(e, q)
        BY <2>1, <2>9, <2>10, <1>1, <1>2 DEF CommandInv, Unwritten
    <3>4. TookIs(e, q)
      <4>1. ASSUME NEW i, \A t \in s.table : t.id # i
            PROVE  \A t \in T : t.id # i
        BY <4>1, <2>4, <2>5, <2>6
      <4>. QED
        BY SMTT(60), <4>1, <2>1, <2>9, <2>10, <1>2 DEF CommandInv, TookIs
    <3>. QED
        BY <3>1, <3>2, <3>3, <3>4 DEF CommandInv
  <2>12. (\E r \in T : r.id = n) \/ s.written[n] > 0
    BY <2>7, <1>2 DEF DlqInv, Promises, NothingGone
  <2>13. n \in s.shared \/ s.tried[n] <= k.row.attempt
    BY <1>1, <1>2 DEF CommandInv, Fresh, DlqRows
  <2>14. \A r \in T : r.id = n => n \in s.shared \/ r.attempt >= s.tried[n]
    BY <2>8, <2>13, <1>2 DEF DlqRows
  <2>15. s.conf.max > 0 => n \in s.shared \/ s.tried[n] <= s.conf.max
    BY <1>2 DEF DlqInv, Promises, Bounded
  <2>16. s.written[n] > 1 => n \in s.kept \union s.shared
    BY <1>2 DEF DlqInv, Promises, TwiceIsNoted
  <2>17. n \notin s.kept \union s.shared => s.written[n] = 0
    BY <1>1, <1>2 DEF CommandInv, Unwritten
  <2>18. DlqInv(e)
    <3>. USE DlqBounds
    <3>1. s.written[n] >= s.written[n]
        BY <1>2
    <3>2. \A r, t \in T : r.id = n /\ t.id = n => r = t
        BY <2>6
    <3>3. \A r \in T : r.id = n => \E t \in s.table : t.id = n
        BY <2>6
    <3>4. HeldOf(q) \subseteq HeldOf(s.cmd[o]) /\ \E r \in HeldOf(s.cmd[o]) : r.id = n
        BY <2>10, <1>2
    <3>5. s.cmd[o].pc = "ack" => s.cmd[o].row.id = n
        BY <1>1
    <3>6. T \subseteq DlqRows
        BY <2>4
    <3>7. e = [conf |-> s.conf, captured |-> s.captured, table |-> e.table,
               started |-> s.started, cmd |-> [s.cmd EXCEPT ![o] = q], written |-> e.written,
               tried |-> e.tried, kept |-> e.kept, shared |-> s.shared]
        BY DEF e
    <3>. HIDE DEF n
    <3>8. MovesTo(s, e, o, q, n)
        BY <3>1, <3>2, <3>3, <3>4, <3>5, <3>6, <3>7, <2>5, <2>9, <2>12, <2>14, <2>15, <2>16,
           <2>17, <1>2 DEF MovesTo
    <3>. QED
        BY <3>8, <2>1, <2>11, DlqMoves
  <2>. QED
    BY <2>2, <2>18 DEF e
<1>. QED
    BY <1>3, <1>4 DEF DQ!Mark, DQ!Cmd

\* A command runs its pipeline of one record: after a quiet run that wrote it goes on to
\* delete the row, after any other it has failed.
LEMMA DlqRun ==
  ASSUME DlqBounds, DlqInv(s), NEW o \in DQ!Operators, DQ!Run(o)
  PROVE  DlqInv(s')
<1>. DEFINE k == s.cmd[o]
            n == k.row.id
<1>1. k.pc = "run" /\ k.pc \in Working
    BY DEF DQ!Run, DQ!Cmd, Working
<1>2. /\ k \in Commands /\ CommandInv(s, k) /\ k.row \in HeldOf(k) /\ k.row \in DlqRows
      /\ n \in 1 .. s.captured /\ n \in DOMAIN s.conf.kinds
      /\ HeldOf(k) = TodoOf(k) \union {k.row} /\ \A r \in TodoOf(k) : r.id # n
      /\ s.written \in [DOMAIN s.conf.kinds -> Nat] /\ s.tried \in [DOMAIN s.conf.kinds -> Nat]
      /\ s.table \subseteq DlqRows /\ s.kept \subseteq Nat /\ s.shared \subseteq Nat
      /\ n \in Nat
    BY SMTT(60), <1>1, WorkingOn
<1>3. PICK stored, raised \in BOOLEAN :
        s' = [s EXCEPT !.tried[n] = @ + 1,
                       !.written[n] = IF stored THEN @ + 1 ELSE @,
                       !.kept = IF stored /\ DQ!AfterRun(raised, stored) = "next"
                                THEN @ \union {n} ELSE @,
                       !.cmd[o] = IF DQ!AfterRun(raised, stored) = "next"
                                  THEN DQ!Fails(@) ELSE [@ EXCEPT !.pc = "ack"]]
    BY ZenonT(90) DEF DQ!Run, DQ!Cmd
<1>. DEFINE then == DQ!AfterRun(raised, stored)
            R == [s.tried EXCEPT ![n] = @ + 1]
            W == [s.written EXCEPT ![n] = IF stored THEN @ + 1 ELSE @]
            K == IF stored /\ then = "next" THEN s.kept \union {n} ELSE s.kept
            q == IF then = "next" THEN DQ!Fails(k) ELSE [k EXCEPT !.pc = "ack"]
            e == [conf |-> s.conf, captured |-> s.captured, table |-> s.table,
                  started |-> s.started, cmd |-> [s.cmd EXCEPT ![o] = q],
                  written |-> W, tried |-> R, kept |-> K, shared |-> s.shared]
<1>4. s' = e
    BY <1>3 DEF DlqInv, DlqTyped
<1>5. then = "next" \/ (stored /\ then # "next")
    BY DEF DQ!AfterRun
<1>6. /\ R \in [DOMAIN s.conf.kinds -> Nat] /\ W \in [DOMAIN s.conf.kinds -> Nat]
      /\ R[n] = s.tried[n] + 1 /\ (stored => W[n] = s.written[n] + 1)
      /\ (~stored => W[n] = s.written[n])
      /\ \A i \in DOMAIN s.conf.kinds : i # n => W[i] = s.written[i] /\ R[i] = s.tried[i]
    BY <1>2
<1>7. /\ K \subseteq Nat /\ s.kept \subseteq K
      /\ (stored /\ then = "next" => n \in K)
      /\ (~(stored /\ then = "next") => K = s.kept)
    BY <1>2
<1>. HIDE DEF R, W, K
<1>8. /\ e.conf = s.conf /\ e.captured = s.captured /\ e.table = s.table /\ e.written = W
      /\ e.tried = R /\ e.kept = K /\ e.shared = s.shared
    OBVIOUS
<1>9. n \notin s.kept \union s.shared => s.written[n] = 0
    BY <1>1, <1>2 DEF CommandInv, Unwritten
<1>10. n \notin s.shared => /\ s.tried[n] <= k.row.attempt
                            /\ \A t \in s.table : t.id = n => t.attempt = k.row.attempt + 1
    BY <1>1, <1>2 DEF CommandInv, Fresh, DlqRows
<1>11. s.conf.max > 0 => k.row.attempt < s.conf.max
    BY <1>2 DEF CommandInv, Fresh
<1>12. q \in Commands /\ CommandInv(e, q) /\ HeldOf(q) \subseteq HeldOf(k)
       /\ (then # "next" => q.pc = "ack" /\ q.row.id = n)
  <2>1. CASE then = "next"
    <3>1. q = DQ!Fails(k)
        BY <2>1
    <3>2. /\ q \in Commands /\ q.pc = "next" /\ q.todo = k.todo /\ q.row = DQ!NoRow
          /\ q.took = k.took /\ q.failed
        BY ZenonT(90), <3>1, <1>2, FailsIs
    <3>. HIDE DEF q, e
    <3>3. CommandInv(e, q) /\ HeldOf(q) \subseteq HeldOf(k)
        BY <3>2, <1>1, <1>6, <1>7, <1>8, RestIs
    <3>. QED
        BY <3>2, <3>3, <2>1
  <2>2. CASE then # "next"
    <3>1. q = [k EXCEPT !.pc = "ack"]
        BY <2>2
    <3>2. /\ q \in Commands /\ q.pc = "ack" /\ q.todo = k.todo /\ q.row = k.row
          /\ q.took = k.took /\ q.failed = k.failed
        BY <3>1, <1>2, GoesTo DEF Working
    <3>. HIDE DEF q, e
    <3>3. HeldOf(q) = HeldOf(k) /\ TodoOf(q) = TodoOf(k) /\ q.pc \in Working
        BY <3>2, <1>1 DEF HeldOf, TodoOf, Working
    <3>4. CommandIs(e, q)
        BY <3>2, <3>3, <1>1, <1>2, <1>8 DEF CommandInv, CommandIs, Working
    <3>5. \A r \in TodoOf(k) : r.id \in DOMAIN s.conf.kinds
        BY <1>2, DlqKinds DEF CommandInv, CommandIs, DlqInv, DlqTyped, Promises, RowsDiffer
    <3>6. Fresh(e, q)
      <4>1. s.conf.max > 0 => \A r \in HeldOf(k) : r.attempt < s.conf.max
        BY SMTT(60), <1>2 DEF CommandInv, Fresh
      <4>2. ASSUME NEW r \in TodoOf(k), r.id \notin s.shared
            PROVE  R[r.id] <= r.attempt /\ \A t \in s.table : t.id = r.id => t.attempt = r.attempt
        BY SMTT(60), <4>2, <3>5, <1>2, <1>6 DEF CommandInv, Fresh
      <4>3. n \notin s.shared => R[n] <= k.row.attempt + 1
        BY <1>2, <1>6, <1>10 DEF DlqRows
      <4>. QED
        BY <4>1, <4>2, <4>3, <3>2, <3>3, <1>8, <1>10 DEF Fresh
    <3>7. Unwritten(e, q)
      <4>1. W[n] > 0
        BY SMTT(60), <2>2, <1>2, <1>5, <1>6
      <4>2. ASSUME NEW r \in HeldOf(k), r.id \notin K \union s.shared
            PROVE  W[r.id] = 0 \/ r = k.row
        BY <4>2, <3>5, <1>1, <1>2, <1>6, <1>7 DEF CommandInv, Unwritten
      <4>. QED
        BY <4>1, <4>2, <3>2, <3>3, <1>8 DEF Unwritten
    <3>8. TookIs(e, q)
        BY <3>2, <3>3, <1>2, <1>8 DEF CommandInv, TookIs
    <3>. QED
        BY <3>2, <3>3, <3>4, <3>6, <3>7, <3>8 DEF CommandInv
  <2>. QED
    BY <2>1, <2>2
<1>13. W[n] >= s.written[n] /\ ((\E r \in s.table : r.id = n) \/ W[n] > 0)
    BY SMTT(60), <1>2, <1>6 DEF DlqInv, Promises, NothingGone
<1>14. \A r \in s.table : r.id = n => n \in s.shared \/ r.attempt >= R[n]
    BY SMTT(60), <1>2, <1>6, <1>10 DEF DlqRows
<1>15. s.conf.max > 0 => n \in s.shared \/ R[n] <= s.conf.max
  <2>1. s.conf.max \in Nat /\ k.row.attempt \in Nat /\ s.tried[n] \in Nat
    <3>. HIDE DEF q, e, then
    <3>1. DlqTyped(s)
        BY DEF DlqInv
    <3>2. s.conf.max \in 0 .. 2
        BY <3>1, DlqKinds
    <3>3. k.row.attempt \in Nat /\ s.tried[n] \in Nat
        BY <1>2 DEF DlqRows
    <3>. QED
        BY <3>2, <3>3
  <2>. QED
    BY <2>1, <1>6, <1>10, <1>11
<1>16. W[n] > 1 => n \in K \union s.shared
  <2>1. SUFFICES ASSUME W[n] > 1, n \notin K \union s.shared
                 PROVE  FALSE
    OBVIOUS
  <2>2. s.written[n] = 0
    BY SMTT(60), <2>1, <1>7, <1>9
  <2>. QED
    BY <2>1, <2>2, <1>6
<1>17. n \notin K \union s.shared => W[n] = 0 \/ (q.pc = "ack" /\ q.row.id = n)
    BY <1>5, <1>6, <1>7, <1>9, <1>12
<1>18. \A r, t \in s.table : r.id = n /\ t.id = n => r = t
    BY DEF DlqInv, Promises, RowsDiffer
<1>19. DlqInv(e)
  <2>1. HeldOf(q) \subseteq HeldOf(s.cmd[o]) /\ \E r \in HeldOf(s.cmd[o]) : r.id = n
    BY <1>2, <1>12
  <2>2. s.cmd[o].pc = "ack" => s.cmd[o].row.id = n
    BY <1>1
  <2>3. e = [conf |-> s.conf, captured |-> s.captured, table |-> e.table,
             started |-> s.started, cmd |-> [s.cmd EXCEPT ![o] = q], written |-> e.written,
             tried |-> e.tried, kept |-> e.kept, shared |-> s.shared]
    OBVIOUS
  <2>. HIDE DEF n, q, e, then
  <2>4. MovesTo(s, e, o, q, n)
    BY <2>1, <2>2, <2>3, <1>2, <1>6, <1>7, <1>8, <1>13, <1>14, <1>15, <1>16, <1>17, <1>18
       DEF MovesTo
  <2>. QED
    BY <2>4, <1>12, DlqMoves
<1>. QED
    BY <1>4, <1>19

\* A command is done with the row that it has written: it is deleted, or kept and noted.
LEMMA DlqSettles ==
  ASSUME DlqBounds, DlqInv(s), NEW o \in DQ!Operators, s.cmd[o].pc = "ack", NEW q, q \in Commands,
         NEW T, NEW K,
         s' = [s EXCEPT !.table = T, !.kept = K, !.cmd[o] = q],
         T \subseteq s.table, \A r \in s.table : r.id # s.cmd[o].row.id => r \in T,
         K \in {s.kept, s.kept \union {s.cmd[o].row.id}},
         (\A r \in T : r.id # s.cmd[o].row.id) \/ s.cmd[o].row.id \in K,
         HeldOf(q) \subseteq HeldOf(s.cmd[o]),
         \A e : /\ e.conf = s.conf /\ e.captured = s.captured /\ e.table = T
                /\ e.written = s.written /\ e.tried = s.tried /\ e.kept = K
                /\ e.shared = s.shared
                => CommandInv(e, q)
  PROVE  DlqInv(s')
<1>. DEFINE k == s.cmd[o]
            n == k.row.id
            e == [conf |-> s.conf, captured |-> s.captured, table |-> T,
                  started |-> s.started, cmd |-> [s.cmd EXCEPT ![o] = q],
                  written |-> s.written, tried |-> s.tried, kept |-> K, shared |-> s.shared]
<1>1. k.pc = "ack" /\ k.pc \in Working
    BY DEF Working
<1>2. /\ k \in Commands /\ CommandInv(s, k) /\ k.row \in HeldOf(k) /\ k.row \in DlqRows
      /\ n \in 1 .. s.captured /\ n \in DOMAIN s.conf.kinds
      /\ s.written \in [DOMAIN s.conf.kinds -> Nat] /\ s.tried \in [DOMAIN s.conf.kinds -> Nat]
      /\ s.table \subseteq DlqRows /\ s.kept \subseteq Nat /\ s.shared \subseteq Nat
      /\ n \in Nat
    BY <1>1, WorkingOn
<1>3. s' = e
    BY DEF DlqInv, DlqTyped
<1>4. CommandInv(e, q)
    OBVIOUS
<1>5. s.written[n] > 0
    BY <1>1, <1>2 DEF CommandInv, Unwritten
<1>6. \A r \in T : r.id = n => n \in s.shared \/ r.attempt >= s.tried[n]
    BY DEF DlqInv, Promises, Counted
<1>7. s.conf.max > 0 => n \in s.shared \/ s.tried[n] <= s.conf.max
    BY <1>2 DEF DlqInv, Promises, Bounded
<1>8. s.written[n] > 1 => n \in K \union s.shared
    BY <1>2 DEF DlqInv, Promises, TwiceIsNoted
<1>9. \A r, t \in T : r.id = n /\ t.id = n => r = t
    BY DEF DlqInv, Promises, RowsDiffer
<1>10. s.written[n] >= s.written[n] /\ K \subseteq Nat /\ s.kept \subseteq K
    BY <1>2
<1>11. HeldOf(q) \subseteq HeldOf(s.cmd[o]) /\ \E r \in HeldOf(s.cmd[o]) : r.id = n
    BY <1>2
<1>12. \A r \in DlqRows : r.id # n => (r \in T <=> r \in s.table)
    OBVIOUS
<1>13. \A r \in T : r.id = n /\ n \notin K \union s.shared =>
         s.written[n] = 0 \/ (q.pc = "ack" /\ q.row.id = n)
    OBVIOUS
<1>14. T \subseteq DlqRows /\ \A r \in T : r.id = n => \E t \in s.table : t.id = n
    BY <1>2
<1>15. s.cmd[o].pc = "ack" => s.cmd[o].row.id = n
    OBVIOUS
<1>16. DlqInv(e)
  <2>1. e = [conf |-> s.conf, captured |-> s.captured, table |-> e.table,
             started |-> s.started, cmd |-> [s.cmd EXCEPT ![o] = q], written |-> e.written,
             tried |-> e.tried, kept |-> e.kept, shared |-> s.shared]
        /\ e.table = T /\ e.written = s.written /\ e.tried = s.tried /\ e.kept = K
    OBVIOUS
  <2>. HIDE DEF n, e
  <2>2. MovesTo(s, e, o, q, n)
    BY <2>1, <1>2, <1>5, <1>6, <1>7, <1>8, <1>9, <1>10, <1>11, <1>12, <1>13, <1>14, <1>15
       DEF MovesTo
  <2>. QED
    BY <2>2, <1>4, DlqMoves
<1>. QED
    BY <1>3, <1>16

\* A command deletes the row that it has written, or fails to.
LEMMA DlqAcknowledge ==
  ASSUME DlqBounds, DlqInv(s), NEW o \in DQ!Operators, DQ!Acknowledge(o)
  PROVE  DlqInv(s')
<1>. DEFINE k == s.cmd[o]
            n == k.row.id
<1>1. k.pc = "ack" /\ k.pc \in Working
    BY DEF DQ!Acknowledge, DQ!Cmd, Working
<1>2. k \in Commands
    BY SMTT(60), <1>1, WorkingOn
<1>3. CASE s' = [s EXCEPT !.cmd[o] = DQ!Fails(@), !.kept = @ \union {n}]
  <2>. DEFINE q == DQ!Fails(k)
              T == s.table
              K == s.kept \union {n}
  <2>1. /\ q \in Commands /\ q.pc = "next" /\ q.todo = k.todo /\ q.row = DQ!NoRow
        /\ q.took = k.took /\ q.failed
    BY <1>2, FailsIs
  <2>2. s' = [s EXCEPT !.table = T, !.kept = K, !.cmd[o] = q]
    BY <1>3 DEF DlqInv, DlqTyped
  <2>. HIDE DEF q
  <2>3. CommandInv(s, q) /\ HeldOf(q) \subseteq HeldOf(k)
    BY <2>1, <1>1, RestIs
  <2>4. ASSUME NEW e, e.conf = s.conf, e.captured = s.captured, e.table = T,
               e.written = s.written, e.tried = s.tried, e.kept = K, e.shared = s.shared
        PROVE  CommandInv(e, q)
    BY <2>1, <2>4, <1>1, RestIs
  <2>5. T \subseteq s.table /\ \A r \in s.table : r.id # n => r \in T
    OBVIOUS
  <2>6. K \in {s.kept, s.kept \union {n}} /\ n \in K
    BY SMTT(60)
  <2>. HIDE DEF T, K
  <2>. QED
    BY ZenonT(90), <2>1, <2>2, <2>3, <2>4, <2>5, <2>6, <1>1, DlqSettles
<1>4. CASE s' = [s EXCEPT !.table = DQ!Deleted(k.row),
                          !.cmd[o] = [@ EXCEPT !.pc = "next", !.row = DQ!NoRow]]
  <2>. DEFINE q == [k EXCEPT !.pc = "next", !.row = DQ!NoRow]
              T == DQ!Deleted(k.row)
              K == s.kept
  <2>1. k = [pc |-> k.pc, todo |-> k.todo, row |-> k.row, failed |-> k.failed, took |-> k.took]
    BY <1>2 DEF Commands
  <2>2. q = [pc |-> "next", todo |-> k.todo, row |-> DQ!NoRow, failed |-> k.failed,
             took |-> k.took]
    <3>. DEFINE moved == [k EXCEPT !.pc = "next"]
    <3>. HIDE DEF k
    <3>1. moved = [pc |-> "next", todo |-> k.todo, row |-> k.row, failed |-> k.failed,
                   took |-> k.took]
        BY <2>1
    <3>2. q = [moved EXCEPT !.row = DQ!NoRow]
        OBVIOUS
    <3>. HIDE DEF moved, q
    <3>. QED
        BY <3>1, <3>2
  <2>3. k.todo \in Seq(DlqRows) /\ k.took \subseteq Nat /\ k.failed \in BOOLEAN
    BY <1>2, HeldAre
  <2>4. DQ!NoRow \in DlqRows
    BY DEF DQ!NoRow, DlqRows
  <2>5. q \in Commands
    BY <2>2, <2>3, <2>4 DEF Commands
  <2>6. q.pc = "next" /\ q.todo = k.todo /\ q.row = DQ!NoRow /\ q.took = k.took
    BY <2>2
  <2>7. q.failed = k.failed
    BY <2>2, Zenon
  <2>8. s' = [s EXCEPT !.table = T, !.kept = K, !.cmd[o] = q]
    BY <1>4 DEF DlqInv, DlqTyped
  <2>9. T \subseteq s.table /\ (\A r \in s.table : r.id # n => r \in T)
        /\ \A r \in T : r.id # n
    BY DEF DQ!Deleted
  <2>10. HeldOf(q) \subseteq HeldOf(k)
    <3>. HIDE DEF q
    <3>. QED
        BY <2>6, <1>1 DEF HeldOf, TodoOf, Working
  <2>. HIDE DEF q, T
  <2>11. ASSUME NEW e, e.conf = s.conf, e.captured = s.captured, e.table = T,
               e.written = s.written, e.tried = s.tried, e.kept = K, e.shared = s.shared
         PROVE  CommandInv(e, q)
    <3>1. q.failed \/ ((k.failed => q.failed) /\ \A t \in e.table : t.id # k.row.id)
        BY <2>7, <2>9, <2>11
    <3>. QED
        BY <3>1, <2>5, <2>6, <2>9, <2>11, <1>1, RestIs
  <2>12. K \in {s.kept, s.kept \union {n}}
    OBVIOUS
  <2>. HIDE DEF K
  <2>. QED
    BY ZenonT(90), <2>5, <2>8, <2>9, <2>10, <2>11, <2>12, <1>1, DlqSettles
<1>. QED
    BY <1>3, <1>4 DEF DQ!Acknowledge, DQ!Cmd

\* A command dies: the row it was about to delete stays, and this is noted.
LEMMA DlqCrash ==
  ASSUME DlqBounds, DlqInv(s), NEW o \in DQ!Operators, DQ!Crash(o)
  PROVE  DlqInv(s')
<1>. DEFINE k == s.cmd[o]
            n == k.row.id
            q == DQ!NoCommand
<1>1. q \in Commands /\ HeldOf(q) = {} /\ \A e : CommandInv(e, q)
    BY NoCommandIs, NoCommandInv
<1>. HIDE DEF q
<1>2. s' = [s EXCEPT !.cmd[o] = q,
                     !.kept = IF k.pc = "ack" THEN @ \union {n} ELSE @]
    BY SMTT(60) DEF DQ!Crash, DQ!Cmd, q
<1>3. CASE k.pc = "ack"
  <2>. DEFINE T == s.table
              K == s.kept \union {n}
  <2>1. s' = [s EXCEPT !.table = T, !.kept = K, !.cmd[o] = q]
    BY <1>2, <1>3 DEF DlqInv, DlqTyped
  <2>2. T \subseteq s.table /\ \A r \in s.table : r.id # n => r \in T
    OBVIOUS
  <2>3. K \in {s.kept, s.kept \union {n}} /\ n \in K
    OBVIOUS
  <2>4. HeldOf(q) \subseteq HeldOf(k)
    BY <1>1
  <2>. HIDE DEF T, K
  <2>. QED
    BY ZenonT(90), <2>1, <2>2, <2>3, <2>4, <1>1, <1>3, DlqSettles
<1>4. CASE k.pc # "ack"
  <2>1. s' = [s EXCEPT !.cmd[o] = q]
    BY <1>2, <1>4 DEF DlqInv, DlqTyped
  <2>2. HeldOf(q) \subseteq HeldOf(k) /\ CommandInv(s, q)
    BY <1>1
  <2>. QED
    BY <2>1, <2>2, <1>1, <1>4, DlqQuiet
<1>. QED
    BY <1>3, <1>4

\* A command is through with its rows and tells how it went; then it is gone.
LEMMA DlqFinish ==
  ASSUME DlqBounds, DlqInv(s), NEW o \in DQ!Operators, DQ!Finish(o) \/ DQ!Leave(o)
  PROVE  DlqInv(s')
<1>. DEFINE k == s.cmd[o]
<1>1. k \in Commands /\ CommandInv(s, k) /\ k.failed \in BOOLEAN
    BY HeldAre DEF DlqInv, DlqTyped
<1>2. CASE DQ!Finish(o)
  <2>. DEFINE pc == IF k.failed THEN "exit1" ELSE "exit0"
              q == [k EXCEPT !.pc = pc]
  <2>1. k.pc = "next" /\ k.todo = <<>>
    BY <1>2 DEF DQ!Finish, DQ!Cmd
  <2>2. s' = [s EXCEPT !.cmd[o] = q]
    BY <1>2 DEF DQ!Finish, DQ!Cmd, DlqInv, DlqTyped
  <2>3. pc \in {"exit0", "exit1"} /\ (pc = "exit0" => ~k.failed)
    BY <1>1
  <2>. HIDE DEF pc
  <2>4. /\ q \in Commands /\ q.pc = pc /\ q.todo = k.todo /\ q.row = k.row
        /\ q.took = k.took /\ q.failed = k.failed
    BY <2>3, <1>1, GoesTo
  <2>. HIDE DEF q
  <2>5. TodoOf(q) = TodoOf(k) /\ HeldOf(q) = HeldOf(k) /\ q.pc \notin Working
    BY <2>1, <2>3, <2>4 DEF TodoOf, HeldOf, Working
  <2>6. k.pc \notin Working /\ k.pc # "ack"
    BY <2>1 DEF Working
  <2>7. CommandIs(s, q)
    BY <2>1, <2>3, <2>4, <2>5, <2>6, <1>1 DEF CommandInv, CommandIs
  <2>8. Fresh(s, q) /\ Unwritten(s, q)
    BY <2>3, <2>4, <2>5, <2>6, <1>1 DEF CommandInv, Fresh, Unwritten
  <2>9. TookIs(s, q)
    BY <2>4, <2>5, <1>1 DEF CommandInv, TookIs
  <2>10. CommandInv(s, q)
    BY <2>7, <2>8, <2>9 DEF CommandInv
  <2>. QED
    BY <2>2, <2>4, <2>5, <2>6, <2>10, DlqQuiet
<1>3. CASE DQ!Leave(o)
  <2>. DEFINE q == DQ!NoCommand
  <2>1. q \in Commands /\ HeldOf(q) = {} /\ CommandInv(s, q)
    BY NoCommandIs, NoCommandInv
  <2>. HIDE DEF q
  <2>2. s' = [s EXCEPT !.cmd[o] = q] /\ k.pc # "ack"
    BY <1>3 DEF DQ!Leave, DQ!Cmd, q
  <2>. QED
    BY <2>1, <2>2, DlqQuiet
<1>. QED
    BY <1>2, <1>3

\* A command starts: it reads the rows that are there and have attempts left.
LEMMA DlqStart ==
  ASSUME DlqBounds, DlqInv(s), NEW o \in DQ!Operators, DQ!Start(o)
  PROVE  DlqInv(s')
<1>. DEFINE ids(q) == {r.id : r \in DQ!Range(q)}
<1>1. s.cmd[o].pc = "idle"
    BY SMTT(60) DEF DQ!Start, DQ!Cmd
<1>2. PICK rows \in DQ!Stream :
        s' = [s EXCEPT !.started = @ + 1,
                       !.cmd[o] = [DQ!NoCommand EXCEPT !.pc = "next", !.todo = rows,
                                                       !.took = ids(rows)],
                       !.shared = @ \union UNION {ids(rows) \intersect DQ!Held(p) :
                                                  p \in DQ!Operators \ {o}}]
    BY ZenonT(90) DEF DQ!Start
<1>3. /\ rows \in Seq(DlqRows)
      /\ \A i \in 1 .. Len(rows) :
           rows[i] \in s.table /\ (s.conf.max = 0 \/ rows[i].attempt < s.conf.max)
      /\ \A i, j \in 1 .. Len(rows) : i # j => rows[i].id # rows[j].id
      /\ DQ!Range(rows) = {rows[i] : i \in 1 .. Len(rows)}
    BY StreamIs DEF DlqInv, Promises
<1>. DEFINE mine == ids(rows)
            S == s.shared \union UNION {mine \intersect DQ!Held(p) : p \in DQ!Operators \ {o}}
            q == [DQ!NoCommand EXCEPT !.pc = "next", !.todo = rows, !.took = mine]
            c == [s.cmd EXCEPT ![o] = q]
            e == [conf |-> s.conf, captured |-> s.captured, table |-> s.table,
                  started |-> s.started + 1, cmd |-> c, written |-> s.written,
                  tried |-> s.tried, kept |-> s.kept, shared |-> S]
<1>4. s' = e
  <2>. HIDE DEF q, mine
  <2>1. s' = [s EXCEPT !.started = @ + 1, !.cmd[o] = q, !.shared = S]
    BY <1>2 DEF q, mine
  <2>. QED
    BY <2>1 DEF DlqInv, DlqTyped
<1>5. s.table \subseteq DlqRows /\ s.cmd \in [DQ!Operators -> Commands] /\ s.shared \subseteq Nat
    BY DEF DlqInv, DlqTyped
<1>6. mine \subseteq Nat /\ (\A i \in mine : \E j \in 1 .. Len(rows) : rows[j].id = i)
      /\ \A j \in 1 .. Len(rows) : rows[j].id \in mine
    BY SMTT(60), <1>3, <1>5 DEF DlqRows
<1>. HIDE DEF mine
<1>7. q = [pc |-> "next", todo |-> rows, row |-> DQ!NoRow, failed |-> FALSE, took |-> mine]
  <2>. DEFINE k == DQ!NoCommand
  <2>1. k \in Commands /\ k.row = DQ!NoRow /\ k.failed = FALSE
    BY NoCommandIs DEF DQ!NoCommand
  <2>. HIDE DEF k
  <2>2. k = [pc |-> k.pc, todo |-> k.todo, row |-> k.row, failed |-> k.failed,
             took |-> k.took]
    BY <2>1 DEF Commands
  <2>. DEFINE k1 == [k EXCEPT !.pc = "next"]
              k2 == [k1 EXCEPT !.todo = rows]
              k3 == [k2 EXCEPT !.took = mine]
  <2>3. k1 = [pc |-> "next", todo |-> k.todo, row |-> k.row, failed |-> k.failed,
              took |-> k.took]
    BY <2>2
  <2>. HIDE DEF k1
  <2>4. k2 = [pc |-> "next", todo |-> rows, row |-> k.row, failed |-> k.failed,
              took |-> k.took]
    BY <2>3
  <2>. HIDE DEF k2
  <2>5. k3 = [pc |-> "next", todo |-> rows, row |-> k.row, failed |-> k.failed, took |-> mine]
    BY <2>4
  <2>6. q = k3
    BY DEF k, k1, k2
  <2>. QED
    BY <2>1, <2>5, <2>6
<1>8. q.pc = "next" /\ q.todo = rows /\ q.row = DQ!NoRow /\ q.took = mine
    BY <1>7
<1>9. q \in Commands
    BY <1>3, <1>6, <1>7, NoCommandIs DEF Commands, DQ!NoRow, DlqRows
<1>. HIDE DEF q
<1>10. c \in [DQ!Operators -> Commands] /\ c[o] = q
       /\ \A p \in DQ!Operators : p # o => c[p] = s.cmd[p]
    BY <1>5, <1>9
<1>11. s.shared \subseteq S /\ S \subseteq Nat
    BY <1>5, <1>6
<1>12. ASSUME NEW p \in DQ!Operators, p # o, NEW t \in HeldOf(s.cmd[p]), t.id \in mine
       PROVE  t.id \in S
  <2>1. s.cmd[p].todo \in Seq(DlqRows)
    BY <1>5, HeldAre
  <2>2. DQ!Range(s.cmd[p].todo) = TodoOf(s.cmd[p])
    BY <2>1 DEF DQ!Range, TodoOf
  <2>3. t.id \in DQ!Held(p)
    BY <2>2, <1>12 DEF HeldOf, DQ!Held, DQ!Cmd
  <2>. QED
    BY <2>3, <1>12
<1>. HIDE DEF S, c
<1>13. /\ e.conf = s.conf /\ e.captured = s.captured /\ e.table = s.table /\ e.cmd = c
       /\ e.written = s.written /\ e.tried = s.tried /\ e.kept = s.kept /\ e.shared = S
    OBVIOUS
<1>14. e = [conf |-> e.conf, captured |-> e.captured, table |-> e.table, started |-> e.started,
            cmd |-> e.cmd, written |-> e.written, tried |-> e.tried, kept |-> e.kept,
            shared |-> e.shared]
    OBVIOUS
<1>. HIDE DEF e
<1>15. DlqTyped(e)
    BY <1>10, <1>11, <1>13, <1>14 DEF DlqInv, DlqTyped
<1>16. TodoOf(q) = {rows[i] : i \in 1 .. Len(rows)} /\ HeldOf(q) = TodoOf(q)
       /\ q.pc \notin Working
    BY <1>8 DEF TodoOf, HeldOf, Working
<1>17. \A r \in HeldOf(q) : /\ r \in s.table /\ r.id \in mine
                            /\ s.conf.max = 0 \/ r.attempt < s.conf.max
    BY <1>3, <1>6, <1>16
<1>18. SharedIsNoted(e)
  <2>1. ASSUME NEW p \in DQ!Operators, p # o, NEW r \in HeldOf(q), NEW t \in HeldOf(s.cmd[p]),
               r.id = t.id
        PROVE  r.id \in S
    BY <2>1, <1>12, <1>17
  <2>2. ASSUME NEW p \in DQ!Operators, NEW u \in DQ!Operators, p # u, p # o, u # o,
               NEW r \in HeldOf(s.cmd[p]), NEW t \in HeldOf(s.cmd[u]), r.id = t.id
        PROVE  r.id \in S
    BY <2>2, <1>11 DEF DlqInv, Promises, SharedIsNoted
  <2>3. SUFFICES ASSUME NEW p \in DQ!Operators, NEW u \in DQ!Operators, p # u,
                        NEW r \in HeldOf(c[p]), NEW t \in HeldOf(c[u]), r.id = t.id
                 PROVE  r.id \in S
    BY <1>13 DEF SharedIsNoted
  <2>4. CASE p = o
    BY <2>1, <2>3, <2>4, <1>10
  <2>5. CASE u = o
    BY <2>1, <2>3, <2>5, <1>10
  <2>. QED
    BY <2>2, <2>3, <2>4, <2>5, <1>10
<1>19. WritesAreNoted(e)
    BY <1>1, <1>10, <1>11, <1>13 DEF DlqInv, Promises, WritesAreNoted
<1>20. RowsDiffer(e) /\ Untouched(e) /\ NothingGone(e)
    BY <1>13 DEF DlqInv, Promises, RowsDiffer, Untouched, NothingGone
<1>21. Counted(e) /\ Bounded(e) /\ TwiceIsNoted(e)
    BY <1>11, <1>13 DEF DlqInv, Promises, Counted, Bounded, TwiceIsNoted
<1>22. ASSUME NEW p \in DQ!Operators, p # o
       PROVE  CommandInv(e, s.cmd[p])
  <2>. DEFINE k == s.cmd[p]
  <2>1. CommandInv(s, k)
    BY DEF DlqInv
  <2>. HIDE DEF k
  <2>2. CommandIs(e, k) /\ TookIs(e, k)
    BY <2>1, <1>13 DEF CommandInv, CommandIs, TookIs
  <2>3. Fresh(e, k)
    BY <2>1, <1>11, <1>13 DEF CommandInv, Fresh
  <2>4. Unwritten(e, k)
    BY <2>1, <1>11, <1>13 DEF CommandInv, Unwritten
  <2>. QED
    BY <2>2, <2>3, <2>4 DEF CommandInv, k
<1>23. CommandInv(e, q)
  <2>1. CommandIs(e, q)
    BY <1>3, <1>8, <1>13, <1>16, <1>17 DEF CommandIs, DlqInv, Promises, RowsDiffer
  <2>2. Fresh(e, q)
    <3>1. ASSUME NEW r \in TodoOf(q), r.id \notin S
          PROVE  /\ s.tried[r.id] <= r.attempt
                 /\ \A t \in s.table : t.id = r.id => t.attempt = r.attempt
      <4>1. r \in s.table /\ r.id \notin s.shared
        BY <3>1, <1>11, <1>16, <1>17
      <4>2. r.attempt >= s.tried[r.id]
        BY <4>1 DEF DlqInv, Promises, Counted
      <4>3. \A t \in s.table : t.id = r.id => t = r
        BY <4>1 DEF DlqInv, Promises, RowsDiffer
      <4>4. s.tried[r.id] \in Nat /\ r.attempt \in Nat
        BY <4>1, <1>5, DlqKinds DEF DlqRows, DlqInv, DlqTyped, Promises, RowsDiffer
      <4>. QED
        BY <4>2, <4>3, <4>4
    <3>2. s.conf.max > 0 => \A r \in HeldOf(q) : r.attempt < s.conf.max
        BY <1>17
    <3>. QED
        BY <3>1, <3>2, <1>13, <1>16 DEF Fresh
  <2>3. Unwritten(e, q)
    <3>1. ASSUME NEW r \in HeldOf(q), r.id \notin s.kept \union S
          PROVE  s.written[r.id] = 0
      <4>1. r \in s.table /\ r.id \notin s.kept \union s.shared
        BY <3>1, <1>11, <1>17
      <4>2. ASSUME NEW p \in DQ!Operators, s.cmd[p].pc = "ack", s.cmd[p].row.id = r.id
            PROVE  FALSE
        <5>1. p # o /\ s.cmd[p].row \in HeldOf(s.cmd[p])
            BY <4>2, <1>1, <1>5, HeldAre DEF Working
        <5>2. s.cmd[p].row.id \in mine
            BY <4>2, <3>1, <1>17
        <5>. QED
            BY <5>1, <5>2, <4>2, <3>1, <1>12
      <4>. QED
        BY <4>1, <4>2 DEF DlqInv, Promises, WritesAreNoted
    <3>. QED
        BY <3>1, <1>8, <1>13 DEF Unwritten
  <2>4. TookIs(e, q)
    <3>1. \A i \in mine : i \in 1 .. s.captured /\ \E r \in HeldOf(q) : r.id = i
      <4>1. SUFFICES ASSUME NEW i \in mine
                     PROVE  i \in 1 .. s.captured /\ \E r \in HeldOf(q) : r.id = i
        OBVIOUS
      <4>2. PICK j \in 1 .. Len(rows) : rows[j].id = i
        BY <1>6
      <4>3. rows[j] \in s.table /\ rows[j] \in HeldOf(q)
        BY <1>3, <1>16
      <4>. QED
        BY <4>2, <4>3 DEF DlqInv, Promises, RowsDiffer
    <3>. QED
        BY <3>1, <1>8, <1>13 DEF TookIs
  <2>. QED
    BY <2>1, <2>2, <2>3, <2>4 DEF CommandInv
<1>24. \A p \in DQ!Operators : CommandInv(e, e.cmd[p])
    BY <1>10, <1>13, <1>22, <1>23
<1>25. DlqInv(e)
    BY <1>15, <1>18, <1>19, <1>20, <1>21, <1>24 DEF DlqInv, Promises
<1>. QED
    BY <1>4, <1>25 DEF e

\* A pipeline captures a row: nobody has held it or tried it before.
LEMMA DlqCapture ==
  ASSUME DlqBounds, DlqInv(s), DQ!Capture
  PROVE  DlqInv(s')
<1>. DEFINE n == s.captured + 1
            new == [id |-> n, attempt |-> 0]
            T == s.table \union {new}
            e == [conf |-> s.conf, captured |-> n, table |-> T, started |-> s.started,
                  cmd |-> s.cmd, written |-> s.written, tried |-> s.tried, kept |-> s.kept,
                  shared |-> s.shared]
<1>1. s' = e
    BY DEF DQ!Capture, DlqInv, DlqTyped
<1>2. /\ s.captured \in Nat /\ s.captured < Len(s.conf.kinds) /\ Len(s.conf.kinds) \in Nat
      /\ DOMAIN s.conf.kinds = 1 .. Len(s.conf.kinds) /\ s.table \subseteq DlqRows
    BY DlqKinds DEF DQ!Capture, DlqInv, DlqTyped
<1>3. n \in Nat /\ n \in DOMAIN s.conf.kinds /\ n > s.captured /\ new \in DlqRows
      /\ new.id = n /\ new.attempt = 0
    BY <1>2 DEF DlqRows
<1>4. \A r \in s.table : r.id \in 1 .. s.captured /\ r.id # n
    BY <1>2, <1>3 DEF DlqInv, Promises, RowsDiffer
<1>5. s.tried[n] = 0 /\ s.written[n] = 0
    BY <1>3 DEF DlqInv, Promises, Untouched
<1>6. /\ e.conf = s.conf /\ e.captured = n /\ e.table = T /\ e.cmd = s.cmd
      /\ e.written = s.written /\ e.tried = s.tried /\ e.kept = s.kept /\ e.shared = s.shared
      /\ e.started = s.started
    OBVIOUS
<1>7. T \subseteq DlqRows /\ new \in T
    BY <1>2, <1>3
<1>8. e = [conf |-> e.conf, captured |-> e.captured, table |-> e.table, started |-> e.started,
           cmd |-> e.cmd, written |-> e.written, tried |-> e.tried, kept |-> e.kept,
           shared |-> e.shared]
    BY <1>6
<1>. HIDE DEF e
<1>9. DlqTyped(e)
    BY <1>3, <1>6, <1>7, <1>8 DEF DlqInv, DlqTyped
<1>10. RowsDiffer(e)
    BY <1>2, <1>3, <1>4, <1>6 DEF DlqInv, Promises, RowsDiffer
<1>11. SharedIsNoted(e)
    BY <1>6 DEF DlqInv, Promises, SharedIsNoted
<1>12. WritesAreNoted(e)
    BY <1>3, <1>5, <1>6 DEF DlqInv, Promises, WritesAreNoted
<1>13. Untouched(e)
    BY SMTT(60), <1>2, <1>6 DEF DlqInv, Promises, Untouched
<1>14. NothingGone(e)
  <2>1. SUFFICES ASSUME NEW i \in 1 .. n
                 PROVE  (\E r \in T : r.id = i) \/ s.written[i] > 0
    BY <1>6 DEF NothingGone
  <2>2. CASE i = n
    BY <2>2, <1>3, <1>7
  <2>3. CASE i # n
    <3>1. i \in 1 .. s.captured
        BY <2>1, <2>3, <1>2
    <3>. QED
        BY <3>1 DEF DlqInv, Promises, NothingGone
  <2>. QED
    BY <2>2, <2>3
<1>15. Counted(e)
    BY <1>3, <1>5, <1>6 DEF DlqInv, Promises, Counted
<1>16. Bounded(e) /\ TwiceIsNoted(e)
    BY <1>6 DEF DlqInv, Promises, Bounded, TwiceIsNoted
<1>17. ASSUME NEW p \in DQ!Operators
       PROVE  CommandInv(e, s.cmd[p])
  <2>. DEFINE k == s.cmd[p]
  <2>1. CommandInv(s, k) /\ k \in Commands
    BY DEF DlqInv, DlqTyped
  <2>2. TodoOf(k) \subseteq HeldOf(k) /\ (k.pc \in Working => k.row \in HeldOf(k))
    BY <2>1, HeldAre
  <2>3. \A r \in HeldOf(k) : r.id \in 1 .. s.captured /\ r.id # n
    BY <2>1, <1>2 DEF CommandInv, CommandIs
  <2>. HIDE DEF k, new
  <2>4. CommandIs(e, k)
    <3>1. \A r \in HeldOf(k) : r.id \in 1 .. n
        BY <2>3, <1>2
    <3>. QED
        BY <3>1, <2>1, <1>6 DEF CommandInv, CommandIs
  <2>5. Fresh(e, k)
    <3>1. ASSUME NEW r \in HeldOf(k), NEW t \in T, t.id = r.id
          PROVE  t \in s.table
        BY <3>1, <2>3, <1>3
    <3>. QED
        BY <3>1, <2>1, <2>2, <1>6 DEF CommandInv, Fresh
  <2>6. Unwritten(e, k)
    BY <2>1, <1>6 DEF CommandInv, Unwritten
  <2>7. TookIs(e, k)
    <3>1. ASSUME NEW i \in k.took
          PROVE  i \in 1 .. n /\ ((\A t \in s.table : t.id # i) => \A t \in T : t.id # i)
      <4>1. i \in 1 .. s.captured
        BY <2>1 DEF CommandInv, TookIs
      <4>2. i \in 1 .. n /\ i # n
        BY <4>1, <1>2
      <4>. QED
        BY <4>2, <1>3
    <3>. QED
        BY <3>1, <2>1, <1>6 DEF CommandInv, TookIs
  <2>. QED
    BY <2>4, <2>5, <2>6, <2>7 DEF CommandInv, k
<1>18. DlqInv(e)
    BY <1>6, <1>9, <1>10, <1>11, <1>12, <1>13, <1>14, <1>15, <1>16, <1>17
       DEF DlqInv, Promises
<1>. QED
    BY <1>1, <1>18 DEF e

\* The empty table.
LEMMA DlqInit ==
  ASSUME DlqBounds, DQ!Init
  PROVE  DlqInv(s)
<1>1. PICK c \in DQ!Configs :
        s = [conf |-> c, captured |-> 0, table |-> {}, started |-> 0,
             cmd |-> [o \in DQ!Operators |-> DQ!NoCommand],
             written |-> [i \in DOMAIN c.kinds |-> 0], tried |-> [i \in DOMAIN c.kinds |-> 0],
             kept |-> {}, shared |-> {}]
    BY DEF DQ!Init
<1>2. /\ s.conf = c /\ s.captured = 0 /\ s.table = {} /\ s.started = 0
      /\ s.cmd = [o \in DQ!Operators |-> DQ!NoCommand]
      /\ s.written = [i \in DOMAIN c.kinds |-> 0] /\ s.tried = [i \in DOMAIN c.kinds |-> 0]
      /\ s.kept = {} /\ s.shared = {}
    BY <1>1
<1>3. s = [conf |-> s.conf, captured |-> s.captured, table |-> s.table, started |-> s.started,
           cmd |-> s.cmd, written |-> s.written, tried |-> s.tried, kept |-> s.kept,
           shared |-> s.shared]
    BY <1>1, <1>2
<1>4. s.cmd \in [DQ!Operators -> Commands]
    BY <1>2, NoCommandIs
<1>5. DlqTyped(s)
    BY <1>2, <1>3, <1>4 DEF DlqTyped
<1>6. \A o \in DQ!Operators : s.cmd[o] = DQ!NoCommand /\ CommandInv(s, s.cmd[o])
    BY <1>2, NoCommandInv
<1>7. SharedIsNoted(s)
    BY <1>6, NoCommandIs DEF SharedIsNoted
<1>8. Len(s.conf.kinds) \in Nat
    BY <1>5, DlqKinds
<1>9. RowsDiffer(s) /\ WritesAreNoted(s) /\ Untouched(s) /\ NothingGone(s) /\ Counted(s)
    BY <1>2, <1>8 DEF RowsDiffer, WritesAreNoted, Untouched, NothingGone, Counted
<1>10. Bounded(s) /\ TwiceIsNoted(s)
    BY <1>2, <1>5, DlqKinds DEF Bounded, TwiceIsNoted
<1>. QED
    BY <1>5, <1>6, <1>7, <1>9, <1>10 DEF DlqInv, Promises

\* Every step of a pipeline or of a command keeps the invariant.
LEMMA DlqStep ==
  ASSUME DlqBounds, DlqInv(s), [DQ!Next]_s
  PROVE  DlqInv(s')
<1>1. CASE DQ!Capture
    BY <1>1, DlqCapture
<1>2. ASSUME NEW o \in DQ!Operators, DQ!Command(o)
      PROVE  DlqInv(s')
    BY <1>2, DlqStart, DlqTake, DlqMark, DlqRun, DlqAcknowledge, DlqFinish, DlqCrash
       DEF DQ!Command
<1>3. CASE DQ!Over \/ s' = s
    BY <1>3 DEF DQ!Over
<1>. QED
    BY <1>1, <1>2, <1>3 DEF DQ!Next

\* What the invariant says of the table: the properties of DlqReplay.
LEMMA DlqHolds ==
  ASSUME DlqBounds, DlqInv(s)
  PROVE  /\ DQ!NothingVanishes /\ DQ!AttemptsAreCounted /\ DQ!AttemptsBounded
         /\ DQ!WrittenTwiceIsKnown /\ DQ!SuccessIsComplete
<1>1. DQ!NothingVanishes
    BY DEF DlqInv, Promises, NothingGone, DQ!NothingVanishes, DQ!InTable
<1>2. DQ!AttemptsAreCounted
    BY DEF DlqInv, Promises, Counted, DQ!AttemptsAreCounted
<1>3. DQ!AttemptsBounded
    BY DEF DlqInv, Promises, Bounded, DQ!AttemptsBounded, DQ!RowIds
<1>4. DQ!WrittenTwiceIsKnown
    BY DEF DlqInv, Promises, TwiceIsNoted, DQ!WrittenTwiceIsKnown, DQ!RowIds
<1>5. DQ!SuccessIsComplete
  <2>1. SUFFICES ASSUME NEW o \in DQ!Operators, s.cmd[o].pc = "exit0", NEW i \in s.cmd[o].took,
                        NEW t \in s.table, t.id = i
                 PROVE  FALSE
    BY DEF DQ!SuccessIsComplete, DQ!Cmd, DQ!InTable
  <2>. DEFINE k == s.cmd[o]
  <2>2. k \in Commands /\ CommandInv(s, k)
    BY DEF DlqInv, DlqTyped
  <2>3. ~k.failed /\ k.todo = <<>> /\ k.pc \notin Working
    BY <2>1, <2>2 DEF CommandInv, CommandIs, Working
  <2>4. HeldOf(k) = {}
    BY <2>2, <2>3, HeldAre
  <2>. QED
    BY <2>1, <2>2, <2>3, <2>4 DEF CommandInv, TookIs
<1>. QED
    BY <1>1, <1>2, <1>3, <1>4, <1>5

\* Whatever the pipelines capture and however the commands interleave, fail or die, the
\* promises of the table hold: a row leaves it only after its record was written, attempts are
\* counted and bounded, a second write is known, and exit status 0 means that the rows are gone.
THEOREM DlqAlways ==
  ASSUME DlqBounds
  PROVE  DQ!Init /\ [][DQ!Next]_s =>
           [](DQ!NothingVanishes /\ DQ!AttemptsAreCounted /\ DQ!AttemptsBounded
              /\ DQ!WrittenTwiceIsKnown /\ DQ!SuccessIsComplete)
<1>1. DQ!Init => DlqInv(s)
    BY DlqInit
<1>2. DlqInv(s) /\ [DQ!Next]_s => DlqInv(s)'
  <2>1. SUFFICES ASSUME DlqInv(s), [DQ!Next]_s
                 PROVE  DlqInv(s')
    BY ZenonT(90) DEF DlqInv, DlqTyped, DlqRows, Commands, Working, Promises, CommandInv,
       CommandIs, Fresh,
           Unwritten, TookIs, RowsDiffer, SharedIsNoted, WritesAreNoted, Untouched, NothingGone,
           Counted, Bounded, TwiceIsNoted, HeldOf, TodoOf, DQ!Operators, DQ!Configs, DQ!NoRow
  <2>. QED
    BY SMTT(60), <2>1, DlqStep
<1>3. DlqInv(s) =>
        /\ DQ!NothingVanishes /\ DQ!AttemptsAreCounted /\ DQ!AttemptsBounded
        /\ DQ!WrittenTwiceIsKnown /\ DQ!SuccessIsComplete
    BY DlqHolds
<1>. QED
    BY <1>1, <1>2, <1>3, PTL

-----------------------------------------------------------------------------
(* OrderCenter.  The state is d; t is the topic, c the configuration, p    *)
(* the producer.                                                           *)

\* Any number of events.
OrderBounds == NEvents \in Nat

Messages == [ev : Nat, run : {"run", "replay"}, bad : BOOLEAN]
States == [ev : Nat, run : {"none", "run", "replay"}, off : Nat]
Cursors == [at : Nat, off : Nat]
Producers == [pc : {"begin", "send", "over"}, put : Nat, sent : Nat]
Verifiers == [pc : {"idle", "redis", "pass"}, seen : States]
Verdicts == {"none", "publishing", "published", "failed"}
Fixers == {"idle", "publish", "published", "failed", "over"}
Reconcilers == {"idle", "complete", "over"}

Notes == {"requested", "failed", "published", "reconciled"}
Trails == {<<>>, <<"requested">>, <<"requested", "failed">>, <<"requested", "published">>,
           <<"requested", "reconciled">>}

Orders ==
  [conf : OC!Configs, faults : Nat, topic : Seq(Messages), manifest : Verdicts,
   prod : Producers, tidy : {"idle", "update"}, ledger : SUBSET Nat, current : States,
   cache : States, pg : Cursors, rd : Cursors, dead : SUBSET Nat, verify : Verifiers,
   request : Verdicts, audit : Trails, fixer : Fixers, fixes : Reconcilers]

\* A message that was sent twice.
Doubled(t) == \E o \in 1 .. Len(t) : o > 1 /\ t[o] = t[o - 1]

\* The producer's messages are its first events, in order; a repair comes after the message it
\* repairs, so that what the producer sends after it is newer.
Sends(c, t, p) ==
  /\ c.bad > 0 => c.fix = c.bad
  /\ p.put <= NEvents /\ p.sent <= p.put
  /\ \A o \in 1 .. Len(t) :
       IF t[o].run = "run" THEN t[o].ev \in 1 .. p.sent /\ (t[o].bad => t[o].ev = c.bad)
       ELSE t[o].ev = c.fix /\ ~t[o].bad /\ c.fix \in 1 .. p.sent
  /\ \A e \in 1 .. p.sent : \E o \in 1 .. Len(t) : t[o].run = "run" /\ t[o].ev = e
  /\ \A o, q \in 1 .. Len(t) : o < q /\ t[q].run = "run" =>
       /\ t[o].ev <= t[q].ev
       /\ t[o].ev = t[q].ev => t[o].run = "run" /\ Doubled(t)

\* What PostgreSQL has, and what its consumer has read.
Stored(t, ledger, dead, g) ==
  /\ \A o \in ledger : o \in 1 .. Len(t) /\ ~t[o].bad
  /\ \A o \in dead : o \in 1 .. Len(t) /\ t[o].bad
  /\ g.off <= g.at /\ g.at <= Len(t)
  /\ \A o \in 1 .. g.at : o \in ledger \/ o \in dead

\* What Redis has: a message at least as late as the ones its consumer has read.
Serves(t, cache, g) ==
  /\ g.off <= g.at /\ g.at <= Len(t)
  /\ \A o \in 1 .. g.at : t[o].bad \/ cache.off >= o
  /\ cache.off = 0 \/ (/\ cache.off \in 1 .. Len(t) /\ cache.ev = t[cache.off].ev
                       /\ cache.run = t[cache.off].run /\ ~t[cache.off].bad)

\* The current state is that of the newest event in the ledger.
Newest(t, ledger, current) ==
  /\ ledger = {} => current.ev = 0
  /\ ledger # {} => \E o \in ledger : t[o].ev = current.ev
  /\ \A o \in ledger : t[o].ev <= current.ev

\* The manifest, and the command that is about to complete it.
AllSent(t, p) == p.sent = NEvents \/ Doubled(t)
ManifestIs(t, p, manifest, tidy) ==
  manifest = "published" \/ tidy = "update" => AllSent(t, p)

\* The request, and the two that may complete it.
Repaired(t) == \E o \in 1 .. Len(t) : t[o].run = "replay"
RequestIs(c, t, p, request, fixer, fixes) ==
  /\ request = "published" \/ fixer = "published" \/ fixes = "complete" => Repaired(t)
  /\ fixer = "publish" => c.fix \in 1 .. p.sent

AuditIs(request, audit) ==
  /\ request = "none" => audit = <<>>
  /\ request = "publishing" => audit = <<"requested">>
  /\ request = "failed" => audit = <<"requested", "failed">>
  /\ request = "published" =>
        audit = <<"requested", "published">> \/ audit = <<"requested", "reconciled">>

\* What the verifier has seen.
HasAll(t, ledger) ==
  \A e \in OC!Events : \E o \in ledger : t[o].run = "run" /\ t[o].ev = e
VerifiedIs(t, ledger, verify) == verify.pc # "idle" => HasAll(t, ledger)

OrderInv(d) ==
  /\ d \in Orders
  /\ Sends(d.conf, d.topic, d.prod)
  /\ Stored(d.topic, d.ledger, d.dead, d.pg) /\ Serves(d.topic, d.cache, d.rd)
  /\ Newest(d.topic, d.ledger, d.current)
  /\ ManifestIs(d.topic, d.prod, d.manifest, d.tidy)
  /\ RequestIs(d.conf, d.topic, d.prod, d.request, d.fixer, d.fixes)
  /\ AuditIs(d.request, d.audit) /\ VerifiedIs(d.topic, d.ledger, d.verify)

\* The topic only grows.
Grows(t, u) ==
  /\ t \in Seq(Messages) /\ u \in Seq(Messages) /\ Len(t) <= Len(u)
  /\ \A o \in 1 .. Len(t) : u[o] = t[o]

\* What is true of a topic's messages stays true as it grows.
LEMMA TopicGrows ==
  ASSUME NEW t, NEW u, Grows(t, u)
  PROVE  /\ Doubled(t) => Doubled(u)
         /\ Repaired(t) => Repaired(u)
         /\ \A ledger, dead, g :
              g \in Cursors /\ Stored(t, ledger, dead, g) => Stored(u, ledger, dead, g)
         /\ \A cache \in States, g \in Cursors : Serves(t, cache, g) => Serves(u, cache, g)
         /\ \A ledger, dead, current, g :
              Stored(t, ledger, dead, g) /\ Newest(t, ledger, current) => Newest(u, ledger, current)
         /\ \A ledger, dead, verify, g :
              Stored(t, ledger, dead, g) /\ VerifiedIs(t, ledger, verify) =>
                VerifiedIs(u, ledger, verify)
<1>1. /\ Len(t) \in Nat /\ Len(u) \in Nat /\ Len(t) <= Len(u)
      /\ \A o \in 1 .. Len(t) : o \in 1 .. Len(u) /\ u[o] = t[o]
    BY DEF Grows
<1>2. Doubled(t) => Doubled(u)
  <2>1. SUFFICES ASSUME NEW o \in 1 .. Len(t), o > 1, t[o] = t[o - 1]
                 PROVE  u[o] = u[o - 1]
    BY <1>1 DEF Doubled
  <2>2. o - 1 \in 1 .. Len(t)
    BY <2>1, <1>1
  <2>. QED
    BY <2>1, <2>2, <1>1
<1>3. Repaired(t) => Repaired(u)
    BY <1>1 DEF Repaired
<1>4. ASSUME NEW ledger, NEW dead, NEW g, g \in Cursors, Stored(t, ledger, dead, g)
      PROVE  Stored(u, ledger, dead, g)
    BY <1>1, <1>4 DEF Stored, Cursors
<1>5. ASSUME NEW cache \in States, NEW g \in Cursors, Serves(t, cache, g)
      PROVE  Serves(u, cache, g)
    BY SMTT(60), <1>1, <1>5 DEF Serves, Cursors, States
<1>6. ASSUME NEW ledger, NEW dead, NEW current, NEW g, Stored(t, ledger, dead, g),
             Newest(t, ledger, current)
      PROVE  Newest(u, ledger, current)
    BY <1>1, <1>6 DEF Stored, Newest
<1>7. ASSUME NEW ledger, NEW dead, NEW verify, NEW g, Stored(t, ledger, dead, g),
             VerifiedIs(t, ledger, verify)
      PROVE  VerifiedIs(u, ledger, verify)
    BY <1>1, <1>7 DEF Stored, VerifiedIs, HasAll
<1>. QED
    BY <1>2, <1>3, <1>4, <1>5, <1>6, <1>7

\* A fault is counted.
LEMMA OrderFaults ==
  ASSUME NEW d, OrderInv(d), NEW n \in Nat, NEW e, e = [d EXCEPT !.faults = n]
  PROVE  OrderInv(e)
<1>1. d \in Orders
    BY DEF OrderInv
<1>2. /\ e.faults = n /\ e.conf = d.conf /\ e.topic = d.topic /\ e.manifest = d.manifest
      /\ e.prod = d.prod /\ e.tidy = d.tidy /\ e.ledger = d.ledger /\ e.current = d.current
      /\ e.cache = d.cache /\ e.pg = d.pg /\ e.rd = d.rd /\ e.dead = d.dead
      /\ e.verify = d.verify /\ e.request = d.request /\ e.audit = d.audit /\ e.fixer = d.fixer
      /\ e.fixes = d.fixes
    BY <1>1 DEF Orders
<1>3. e \in Orders
    BY <1>1 DEF Orders
<1>. QED
    BY <1>2, <1>3 DEF OrderInv

\* A message is sent, or the producer or the repair goes on without one.
Publishes(d, e, t, p, k) ==
  /\ OrderInv(d)
  /\ t \in Seq(Messages) /\ p \in Producers /\ k \in Fixers
  /\ Grows(d.topic, t) /\ Sends(d.conf, t, p)
  /\ d.prod.sent <= p.sent
  /\ AllSent(d.topic, d.prod) => AllSent(t, p)
  /\ k = "published" => Repaired(t)
  /\ k = "publish" => d.fixer = "publish"
  /\ e = [d EXCEPT !.topic = t, !.prod = p, !.fixer = k]

\* The invariant survives it.
LEMMA OrderPublishes ==
  ASSUME NEW d, NEW e, NEW t, NEW p, NEW k, Publishes(d, e, t, p, k)
  PROVE  OrderInv(e)
<1>1. d \in Orders
    BY DEF OrderInv, Publishes
<1>2. /\ e.topic = t /\ e.prod = p /\ e.fixer = k /\ e.conf = d.conf
      /\ e.faults = d.faults /\ e.manifest = d.manifest /\ e.tidy = d.tidy /\ e.ledger = d.ledger
      /\ e.current = d.current /\ e.cache = d.cache /\ e.pg = d.pg /\ e.rd = d.rd
      /\ e.dead = d.dead /\ e.verify = d.verify /\ e.request = d.request /\ e.audit = d.audit
      /\ e.fixes = d.fixes
    BY <1>1 DEF Orders, Publishes
<1>3. e \in Orders
    BY <1>1 DEF Orders, Publishes
<1>. QED
    BY SMTT(60), <1>2, <1>3, TopicGrows DEF OrderInv, Orders, Producers, ManifestIs, RequestIs,
       Publishes

\* The manifest is written, or about to be.
Manifests(d, e, m, p, y) ==
  /\ OrderInv(d)
  /\ m \in Verdicts /\ p \in Producers /\ y \in {"idle", "update"}
  /\ p.put = d.prod.put /\ p.sent = d.prod.sent
  /\ m = "published" \/ y = "update" => AllSent(d.topic, d.prod)
  /\ e = [d EXCEPT !.manifest = m, !.prod = p, !.tidy = y]

\* The invariant survives it.
LEMMA OrderManifests ==
  ASSUME NEW d, NEW e, NEW m, NEW p, NEW y, Manifests(d, e, m, p, y)
  PROVE  OrderInv(e)
<1>1. d \in Orders
    BY DEF OrderInv, Manifests
<1>2. /\ e.manifest = m /\ e.prod = p /\ e.tidy = y /\ e.conf = d.conf
      /\ e.faults = d.faults /\ e.topic = d.topic /\ e.ledger = d.ledger /\ e.current = d.current
      /\ e.cache = d.cache /\ e.pg = d.pg /\ e.rd = d.rd /\ e.dead = d.dead
      /\ e.verify = d.verify /\ e.request = d.request /\ e.audit = d.audit /\ e.fixer = d.fixer
      /\ e.fixes = d.fixes
    BY <1>1 DEF Orders, Manifests
<1>3. e \in Orders
    BY <1>1 DEF Orders, Manifests
<1>. QED
    BY <1>2, <1>3 DEF OrderInv, Sends, ManifestIs, AllSent, RequestIs, Manifests

\* A message goes to PostgreSQL, or its consumer starts again.
Projects(d, e, l, u, g, x) ==
  /\ OrderInv(d)
  /\ l \in SUBSET Nat /\ u \in States /\ g \in Cursors /\ x \in SUBSET Nat
  /\ d.ledger \subseteq l /\ Stored(d.topic, l, x, g) /\ Newest(d.topic, l, u)
  /\ e = [d EXCEPT !.ledger = l, !.current = u, !.pg = g, !.dead = x]

\* The invariant survives it.
LEMMA OrderProjects ==
  ASSUME NEW d, NEW e, NEW l, NEW u, NEW g, NEW x, Projects(d, e, l, u, g, x)
  PROVE  OrderInv(e)
<1>1. d \in Orders
    BY DEF OrderInv, Projects
<1>2. /\ e.ledger = l /\ e.current = u /\ e.pg = g /\ e.dead = x
      /\ e.conf = d.conf /\ e.faults = d.faults /\ e.topic = d.topic /\ e.manifest = d.manifest
      /\ e.prod = d.prod /\ e.tidy = d.tidy /\ e.cache = d.cache /\ e.rd = d.rd
      /\ e.verify = d.verify /\ e.request = d.request /\ e.audit = d.audit /\ e.fixer = d.fixer
      /\ e.fixes = d.fixes
    BY <1>1 DEF Orders, Projects
<1>3. e \in Orders
    BY <1>1 DEF Orders, Projects
<1>. QED
    BY <1>2, <1>3 DEF OrderInv, VerifiedIs, HasAll, Projects

\* A message goes to Redis, or its consumer starts again.
Caches(d, e, h, g, x) ==
  /\ OrderInv(d)
  /\ h \in States /\ g \in Cursors /\ x \in SUBSET Nat
  /\ Stored(d.topic, d.ledger, x, d.pg) /\ Serves(d.topic, h, g)
  /\ e = [d EXCEPT !.cache = h, !.rd = g, !.dead = x]

\* The invariant survives it.
LEMMA OrderCaches ==
  ASSUME NEW d, NEW e, NEW h, NEW g, NEW x, Caches(d, e, h, g, x)
  PROVE  OrderInv(e)
<1>1. d \in Orders
    BY DEF OrderInv, Caches
<1>2. /\ e.cache = h /\ e.rd = g /\ e.dead = x /\ e.conf = d.conf
      /\ e.faults = d.faults /\ e.topic = d.topic /\ e.manifest = d.manifest /\ e.prod = d.prod
      /\ e.tidy = d.tidy /\ e.ledger = d.ledger /\ e.current = d.current /\ e.pg = d.pg
      /\ e.verify = d.verify /\ e.request = d.request /\ e.audit = d.audit /\ e.fixer = d.fixer
      /\ e.fixes = d.fixes
    BY <1>1 DEF Orders, Caches
<1>3. e \in Orders
    BY <1>1 DEF Orders, Caches
<1>. QED
    BY <1>2, <1>3 DEF OrderInv, Caches

\* The verifier reads.
Verifies(d, e, v) ==
  /\ OrderInv(d)
  /\ v \in Verifiers
  /\ VerifiedIs(d.topic, d.ledger, v)
  /\ e = [d EXCEPT !.verify = v]

\* The invariant survives it.
LEMMA OrderVerifies ==
  ASSUME NEW d, NEW e, NEW v, Verifies(d, e, v)
  PROVE  OrderInv(e)
<1>1. d \in Orders
    BY DEF OrderInv, Verifies
<1>2. /\ e.verify = v /\ e.conf = d.conf /\ e.faults = d.faults /\ e.topic = d.topic
      /\ e.manifest = d.manifest /\ e.prod = d.prod /\ e.tidy = d.tidy /\ e.ledger = d.ledger
      /\ e.current = d.current /\ e.cache = d.cache /\ e.pg = d.pg /\ e.rd = d.rd
      /\ e.dead = d.dead /\ e.request = d.request /\ e.audit = d.audit /\ e.fixer = d.fixer
      /\ e.fixes = d.fixes
    BY <1>1 DEF Orders, Verifies
<1>3. e \in Orders
    BY <1>1 DEF Orders, Verifies
<1>. QED
    BY <1>2, <1>3 DEF OrderInv, Verifies

\* A command of the operator goes on.
Repairs(d, e, r, a, k, j) ==
  /\ OrderInv(d)
  /\ r \in Verdicts /\ a \in Trails /\ k \in Fixers /\ j \in Reconcilers
  /\ RequestIs(d.conf, d.topic, d.prod, r, k, j) /\ AuditIs(r, a)
  /\ e = [d EXCEPT !.request = r, !.audit = a, !.fixer = k, !.fixes = j]

\* The invariant survives it.
LEMMA OrderRepairs ==
  ASSUME NEW d, NEW e, NEW r, NEW a, NEW k, NEW j, Repairs(d, e, r, a, k, j)
  PROVE  OrderInv(e)
<1>1. d \in Orders
    BY DEF OrderInv, Repairs
<1>2. /\ e.request = r /\ e.audit = a /\ e.fixer = k /\ e.fixes = j
      /\ e.conf = d.conf /\ e.faults = d.faults /\ e.topic = d.topic /\ e.manifest = d.manifest
      /\ e.prod = d.prod /\ e.tidy = d.tidy /\ e.ledger = d.ledger /\ e.current = d.current
      /\ e.cache = d.cache /\ e.pg = d.pg /\ e.rd = d.rd /\ e.dead = d.dead
      /\ e.verify = d.verify
    BY <1>1 DEF Orders, Repairs
<1>3. e \in Orders
    BY <1>1 DEF Orders, Repairs
<1>. QED
    BY <1>2, <1>3 DEF OrderInv, Repairs

\* What the fields are, and the parts of the invariant.
LEMMA OrderFields ==
  ASSUME NEW d, OrderInv(d)
  PROVE  /\ d \in Orders
         /\ d.topic \in Seq(Messages) /\ Len(d.topic) \in Nat
         /\ \A o \in 1 .. Len(d.topic) : d.topic[o] \in Messages
         /\ d.prod \in Producers /\ d.prod.pc \in {"begin", "send", "over"}
         /\ d.prod.put \in Nat /\ d.prod.sent \in Nat
         /\ d.conf.bad \in 0 .. NEvents /\ d.conf.fix \in 1 .. NEvents
         /\ d.manifest \in Verdicts /\ d.tidy \in {"idle", "update"}
         /\ d.ledger \in SUBSET Nat /\ d.dead \in SUBSET Nat /\ d.current \in States
         /\ d.cache \in States /\ d.pg \in Cursors /\ d.rd \in Cursors
         /\ d.pg.at \in Nat /\ d.pg.off \in Nat /\ d.rd.at \in Nat /\ d.rd.off \in Nat
         /\ d.verify \in Verifiers /\ d.request \in Verdicts /\ d.audit \in Trails
         /\ d.fixer \in Fixers /\ d.fixes \in Reconcilers
         /\ Sends(d.conf, d.topic, d.prod)
         /\ Stored(d.topic, d.ledger, d.dead, d.pg) /\ Serves(d.topic, d.cache, d.rd)
         /\ Newest(d.topic, d.ledger, d.current)
         /\ ManifestIs(d.topic, d.prod, d.manifest, d.tidy)
         /\ RequestIs(d.conf, d.topic, d.prod, d.request, d.fixer, d.fixes)
         /\ AuditIs(d.request, d.audit) /\ VerifiedIs(d.topic, d.ledger, d.verify)
<1>1. d \in Orders
    BY DEF OrderInv
<1>2. /\ d.topic \in Seq(Messages) /\ d.prod \in Producers /\ d.conf \in OC!Configs
      /\ d.manifest \in Verdicts /\ d.tidy \in {"idle", "update"}
      /\ d.ledger \in SUBSET Nat /\ d.dead \in SUBSET Nat /\ d.current \in States
      /\ d.cache \in States /\ d.pg \in Cursors /\ d.rd \in Cursors
      /\ d.verify \in Verifiers /\ d.request \in Verdicts /\ d.audit \in Trails
      /\ d.fixer \in Fixers /\ d.fixes \in Reconcilers
    BY <1>1 DEF Orders
<1>3. /\ Len(d.topic) \in Nat
      /\ \A o \in 1 .. Len(d.topic) : d.topic[o] \in Messages
    BY <1>2
<1>4. /\ d.prod.pc \in {"begin", "send", "over"} /\ d.prod.put \in Nat /\ d.prod.sent \in Nat
      /\ d.pg.at \in Nat /\ d.pg.off \in Nat /\ d.rd.at \in Nat /\ d.rd.off \in Nat
    BY <1>2 DEF Producers, Cursors
<1>5. d.conf.bad \in 0 .. NEvents /\ d.conf.fix \in 1 .. NEvents
    BY <1>2 DEF OC!Configs, OC!Events
<1>. QED
    BY <1>1, <1>2, <1>3, <1>4, <1>5 DEF OrderInv

\* A call that may fail.
LEMMA OrderFault ==
  ASSUME NEW d, OrderInv(d), NEW e, e \in OC!Fault(d)
  PROVE  OrderInv(e)
<1>1. d.faults + 1 \in Nat /\ e = [d EXCEPT !.faults = d.faults + 1]
    BY DEF OC!Fault, OrderInv, Orders
<1>. QED
    BY <1>1, OrderFaults

\* producer.run begins and ends; the manifest says published only of a run that was sent.
LEMMA OrderProducer ==
  ASSUME OrderBounds, OrderInv(s), OC!Begin \/ OC!Published \/ OC!PublishFails
  PROVE  OrderInv(s')
<1>. DEFINE Ends(m, c) == [s EXCEPT !.manifest = m, !.prod.pc = c]
<1>1. ASSUME NEW m \in Verdicts, NEW c \in {"send", "over"},
             m = "published" => m = s.manifest \/ AllSent(s.topic, s.prod)
      PROVE  OrderInv(Ends(m, c))
  <2>. DEFINE p == [s.prod EXCEPT !.pc = c]
  <2>1. p \in Producers /\ p.put = s.prod.put /\ p.sent = s.prod.sent
      BY OrderFields DEF Producers
  <2>2. Ends(m, c) = [s EXCEPT !.manifest = m, !.prod = p, !.tidy = s.tidy]
      BY OrderFields DEF Orders
  <2>3. m = "published" \/ s.tidy = "update" => AllSent(s.topic, s.prod)
      BY <1>1, OrderFields DEF ManifestIs
  <2>4. s.tidy \in {"idle", "update"}
      BY OrderFields
  <2>. HIDE DEF p
  <2>5. Manifests(s, Ends(m, c), m, p, s.tidy)
      BY <1>1, <2>1, <2>2, <2>3, <2>4 DEF Manifests
  <2>. QED
      BY <2>5, OrderManifests
<1>2. s.manifest \in Verdicts
    BY OrderFields
<1>3. CASE OC!Begin
    BY <1>1, <1>3 DEF OC!Begin, Verdicts
<1>4. ASSUME OC!Published \/ OC!PublishFails
      PROVE  /\ \/ s' = Ends("published", "over") \/ s' \in OC!Fault(Ends(s.manifest, "over"))
                \/ s' \in OC!Fault(Ends("failed", "over"))
             /\ s' = Ends("published", "over") =>
                  AllSent(s.topic, s.prod) \/ s.manifest = "published"
  <2>1. CASE OC!Published
      BY <2>1 DEF OC!Published, OC!Marks, OC!Flushed, AllSent
  <2>2. CASE OC!PublishFails
      BY ZenonT(90), <2>2, OrderFields DEF OC!PublishFails, OC!Marks, OC!Fault, Orders
  <2>. QED
      BY <1>4, <2>1, <2>2
<1>5. OrderInv(Ends(s.manifest, "over")) /\ OrderInv(Ends("failed", "over"))
    BY <1>1, <1>2 DEF Verdicts
<1>6. AllSent(s.topic, s.prod) \/ s.manifest = "published" => OrderInv(Ends("published", "over"))
    BY <1>1 DEF Verdicts
<1>. HIDE DEF Ends
<1>. QED
    BY <1>3, <1>4, <1>5, <1>6, OrderFault

\* One more message.
LEMMA AppendGrows ==
  ASSUME NEW t \in Seq(Messages), NEW m \in Messages
  PROVE  /\ Append(t, m) \in Seq(Messages) /\ Len(t) \in Nat
         /\ Len(Append(t, m)) = Len(t) + 1 /\ Append(t, m)[Len(t) + 1] = m
         /\ \A o \in 1 .. Len(t) : Append(t, m)[o] = t[o]
         /\ Grows(t, Append(t, m))
<1>. DEFINE u == Append(t, m)
<1>1. /\ u \in Seq(Messages) /\ Len(t) \in Nat /\ Len(u) = Len(t) + 1 /\ u[Len(t) + 1] = m
      /\ \A o \in 1 .. Len(t) : u[o] = t[o]
    OBVIOUS
<1>. HIDE DEF u
<1>2. Grows(t, u)
    BY <1>1 DEF Grows
<1>. QED
    BY <1>1, <1>2 DEF u

\* A topic grows from one that grew.
LEMMA GrowsOn ==
  ASSUME NEW t, NEW u, NEW w, Grows(t, u), Grows(u, w)
  PROVE  Grows(t, w)
<1>1. Len(t) \in Nat /\ Len(u) \in Nat /\ Len(w) \in Nat
    BY DEF Grows
<1>. QED
    BY <1>1 DEF Grows

\* The client sends the next message of the producer, for the first or for the second time.
LEMMA SendsNext ==
  ASSUME OrderBounds, NEW c \in OC!Configs, NEW t \in Seq(Messages), NEW p \in Producers,
         NEW q \in Producers, NEW m \in Messages, Sends(c, t, p), p.sent < p.put,
         q.put = p.put, q.sent = p.sent + 1,
         m.ev = q.sent, m.run = "run", m.bad => m.ev = c.bad
  PROVE  Sends(c, Append(t, m), q) /\ Sends(c, Append(Append(t, m), m), q)
         /\ Doubled(Append(Append(t, m), m))
<1>. DEFINE u == Append(t, m)
            w == Append(u, m)
            l == Len(t)
<1>1. /\ u \in Seq(Messages) /\ l \in Nat /\ Len(u) = l + 1 /\ u[l + 1] = m
      /\ \A o \in 1 .. l : u[o] = t[o] /\ t[o] \in Messages
    BY AppendGrows
<1>2. /\ Len(w) = l + 2 /\ w[l + 2] = m /\ w[l + 1] = m
      /\ \A o \in 1 .. l : w[o] = t[o]
    BY AppendGrows, <1>1
<1>3. /\ p.sent \in Nat /\ p.put \in Nat /\ q.sent \in Nat /\ NEvents \in Nat
      /\ \A o \in 1 .. l : t[o].ev \in Nat /\ t[o].run \in {"run", "replay"}
    BY <1>1 DEF Producers, OrderBounds, Messages
<1>. HIDE DEF u, w, l
<1>4. /\ c.bad > 0 => c.fix = c.bad
      /\ p.put <= NEvents
      /\ \A o \in 1 .. l :
           IF t[o].run = "run" THEN t[o].ev \in 1 .. p.sent /\ (t[o].bad => t[o].ev = c.bad)
           ELSE t[o].ev = c.fix /\ ~t[o].bad /\ c.fix \in 1 .. p.sent
      /\ \A e \in 1 .. p.sent : \E o \in 1 .. l : t[o].run = "run" /\ t[o].ev = e
      /\ \A o, r \in 1 .. l : o < r /\ t[r].run = "run" =>
           /\ t[o].ev <= t[r].ev
           /\ t[o].ev = t[r].ev => t[o].run = "run" /\ Doubled(t)
    BY DEF Sends, l
<1>5. \A o \in 1 .. l : t[o].ev <= p.sent
    BY <1>3, <1>4
<1>6. /\ q.put <= NEvents /\ q.sent <= q.put
      /\ 1 .. p.sent \subseteq 1 .. q.sent /\ q.sent \in 1 .. q.sent
      /\ \A e \in 1 .. q.sent : e \in 1 .. p.sent \/ e = q.sent
    BY <1>3, <1>4
<1>7. Grows(t, u) /\ Grows(t, w)
    BY AppendGrows, <1>1, GrowsOn DEF u, w
<1>8. (Doubled(t) => Doubled(u) /\ Doubled(w)) /\ Doubled(w)
  <2>1. l + 2 \in 1 .. Len(w) /\ l + 2 > 1 /\ w[l + 2] = w[(l + 2) - 1]
      BY <1>1, <1>2
  <2>2. Doubled(w)
      BY <2>1 DEF Doubled
  <2>. QED
      BY <2>2, <1>7, TopicGrows
<1>9. Sends(c, u, q)
  <2>1. \A o \in 1 .. Len(u) : o \in 1 .. l \/ o = l + 1
      BY <1>1
  <2>2. \A o \in 1 .. Len(u) :
           IF u[o].run = "run" THEN u[o].ev \in 1 .. q.sent /\ (u[o].bad => u[o].ev = c.bad)
           ELSE u[o].ev = c.fix /\ ~u[o].bad /\ c.fix \in 1 .. q.sent
      BY <1>1, <1>4, <1>6, <2>1
  <2>3. \A e \in 1 .. q.sent : \E o \in 1 .. Len(u) : u[o].run = "run" /\ u[o].ev = e
    <3>1. u[l + 1] = m /\ l + 1 \in 1 .. Len(u) /\ \A o \in 1 .. l : o \in 1 .. Len(u)
        BY <1>1
    <3>2. \E o \in 1 .. Len(u) : u[o].run = "run" /\ u[o].ev = q.sent
        BY <3>1
    <3>3. ASSUME NEW e \in 1 .. p.sent
          PROVE  \E o \in 1 .. Len(u) : u[o].run = "run" /\ u[o].ev = e
      <4>1. PICK o \in 1 .. l : t[o].run = "run" /\ t[o].ev = e
          BY <1>4
      <4>. QED
          BY <4>1, <3>1, <1>1
    <3>. QED
        BY <3>2, <3>3, <1>6
  <2>4. ASSUME NEW o \in 1 .. Len(u), NEW r \in 1 .. Len(u), o < r, u[r].run = "run"
        PROVE  u[o].ev <= u[r].ev /\ (u[o].ev = u[r].ev => u[o].run = "run" /\ Doubled(u))
    <3>1. o \in 1 .. l
        BY <1>1, <2>4
    <3>2. CASE r \in 1 .. l
      <4>1. u[o] = t[o] /\ u[r] = t[r]
          BY <3>1, <3>2, <1>1
      <4>. QED
          BY <4>1, <3>1, <3>2, <2>4, <1>4, <1>8
    <3>3. CASE r = l + 1
      <4>1. u[o] = t[o] /\ u[r] = m
          BY <3>1, <3>3, <1>1
      <4>2. t[o].ev \in Nat /\ t[o].ev <= p.sent /\ m.ev = p.sent + 1
          BY <3>1, <1>3, <1>5
      <4>3. t[o].ev <= m.ev /\ t[o].ev # m.ev
          BY <4>2, <1>3
      <4>. QED
          BY <4>1, <4>3
    <3>. QED
        BY <2>1, <3>2, <3>3
  <2>. QED
      BY SMTT(60), <1>4, <1>6, <2>2, <2>3, <2>4 DEF Sends
<1>10. Sends(c, w, q)
  <2>1. \A o \in 1 .. Len(w) : o \in 1 .. l \/ (o \in {l + 1, l + 2} /\ w[o] = m)
      BY <1>1, <1>2
  <2>2. \A o \in 1 .. Len(w) :
           IF w[o].run = "run" THEN w[o].ev \in 1 .. q.sent /\ (w[o].bad => w[o].ev = c.bad)
           ELSE w[o].ev = c.fix /\ ~w[o].bad /\ c.fix \in 1 .. q.sent
      BY SMTT(60), <1>2, <1>4, <1>6, <2>1
  <2>3. \A e \in 1 .. q.sent : \E o \in 1 .. Len(w) : w[o].run = "run" /\ w[o].ev = e
    <3>1. w[l + 1] = m /\ l + 1 \in 1 .. Len(w) /\ \A o \in 1 .. l : o \in 1 .. Len(w)
        BY <1>1, <1>2
    <3>2. \E o \in 1 .. Len(w) : w[o].run = "run" /\ w[o].ev = q.sent
        BY <3>1
    <3>3. ASSUME NEW e \in 1 .. p.sent
          PROVE  \E o \in 1 .. Len(w) : w[o].run = "run" /\ w[o].ev = e
      <4>1. PICK o \in 1 .. l : t[o].run = "run" /\ t[o].ev = e
          BY <1>4
      <4>. QED
          BY <4>1, <3>1, <1>2
    <3>. QED
        BY <3>2, <3>3, <1>6
  <2>4. ASSUME NEW o \in 1 .. Len(w), NEW r \in 1 .. Len(w), o < r, w[r].run = "run"
        PROVE  w[o].ev <= w[r].ev /\ (w[o].ev = w[r].ev => w[o].run = "run" /\ Doubled(w))
    <3>1. CASE r \in 1 .. l
      <4>1. o \in 1 .. l
          BY <1>1, <2>4, <3>1
      <4>. QED
          BY <4>1, <3>1, <2>4, <1>2, <1>4, <1>8
    <3>2. CASE w[r] = m /\ o \in 1 .. l
      <4>1. w[o] = t[o]
          BY <3>2, <1>2
      <4>2. t[o].ev \in Nat /\ t[o].ev <= p.sent /\ m.ev = p.sent + 1
          BY <3>2, <1>3, <1>5
      <4>3. t[o].ev <= m.ev /\ t[o].ev # m.ev
          BY <4>2, <1>3
      <4>. QED
          BY <3>2, <4>1, <4>3
    <3>3. CASE w[r] = m /\ w[o] = m
        BY <3>3, <1>3, <1>8
    <3>. QED
        BY <2>1, <3>1, <3>2, <3>3
  <2>. QED
      BY <1>4, <1>6, <2>2, <2>3, <2>4 DEF Sends
<1>. QED
    BY <1>8, <1>9, <1>10 DEF u, w

\* write() enqueues, the client sends.
LEMMA OrderSends ==
  ASSUME OrderBounds, OrderInv(s), OC!Put \/ OC!Send
  PROVE  OrderInv(s')
<1>. DEFINE t == s.topic
            p == s.prod
            c == s.conf
<1>1. /\ t \in Seq(Messages) /\ p \in Producers /\ c \in OC!Configs /\ s.fixer \in Fixers
      /\ Sends(c, t, p) /\ p.put \in Nat /\ p.sent \in Nat /\ NEvents \in Nat
      /\ s.fixer = "published" => Repaired(t)
  <2>1. c \in OC!Configs
      BY OrderFields DEF Orders
  <2>. QED
      BY <2>1, OrderFields DEF OrderBounds, RequestIs
<1>2. CASE OC!Put
  <2>. DEFINE q == [p EXCEPT !.put = p.put + 1]
              e == [s EXCEPT !.topic = t, !.prod = q, !.fixer = s.fixer]
  <2>1. p.put < NEvents /\ s' = [s EXCEPT !.prod.put = @ + 1]
      BY <1>2 DEF OC!Put
  <2>2. s' = e
      BY <2>1, OrderFields DEF Orders
  <2>3. q \in Producers /\ q.put = p.put + 1 /\ q.sent = p.sent
      BY <1>1 DEF Producers
  <2>. HIDE DEF q
  <2>4. Sends(c, t, q) /\ Grows(t, t) /\ (AllSent(t, p) => AllSent(t, q)) /\ p.sent <= q.sent
      BY <1>1, <2>1, <2>3 DEF Sends, AllSent, Grows
  <2>5. Publishes(s, e, t, q, s.fixer)
      BY <1>1, <2>3, <2>4 DEF Publishes
  <2>. QED
      BY <2>2, <2>5, OrderPublishes
<1>3. CASE OC!Send
  <2>. DEFINE m == OC!Message(p.sent + 1)
              u == Append(t, m)
              w == Append(u, m)
              q == [p EXCEPT !.sent = p.sent + 1]
              Goes(x) == [s EXCEPT !.topic = x, !.prod = q, !.fixer = s.fixer]
  <2>1. /\ p.sent < p.put
        /\ \/ s' = [s EXCEPT !.topic = Append(@, m), !.prod.sent = @ + 1]
           \/ s' \in OC!Fault([[s EXCEPT !.topic = Append(@, m), !.prod.sent = @ + 1]
                               EXCEPT !.topic = Append(@, m)])
      BY <1>3 DEF OC!Send
  <2>2. /\ [s EXCEPT !.topic = Append(@, m), !.prod.sent = @ + 1] = Goes(u)
        /\ [[s EXCEPT !.topic = Append(@, m), !.prod.sent = @ + 1]
            EXCEPT !.topic = Append(@, m)] = Goes(w)
      BY OrderFields DEF Orders
  <2>3. /\ m \in Messages /\ m.ev = p.sent + 1 /\ m.run = "run"
        /\ m.bad => m.ev = c.bad
    <3>. DEFINE b == p.sent + 1 = c.bad
    <3>1. m = [ev |-> p.sent + 1, run |-> "run", bad |-> b]
        BY DEF OC!Message
    <3>2. b \in BOOLEAN /\ (b => p.sent + 1 = c.bad)
        OBVIOUS
    <3>. HIDE DEF b, m
    <3>3. m.ev = p.sent + 1 /\ m.run = "run"
        BY <3>1
    <3>4. m.bad = b
        BY <3>1, Zenon
    <3>5. m.bad => m.ev = c.bad
        BY <3>2, <3>3, <3>4, Zenon
    <3>6. p.sent + 1 \in Nat
        BY <1>1
    <3>7. m \in Messages
        BY <3>1, <3>2, <3>6, Zenon DEF Messages
    <3>. QED
        BY <3>3, <3>5, <3>7
  <2>. HIDE DEF m
  <2>4. q \in Producers /\ q.put = p.put /\ q.sent = p.sent + 1
      BY <1>1 DEF Producers
  <2>. HIDE DEF q
  <2>5. /\ u \in Seq(Messages) /\ w \in Seq(Messages) /\ Grows(t, u) /\ Grows(t, w)
    <3>1. u \in Seq(Messages) /\ Grows(t, u)
        BY <1>1, <2>3, AppendGrows
    <3>2. w \in Seq(Messages) /\ Grows(u, w)
        BY <3>1, <2>3, AppendGrows
    <3>. QED
        BY <3>1, <3>2, GrowsOn
  <2>6. Sends(c, u, q) /\ Sends(c, w, q)
      BY <1>1, <2>1, <2>3, <2>4, SendsNext
  <2>. HIDE DEF u, w
  <2>7. p.sent # NEvents /\ p.sent <= q.sent
      BY <1>1, <2>1, <2>4 DEF Sends
  <2>8. (AllSent(t, p) => AllSent(u, q)) /\ (AllSent(t, p) => AllSent(w, q))
      BY <2>5, <2>7, TopicGrows DEF AllSent
  <2>9. s.fixer = "published" => Repaired(u) /\ Repaired(w)
      BY <1>1, <2>5, TopicGrows
  <2>10. Publishes(s, Goes(u), u, q, s.fixer) /\ Publishes(s, Goes(w), w, q, s.fixer)
      BY <1>1, <2>4, <2>5, <2>6, <2>7, <2>8, <2>9 DEF Publishes
  <2>. HIDE DEF Goes
  <2>11. OrderInv(Goes(u)) /\ OrderInv(Goes(w))
      BY <2>10, OrderPublishes
  <2>. QED
      BY <2>1, <2>2, <2>11, OrderFault
<1>. QED
    BY <1>2, <1>3

\* A consumer's cursor.
LEMMA CursorMoves ==
  ASSUME NEW g \in Cursors
  PROVE  /\ [g EXCEPT !.at = g.at + 1] \in Cursors /\ [g EXCEPT !.at = g.at + 1].at = g.at + 1
         /\ [g EXCEPT !.at = g.at + 1].off = g.off
         /\ [g EXCEPT !.at = g.off] \in Cursors /\ [g EXCEPT !.at = g.off].at = g.off
         /\ [g EXCEPT !.at = g.off].off = g.off
         /\ [g EXCEPT !.off = g.at] \in Cursors /\ [g EXCEPT !.off = g.at].at = g.at
         /\ [g EXCEPT !.off = g.at].off = g.at
BY DEF Cursors

\* A projection takes the next message; its consumer commits, or a worker dies.
LEMMA OrderPg ==
  ASSUME OrderBounds, OrderInv(s), OC!ProjectPg
  PROVE  OrderInv(s')
<1>. DEFINE t == s.topic
            o == s.pg.at + 1
            g == [s.pg EXCEPT !.at = s.pg.at + 1]
            Goes(l, u, x) == [s EXCEPT !.ledger = l, !.current = u, !.pg = g, !.dead = x]
<1>1. /\ t \in Seq(Messages) /\ Len(t) \in Nat /\ s.pg \in Cursors /\ s.pg.at \in Nat
      /\ s.ledger \in SUBSET Nat /\ s.dead \in SUBSET Nat /\ s.current \in States
      /\ Stored(t, s.ledger, s.dead, s.pg) /\ Newest(t, s.ledger, s.current)
    BY OrderFields
<1>2. /\ o \in 1 .. Len(t) /\ t[o] \in Messages
      /\ s' = [OC!Ledgered(s, o) EXCEPT !.pg.at = @ + 1]
    BY <1>1 DEF OC!ProjectPg, OC!Topic
<1>3. g \in Cursors /\ g.at = o /\ g.off = s.pg.off
    BY <1>1, CursorMoves
<1>4. \A i \in 1 .. o : i \in 1 .. s.pg.at \/ i = o
    BY <1>1
<1>5. CASE t[o].bad
  <2>. DEFINE x == s.dead \union {o}
  <2>1. s' = Goes(s.ledger, s.current, x)
      BY <1>2, <1>5, OrderFields DEF Orders, OC!Ledgered, OC!Topic
  <2>2. Stored(t, s.ledger, x, g)
      BY <1>1, <1>2, <1>3, <1>4, <1>5 DEF Stored, Cursors
  <2>3. x \in SUBSET Nat
      BY <1>1, <1>2
  <2>. HIDE DEF x, g
  <2>4. Projects(s, s', s.ledger, s.current, g, x)
      BY <1>1, <1>3, <2>1, <2>2, <2>3 DEF Projects
  <2>. QED
      BY <2>4, OrderProjects
<1>6. CASE ~t[o].bad /\ o \in s.ledger
  <2>1. s' = Goes(s.ledger, s.current, s.dead)
      BY <1>2, <1>6, OrderFields DEF Orders, OC!Ledgered, OC!Topic
  <2>2. Stored(t, s.ledger, s.dead, g)
      BY <1>1, <1>2, <1>3, <1>4, <1>6 DEF Stored, Cursors
  <2>. HIDE DEF g
  <2>4. Projects(s, s', s.ledger, s.current, g, s.dead)
      BY <1>1, <1>3, <2>1, <2>2 DEF Projects
  <2>. QED
      BY <2>4, OrderProjects
<1>7. CASE ~t[o].bad /\ o \notin s.ledger
  <2>. DEFINE l == s.ledger \union {o}
              u == IF OC!Newer(t[o], o, s.current) THEN OC!Stated(o) ELSE s.current
  <2>1. s' = Goes(l, u, s.dead)
      BY <1>2, <1>7, OrderFields DEF Orders, OC!Ledgered, OC!Topic
  <2>2. Stored(t, l, s.dead, g)
      BY <1>1, <1>2, <1>3, <1>4, <1>7 DEF Stored, Cursors
  <2>3. t[o].ev \in Nat /\ s.current.ev \in Nat
      BY <1>1, <1>2 DEF Messages, States
  <2>4. u \in States
      BY <1>1, <1>2 DEF OC!Stated, OC!Topic, Messages, States
  <2>5. \/ u.ev = t[o].ev /\ s.current.ev <= t[o].ev
        \/ u = s.current /\ t[o].ev <= s.current.ev
      BY <2>3 DEF OC!Newer, OC!Stated, OC!Topic
  <2>6. l \in SUBSET Nat
      BY <1>1, <1>2
  <2>. HIDE DEF u
  <2>7. Newest(t, l, u)
    <3>1. \A i \in s.ledger : t[i].ev \in Nat
        BY <1>1, OrderFields DEF Stored, Messages
    <3>2. s.ledger = {} => s.current.ev = 0
        BY <1>1 DEF Newest
    <3>3. s.ledger # {} => \E i \in s.ledger : t[i].ev = s.current.ev
        BY <1>1 DEF Newest
    <3>4. \A i \in s.ledger : t[i].ev <= s.current.ev
        BY <1>1 DEF Newest
    <3>5. \E i \in l : t[i].ev = u.ev
        BY <2>3, <2>5, <3>2, <3>3
    <3>6. \A i \in l : t[i].ev <= u.ev
        BY <2>3, <2>5, <3>1, <3>4
    <3>. QED
        BY <3>5, <3>6 DEF Newest
  <2>. HIDE DEF l, g
  <2>8. Projects(s, s', l, u, g, s.dead)
    <3>1. s.ledger \subseteq l
        BY DEF l
    <3>. QED
        BY <3>1, <1>1, <1>3, <2>1, <2>2, <2>4, <2>6, <2>7 DEF Projects
  <2>. QED
      BY <2>8, OrderProjects
<1>. QED
    BY <1>5, <1>6, <1>7

\* Redis takes the message, whatever it serves.
LEMMA OrderRd ==
  ASSUME OrderBounds, OrderInv(s), OC!ProjectRd
  PROVE  OrderInv(s')
<1>. DEFINE t == s.topic
            o == s.rd.at + 1
            g == [s.rd EXCEPT !.at = s.rd.at + 1]
            Goes(h, x) == [s EXCEPT !.cache = h, !.rd = g, !.dead = x]
<1>1. /\ t \in Seq(Messages) /\ Len(t) \in Nat /\ s.rd \in Cursors /\ s.rd.at \in Nat
      /\ s.dead \in SUBSET Nat /\ s.cache \in States /\ s.cache.off \in Nat
      /\ Stored(t, s.ledger, s.dead, s.pg) /\ Serves(t, s.cache, s.rd)
  <2>1. s.cache.off \in Nat
      BY OrderFields DEF States
  <2>. QED
      BY <2>1, OrderFields
<1>2. /\ o \in 1 .. Len(t) /\ t[o] \in Messages
      /\ s' = [OC!Cached(s, o) EXCEPT !.rd.at = @ + 1]
    BY <1>1 DEF OC!ProjectRd, OC!Topic
<1>3. g \in Cursors /\ g.at = o /\ g.off = s.rd.off
    BY <1>1, CursorMoves
<1>4. \A i \in 1 .. o : i \in 1 .. s.rd.at \/ i = o
    BY <1>1
<1>5. CASE t[o].bad
  <2>. DEFINE x == s.dead \union {o}
  <2>1. s' = Goes(s.cache, x)
      BY <1>2, <1>5, OrderFields DEF Orders, OC!Cached, OC!Topic
  <2>2. Stored(t, s.ledger, x, s.pg)
      BY <1>1, <1>2, <1>5 DEF Stored
  <2>3. Serves(t, s.cache, g)
      BY <1>1, <1>2, <1>3, <1>4, <1>5 DEF Serves, Cursors
  <2>4. x \in SUBSET Nat
      BY <1>1, <1>2
  <2>. HIDE DEF x, g
  <2>5. Caches(s, s', s.cache, g, x)
      BY <1>1, <1>3, <2>1, <2>2, <2>3, <2>4 DEF Caches
  <2>. QED
      BY <2>5, OrderCaches
<1>6. CASE ~t[o].bad
  <2>. DEFINE h == OC!Stated(o)
  <2>1. s' = Goes(h, s.dead)
      BY <1>2, <1>6, OrderFields DEF Orders, OC!Cached, OC!Topic
  <2>2. h \in States /\ h.ev = t[o].ev /\ h.run = t[o].run /\ h.off = o
      BY <1>1, <1>2 DEF OC!Stated, OC!Topic, Messages, States
  <2>. HIDE DEF h
  <2>3. Serves(t, h, g)
      BY <1>1, <1>2, <1>3, <1>4, <1>6, <2>2 DEF Serves, Cursors
  <2>. HIDE DEF g
  <2>5. Caches(s, s', h, g, s.dead)
      BY <1>1, <1>3, <2>1, <2>2, <2>3 DEF Caches
  <2>. QED
      BY <2>5, OrderCaches
<1>. QED
    BY <1>5, <1>6

\* A consumer commits what it has read; a worker dies, and the next one reads again.
LEMMA OrderCursors ==
  ASSUME OrderBounds, OrderInv(s), OC!Commit \/ OC!WorkerDies
  PROVE  OrderInv(s')
<1>. DEFINE t == s.topic
            Pg(g) == [s EXCEPT !.ledger = s.ledger, !.current = s.current, !.pg = g,
                               !.dead = s.dead]
            Rd(g) == [s EXCEPT !.cache = s.cache, !.rd = g, !.dead = s.dead]
<1>1. /\ Len(t) \in Nat /\ s.pg \in Cursors /\ s.rd \in Cursors
      /\ s.ledger \in SUBSET Nat /\ s.dead \in SUBSET Nat /\ s.current \in States
      /\ s.cache \in States
      /\ s.pg.at \in Nat /\ s.pg.off \in Nat /\ s.rd.at \in Nat /\ s.rd.off \in Nat
      /\ Stored(t, s.ledger, s.dead, s.pg) /\ Newest(t, s.ledger, s.current)
      /\ Serves(t, s.cache, s.rd)
    BY OrderFields
<1>2. ASSUME NEW g \in Cursors, g.off <= g.at, g.at <= s.pg.at
      PROVE  OrderInv(Pg(g))
  <2>0. g.at \in Nat /\ g.off \in Nat
      BY <1>2 DEF Cursors
  <2>1. Stored(t, s.ledger, s.dead, g)
      BY <1>1, <1>2, <2>0 DEF Stored
  <2>2. Projects(s, Pg(g), s.ledger, s.current, g, s.dead)
      BY <1>1, <1>2, <2>1 DEF Projects
  <2>. QED
      BY <2>2, OrderProjects
<1>3. ASSUME NEW g \in Cursors, g.off <= g.at, g.at <= s.rd.at
      PROVE  OrderInv(Rd(g))
  <2>0. g.at \in Nat /\ g.off \in Nat
      BY <1>3 DEF Cursors
  <2>1. Serves(t, s.cache, g)
      BY <1>1, <1>3, <2>0 DEF Serves
  <2>2. Caches(s, Rd(g), s.cache, g, s.dead)
      BY <1>1, <1>3, <2>1 DEF Caches
  <2>. QED
      BY <2>2, OrderCaches
<1>4. s.pg.off <= s.pg.at /\ s.rd.off <= s.rd.at
    BY <1>1 DEF Stored, Serves
<1>5. /\ OrderInv(Pg([s.pg EXCEPT !.off = s.pg.at])) /\ OrderInv(Pg([s.pg EXCEPT !.at = s.pg.off]))
      /\ OrderInv(Rd([s.rd EXCEPT !.off = s.rd.at])) /\ OrderInv(Rd([s.rd EXCEPT !.at = s.rd.off]))
  <2>. DEFINE a == [s.pg EXCEPT !.off = s.pg.at]
              b == [s.pg EXCEPT !.at = s.pg.off]
              y == [s.rd EXCEPT !.off = s.rd.at]
              z == [s.rd EXCEPT !.at = s.rd.off]
  <2>1. /\ a \in Cursors /\ a.off <= a.at /\ a.at <= s.pg.at
        /\ b \in Cursors /\ b.off <= b.at /\ b.at <= s.pg.at
    <3>1. s.pg \in Cursors /\ s.pg.at \in Nat /\ s.pg.off \in Nat
        BY <1>1
    <3>2. a \in Cursors /\ a.at = s.pg.at /\ a.off = s.pg.at
        BY <3>1, CursorMoves
    <3>3. b \in Cursors /\ b.at = s.pg.off /\ b.off = s.pg.off
        BY <3>1, CursorMoves
    <3>. HIDE DEF a, b
    <3>. QED
        BY <3>1, <3>2, <3>3, <1>4
  <2>2. /\ y \in Cursors /\ y.off <= y.at /\ y.at <= s.rd.at
        /\ z \in Cursors /\ z.off <= z.at /\ z.at <= s.rd.at
    <3>1. s.rd \in Cursors /\ s.rd.at \in Nat /\ s.rd.off \in Nat
        BY <1>1
    <3>2. y \in Cursors /\ y.at = s.rd.at /\ y.off = s.rd.at
        BY <3>1, CursorMoves
    <3>3. z \in Cursors /\ z.at = s.rd.off /\ z.off = s.rd.off
        BY <3>1, CursorMoves
    <3>. HIDE DEF y, z
    <3>. QED
        BY <3>1, <3>2, <3>3, <1>4
  <2>. HIDE DEF Pg, Rd, a, b, y, z
  <2>3. OrderInv(Pg(a)) /\ OrderInv(Pg(b)) /\ OrderInv(Rd(y)) /\ OrderInv(Rd(z))
      BY <2>1, <2>2, <1>2, <1>3
  <2>. QED
      BY <2>3 DEF a, b, y, z
<1>6. CASE OC!Commit
  <2>1. \/ s' = [s EXCEPT !.pg.off = s.pg.at] \/ s' = [s EXCEPT !.rd.off = s.rd.at]
      BY <1>6 DEF OC!Commit, OC!Committed
  <2>2. /\ [s EXCEPT !.pg.off = s.pg.at] = Pg([s.pg EXCEPT !.off = s.pg.at])
        /\ [s EXCEPT !.rd.off = s.rd.at] = Rd([s.rd EXCEPT !.off = s.rd.at])
      BY OrderFields DEF Orders
  <2>. QED
      BY <2>1, <2>2, <1>5
<1>7. CASE OC!WorkerDies
  <2>1. \/ s' \in OC!Fault([s EXCEPT !.pg.at = s.pg.off])
        \/ s' \in OC!Fault([s EXCEPT !.rd.at = s.rd.off])
      BY <1>7 DEF OC!WorkerDies
  <2>2. /\ [s EXCEPT !.pg.at = s.pg.off] = Pg([s.pg EXCEPT !.at = s.pg.off])
        /\ [s EXCEPT !.rd.at = s.rd.off] = Rd([s.rd EXCEPT !.at = s.rd.off])
      BY OrderFields DEF Orders
  <2>. HIDE DEF Pg, Rd
  <2>. QED
      BY <2>1, <2>2, <1>5, OrderFault
<1>. QED
    BY <1>6, <1>7

\* Every event a set of offsets has is one of a message at such an offset.
LEMMA EventsAre ==
  ASSUME NEW offsets, NEW run
  PROVE  /\ \A o : o \in OC!RunOf(offsets, run) <=> o \in offsets /\ s.topic[o].run = run
         /\ \A e : e \in OC!EventsOf(offsets) <=> \E o \in offsets : s.topic[o].ev = e
BY DEF OC!RunOf, OC!EventsOf, OC!Topic

\* The verifier reads the ledger, then Redis.
LEMMA OrderVerifier ==
  ASSUME OrderBounds, OrderInv(s), OC!VerifyReads \/ OC!VerifyCompares
  PROVE  OrderInv(s')
<1>. DEFINE Goes(v) == [s EXCEPT !.verify = v]
<1>1. /\ s.verify \in Verifiers /\ s.current \in States
      /\ VerifiedIs(s.topic, s.ledger, s.verify)
    BY OrderFields
<1>2. CASE OC!VerifyReads
  <2>. DEFINE v == [pc |-> "redis", seen |-> s.current]
  <2>1. s' = Goes(v) /\ OC!EventsOf(OC!RunOf(s.ledger, "run")) = OC!Events
      BY <1>2 DEF OC!VerifyReads, OC!LedgerPasses
  <2>2. HasAll(s.topic, s.ledger)
    <3>1. SUFFICES ASSUME NEW e \in OC!Events
                   PROVE  \E o \in s.ledger : s.topic[o].run = "run" /\ s.topic[o].ev = e
        BY DEF HasAll
    <3>2. PICK o \in OC!RunOf(s.ledger, "run") : s.topic[o].ev = e
        BY <2>1, EventsAre
    <3>. QED
        BY <3>2, EventsAre
  <2>3. v \in Verifiers
      BY <1>1 DEF Verifiers
  <2>. HIDE DEF v
  <2>4. Verifies(s, s', v)
      BY <2>1, <2>2, <2>3 DEF Verifies, VerifiedIs
  <2>. QED
      BY <2>4, OrderVerifies
<1>3. CASE OC!VerifyCompares
  <2>. DEFINE c == IF s.cache.ev = s.verify.seen.ev THEN "pass" ELSE "idle"
              v == [s.verify EXCEPT !.pc = c]
  <2>1. s.verify.pc = "redis" /\ s' = [s EXCEPT !.verify.pc = c]
      BY <1>3 DEF OC!VerifyCompares
  <2>2. s' = Goes(v)
      BY <2>1, OrderFields DEF Orders
  <2>3. v \in Verifiers
      BY <1>1 DEF Verifiers
  <2>4. VerifiedIs(s.topic, s.ledger, v)
      BY <1>1, <2>1 DEF VerifiedIs
  <2>. HIDE DEF v
  <2>5. Verifies(s, s', v)
      BY <2>2, <2>3, <2>4 DEF Verifies
  <2>. QED
      BY <2>5, OrderVerifies
<1>. QED
    BY <1>2, <1>3

\* The size of a set is the one the library's facts are about.
LEMMA SameSize == \A S : OC!Cardinality(S) = Cardinality(S)
BY DEF OC!Cardinality, Cardinality

\* The ledger counts every message of a topic that has none twice.
LEMMA CompleteIsSent ==
  ASSUME OrderBounds, OrderInv(s), OC!Complete
  PROVE  AllSent(s.topic, s.prod)
<1>. DEFINE t == s.topic
            n == s.prod.sent
            R == OC!RunOf(s.ledger, "run")
            f == [o \in R |-> t[o].ev]
<1>1. SUFFICES ASSUME ~Doubled(t)
               PROVE  n = NEvents
    BY DEF AllSent
<1>2. /\ Len(t) \in Nat /\ n \in Nat /\ NEvents \in Nat /\ n <= NEvents
      /\ \A o \in R : o \in 1 .. Len(t) /\ t[o].run = "run" /\ t[o].ev \in 1 .. n
  <2>1. /\ Len(t) \in Nat /\ n \in Nat /\ s.prod.put \in Nat
        /\ Sends(s.conf, t, s.prod) /\ Stored(t, s.ledger, s.dead, s.pg)
      BY OrderFields
  <2>2. \A o \in R : o \in s.ledger /\ t[o].run = "run"
      BY EventsAre
  <2>3. n <= NEvents
      BY <2>1 DEF Sends, OrderBounds
  <2>. QED
      BY <2>1, <2>2, <2>3 DEF Sends, Stored, OrderBounds
<1>3. \A o, q \in R : o < q => t[o].ev # t[q].ev
  <2>1. Sends(s.conf, t, s.prod)
      BY OrderFields
  <2>. QED
      BY ZenonT(90), <2>1, <1>1, <1>2 DEF Sends
<1>4. \A o, q \in R : t[o].ev = t[q].ev => o = q
  <2>1. \A o, q \in R : o < q \/ q < o \/ o = q
      BY <1>2
  <2>. QED
      BY <2>1, <1>3
<1>5. f \in Injection(R, 1 .. n)
  <2>1. f \in [R -> 1 .. n]
      BY <1>2
  <2>2. IsInjective(f)
      BY <1>4 DEF IsInjective
  <2>. QED
      BY <2>1, <2>2 DEF Injection
<1>6. IsFiniteSet(1 .. n) /\ Cardinality(1 .. n) = n
  <2>1. n \in Nat /\ n \in Int /\ 1 \in Int
      BY <1>2
  <2>. HIDE DEF n
  <2>2. /\ IsFiniteSet(1 .. n)
        /\ Cardinality(1 .. n) = IF 1 > n THEN 0 ELSE n - 1 + 1
      BY <2>1, FS_Interval, Zenon
  <2>. QED
      BY <2>1, <2>2
<1>. HIDE DEF f, R
<1>7. IsFiniteSet(R) /\ Cardinality(R) <= n
    BY <1>5, <1>6, FS_Injection
<1>8. Cardinality(R) = NEvents
    BY SameSize DEF OC!Complete, OC!Observed, R
<1>. QED
    BY <1>2, <1>7, <1>8

\* One delivery of the repair in the ledger is one in the topic.
LEMMA ProvenIsRepaired ==
  ASSUME OrderInv(s), OC!Proven
  PROVE  Repaired(s.topic)
<1>. DEFINE R == OC!RunOf(s.ledger, "replay")
<1>1. Cardinality(R) = 1
    BY SameSize DEF OC!Proven, OC!Observed
<1>2. R # {}
    BY <1>1, FS_EmptySet
<1>3. PICK o \in R : TRUE
    BY <1>2
<1>4. o \in s.ledger /\ s.topic[o].run = "replay"
    BY <1>3, EventsAre
<1>5. Stored(s.topic, s.ledger, s.dead, s.pg)
    BY OrderFields
<1>. QED
    BY <1>4, <1>5 DEF Stored, Repaired

\* reconcile_producer_run.
LEMMA OrderTidies ==
  ASSUME OrderBounds, OrderInv(s), OC!TidyReads \/ OC!TidyUpdates
  PROVE  OrderInv(s')
<1>. DEFINE Goes(m, y) == [s EXCEPT !.manifest = m, !.prod = s.prod, !.tidy = y]
<1>1. /\ s.manifest \in Verdicts /\ s.prod \in Producers
      /\ ManifestIs(s.topic, s.prod, s.manifest, s.tidy)
    BY OrderFields
<1>2. CASE OC!TidyReads
  <2>1. OC!Complete /\ s' = [s EXCEPT !.tidy = "update"]
      BY <1>2 DEF OC!TidyReads
  <2>2. s' = Goes(s.manifest, "update")
      BY <2>1, OrderFields DEF Orders
  <2>3. AllSent(s.topic, s.prod)
      BY <2>1, CompleteIsSent
  <2>4. Manifests(s, s', s.manifest, s.prod, "update")
      BY <1>1, <2>2, <2>3 DEF Manifests
  <2>. QED
      BY <2>4, OrderManifests
<1>3. CASE OC!TidyUpdates
  <2>1. s.tidy = "update" /\ s' = [s EXCEPT !.tidy = "idle", !.manifest = "published"]
      BY <1>3 DEF OC!TidyUpdates
  <2>2. s' = Goes("published", "idle")
      BY <2>1, OrderFields DEF Orders
  <2>3. AllSent(s.topic, s.prod)
      BY <1>1, <2>1 DEF ManifestIs
  <2>4. Manifests(s, s', "published", s.prod, "idle")
      BY <1>1, <2>2, <2>3 DEF Manifests, Verdicts
  <2>. QED
      BY <2>4, OrderManifests
<1>. QED
    BY <1>2, <1>3

\* The corrected event is sent, or the call fails before or after it was.
LEMMA OrderCorrects ==
  ASSUME OrderBounds, OrderInv(s), OC!PublishEvent
  PROVE  OrderInv(s')
<1>. DEFINE t == s.topic
            m == OC!Corrected
            u == Append(t, m)
            l == Len(t)
            c == s.conf
            p == s.prod
            Goes(w, k) == [s EXCEPT !.topic = w, !.prod = p, !.fixer = k]
<1>1. /\ t \in Seq(Messages) /\ l \in Nat /\ p \in Producers /\ p.sent \in Nat
      /\ NEvents \in Nat /\ c.fix \in 1 .. NEvents /\ Sends(c, t, p)
      /\ s.fixer = "publish" => c.fix \in 1 .. p.sent
  <2>1. RequestIs(c, t, p, s.request, s.fixer, s.fixes)
      BY OrderFields
  <2>. QED
      BY <2>1, OrderFields DEF OrderBounds, RequestIs
<1>2. /\ s.fixer = "publish"
      /\ \/ s' = [[s EXCEPT !.topic = u] EXCEPT !.fixer = "published"]
         \/ s' \in OC!Fault([[s EXCEPT !.topic = u] EXCEPT !.fixer = "failed"])
         \/ s' \in OC!Fault([s EXCEPT !.fixer = "failed"])
    BY DEF OC!PublishEvent
<1>3. /\ [[s EXCEPT !.topic = u] EXCEPT !.fixer = "published"] = Goes(u, "published")
      /\ [[s EXCEPT !.topic = u] EXCEPT !.fixer = "failed"] = Goes(u, "failed")
      /\ [s EXCEPT !.fixer = "failed"] = Goes(t, "failed")
    BY OrderFields DEF Orders
<1>4. m \in Messages /\ m.ev = c.fix /\ m.run = "replay" /\ ~m.bad
  <2>1. m = [ev |-> c.fix, run |-> "replay", bad |-> FALSE]
      BY DEF OC!Corrected
  <2>2. c.fix \in Nat
      BY <1>1
  <2>. QED
      BY <2>1, <2>2 DEF Messages
<1>. HIDE DEF m
<1>5. /\ u \in Seq(Messages) /\ Len(u) = l + 1 /\ u[l + 1] = m
      /\ \A o \in 1 .. l : u[o] = t[o]
      /\ Grows(t, u)
    BY <1>1, <1>4, AppendGrows
<1>. HIDE DEF u
<1>6. \A o \in 1 .. Len(u) : o \in 1 .. l \/ o = l + 1
    BY <1>1, <1>5
<1>7. l + 1 \in 1 .. Len(u) /\ \A o \in 1 .. l : o \in 1 .. Len(u)
    BY <1>1, <1>5
<1>8. Doubled(t) => Doubled(u)
    BY <1>5, TopicGrows
<1>9. Sends(c, u, p)
  <2>. HIDE DEF l
  <2>1. /\ c.bad > 0 => c.fix = c.bad
        /\ p.put <= NEvents /\ p.sent <= p.put
        /\ \A o \in 1 .. l :
             IF t[o].run = "run" THEN t[o].ev \in 1 .. p.sent /\ (t[o].bad => t[o].ev = c.bad)
             ELSE t[o].ev = c.fix /\ ~t[o].bad /\ c.fix \in 1 .. p.sent
        /\ \A e \in 1 .. p.sent : \E o \in 1 .. l : t[o].run = "run" /\ t[o].ev = e
        /\ \A o, r \in 1 .. l : o < r /\ t[r].run = "run" =>
             /\ t[o].ev <= t[r].ev
             /\ t[o].ev = t[r].ev => t[o].run = "run" /\ Doubled(t)
      BY <1>1 DEF Sends, l
  <2>2. \A o \in 1 .. Len(u) :
           IF u[o].run = "run" THEN u[o].ev \in 1 .. p.sent /\ (u[o].bad => u[o].ev = c.bad)
           ELSE u[o].ev = c.fix /\ ~u[o].bad /\ c.fix \in 1 .. p.sent
      BY SMTT(60), <1>1, <1>2, <1>4, <1>5, <1>6, <2>1
  <2>3. \A e \in 1 .. p.sent : \E o \in 1 .. Len(u) : u[o].run = "run" /\ u[o].ev = e
    <3>1. SUFFICES ASSUME NEW e \in 1 .. p.sent
                   PROVE  \E o \in 1 .. Len(u) : u[o].run = "run" /\ u[o].ev = e
        OBVIOUS
    <3>2. PICK o \in 1 .. l : t[o].run = "run" /\ t[o].ev = e
        BY <2>1
    <3>. QED
        BY <3>2, <1>5, <1>7
  <2>4. ASSUME NEW o \in 1 .. Len(u), NEW r \in 1 .. Len(u), o < r, u[r].run = "run"
        PROVE  u[o].ev <= u[r].ev /\ (u[o].ev = u[r].ev => u[o].run = "run" /\ Doubled(u))
    <3>1. r \in 1 .. l
        BY <1>4, <1>5, <1>6, <2>4
    <3>2. o \in 1 .. l
        BY <1>1, <2>4, <3>1
    <3>3. u[o] = t[o] /\ u[r] = t[r]
        BY <3>1, <3>2, <1>5
    <3>. QED
        BY <3>1, <3>2, <3>3, <2>1, <2>4, <1>8
  <2>. QED
      BY <2>1, <2>2, <2>3, <2>4 DEF Sends
<1>10. Repaired(u)
    BY <1>4, <1>5, <1>7 DEF Repaired
<1>11. AllSent(t, p) => AllSent(u, p)
    BY <1>8 DEF AllSent
<1>12. Publishes(s, Goes(u, "published"), u, p, "published")
    BY <1>1, <1>5, <1>9, <1>10, <1>11 DEF Publishes, Fixers
<1>13. Publishes(s, Goes(u, "failed"), u, p, "failed")
    BY <1>1, <1>5, <1>9, <1>11 DEF Publishes, Fixers
<1>14. Publishes(s, Goes(t, "failed"), t, p, "failed")
  <2>1. Grows(t, t)
      BY <1>1 DEF Grows
  <2>. QED
      BY <2>1, <1>1 DEF Publishes, Fixers
<1>. HIDE DEF Goes
<1>15. OrderInv(Goes(u, "published")) /\ OrderInv(Goes(u, "failed")) /\ OrderInv(Goes(t, "failed"))
    BY <1>12, <1>13, <1>14, OrderPublishes
<1>. QED
    BY <1>2, <1>3, <1>15, OrderFault

\* The operator asks for a repair of what is in the DLQ; the message is one the producer sent.
LEMMA OrderRequests ==
  ASSUME OrderBounds, OrderInv(s), OC!CreateRequest
  PROVE  OrderInv(s')
<1>. DEFINE t == s.topic
            c == s.conf
            p == s.prod
            e == [s EXCEPT !.request = "publishing", !.audit = <<"requested">>,
                           !.fixer = "publish", !.fixes = s.fixes]
<1>1. /\ Len(t) \in Nat /\ s.dead \in SUBSET Nat /\ s.fixes \in Reconcilers
      /\ p.sent \in Nat /\ c.bad \in 0 .. NEvents /\ NEvents \in Nat
      /\ Sends(c, t, p) /\ Stored(t, s.ledger, s.dead, s.pg)
      /\ RequestIs(c, t, p, s.request, s.fixer, s.fixes)
    BY OrderFields DEF OrderBounds
<1>2. /\ s.fixer = "idle" /\ s.request = "none" /\ s.dead # {}
      /\ s' = [s EXCEPT !.request = "publishing", !.audit = <<"requested">>, !.fixer = "publish"]
    BY DEF OC!CreateRequest
<1>3. s' = e
    BY <1>2, OrderFields DEF Orders
<1>4. PICK o \in s.dead : o \in 1 .. Len(t) /\ t[o].bad
    BY <1>1, <1>2 DEF Stored
<1>5. t[o].run = "run" /\ t[o].ev \in 1 .. p.sent /\ t[o].ev = c.bad
    BY <1>1, <1>4 DEF Sends
<1>6. c.fix \in 1 .. p.sent
    BY <1>1, <1>5 DEF Sends
<1>7. RequestIs(c, t, p, "publishing", "publish", s.fixes)
    BY <1>1, <1>6 DEF RequestIs
<1>8. <<"requested">> \in Trails /\ AuditIs("publishing", <<"requested">>)
  <2>1. <<"requested">> \in Trails
      BY DEF Trails
  <2>2. AuditIs("publishing", <<"requested">>)
      BY DEF AuditIs
  <2>. QED
      BY <2>1, <2>2
<1>. DEFINE a == <<"requested">>
<1>. HIDE DEF a
<1>9. e = [s EXCEPT !.request = "publishing", !.audit = a, !.fixer = "publish", !.fixes = s.fixes]
    BY DEF a
<1>10. a \in Trails /\ AuditIs("publishing", a)
    BY <1>8 DEF a
<1>. HIDE DEF e
<1>11. Repairs(s, e, "publishing", a, "publish", s.fixes)
    BY <1>1, <1>7, <1>9, <1>10 DEF Repairs, Verdicts, Fixers
<1>. QED
    BY <1>3, <1>11, OrderRepairs

\* A second note in the audit trail.
LEMMA SecondNote ==
  ASSUME NEW x \in Notes, NEW y \in Notes
  PROVE  Append(<<x>>, y) = <<x, y>>
<1>. DEFINE a == Append(<<x>>, y)
            b == <<x, y>>
<1>1. <<x>> \in Seq(Notes) /\ Len(<<x>>) = 1 /\ <<x>>[1] = x
    OBVIOUS
<1>2. a \in Seq(Notes) /\ Len(a) = 2 /\ a[1] = x /\ a[2] = y
    BY <1>1
<1>3. b \in Seq(Notes) /\ Len(b) = 2 /\ b[1] = x /\ b[2] = y
    OBVIOUS
<1>. HIDE DEF a, b
<1>4. Len(a) = Len(b) /\ \A i \in 1 .. Len(a) : a[i] = b[i]
    BY <1>2, <1>3
<1>5. a = b
    BY <1>2, <1>3, <1>4, SeqEqual
<1>. QED
    BY <1>5 DEF a, b

\* A command completes the request: with its own outcome, or as reconciled.
Completes(d, e, state, note, k, j) ==
  /\ state \in {"published", "failed"} /\ note \in {state, "reconciled"}
  /\ note = "reconciled" => state = "published"
  /\ state = "published" => Repaired(d.topic)
  /\ k \in Fixers /\ (k = d.fixer \/ k = "over")
  /\ j \in Reconcilers /\ (j = d.fixes \/ j = "over")
  /\ e = [OC!Completed(state, note, d) EXCEPT !.fixer = k, !.fixes = j]

\* It is completed once.
LEMMA CompletesOnce ==
  ASSUME OrderInv(s), NEW e, NEW state, NEW note, NEW k, NEW j, Completes(s, e, state, note, k, j)
  PROVE  OrderInv(e)
<1>0. /\ state \in {"published", "failed"} /\ note \in {state, "reconciled"}
      /\ note = "reconciled" => state = "published"
      /\ state = "published" => Repaired(s.topic)
      /\ k \in Fixers /\ (k = s.fixer \/ k = "over")
      /\ j \in Reconcilers /\ (j = s.fixes \/ j = "over")
      /\ e = [OC!Completed(state, note, s) EXCEPT !.fixer = k, !.fixes = j]
    BY DEF Completes
<1>1. /\ s.audit \in Trails /\ s.request \in Verdicts
      /\ RequestIs(s.conf, s.topic, s.prod, s.request, s.fixer, s.fixes)
      /\ AuditIs(s.request, s.audit)
    BY OrderFields
<1>2. CASE s.request = "publishing"
  <2>. DEFINE a == Append(s.audit, note)
  <2>1. s.audit = <<"requested">>
      BY <1>1, <1>2 DEF AuditIs
  <2>2. a = <<"requested", note>>
    <3>1. "requested" \in Notes /\ note \in Notes
        BY <1>0 DEF Notes
    <3>2. Append(<<"requested">>, note) = <<"requested", note>>
        BY <3>1, SecondNote
    <3>. QED
        BY <2>1, <3>2
  <2>3. a \in Trails
      BY <2>2, <1>0 DEF Trails
  <2>4. AuditIs(state, a)
      BY <2>2, <1>0 DEF AuditIs
  <2>5. OC!Completed(state, note, s) = [s EXCEPT !.request = state, !.audit = Append(@, note)]
      BY <1>2 DEF OC!Completed, OC!Completable
  <2>6. e = [s EXCEPT !.request = state, !.audit = a, !.fixer = k, !.fixes = j]
      BY <1>0, <2>5, OrderFields DEF Orders
  <2>. HIDE DEF a
  <2>7. RequestIs(s.conf, s.topic, s.prod, state, k, j)
      BY <1>0, <1>1 DEF RequestIs
  <2>8. Repairs(s, e, state, a, k, j)
      BY <1>0, <2>3, <2>4, <2>6, <2>7 DEF Repairs, Verdicts
  <2>. QED
      BY <2>8, OrderRepairs
<1>3. CASE s.request # "publishing"
  <2>1. OC!Completed(state, note, s) = s
      BY <1>3 DEF OC!Completed, OC!Completable
  <2>2. e = [s EXCEPT !.request = s.request, !.audit = s.audit, !.fixer = k, !.fixes = j]
      BY <1>0, <2>1, OrderFields DEF Orders
  <2>3. RequestIs(s.conf, s.topic, s.prod, s.request, k, j)
      BY <1>0, <1>1 DEF RequestIs
  <2>4. Repairs(s, e, s.request, s.audit, k, j)
      BY <1>0, <1>1, <2>2, <2>3 DEF Repairs
  <2>. QED
      BY <2>4, OrderRepairs
<1>. QED
    BY <1>2, <1>3

\* execute_replay and reconcile_replay end.
LEMMA OrderCompletes ==
  ASSUME OrderBounds, OrderInv(s),
         OC!CompleteRequest \/ OC!FixerDies \/ OC!ReconcileReads \/ OC!ReconcileCompletes
  PROVE  OrderInv(s')
<1>. DEFINE Goes(k, j) == [s EXCEPT !.request = s.request, !.audit = s.audit,
                                    !.fixer = k, !.fixes = j]
<1>1. /\ s.audit \in Trails /\ s.request \in Verdicts
      /\ s.fixer \in Fixers /\ s.fixes \in Reconcilers
      /\ RequestIs(s.conf, s.topic, s.prod, s.request, s.fixer, s.fixes)
      /\ AuditIs(s.request, s.audit)
    BY OrderFields
<1>2. "over" \in Fixers /\ "over" \in Reconcilers /\ "complete" \in Reconcilers
    BY DEF Fixers, Reconcilers
<1>3. CASE OC!CompleteRequest
  <2>. DEFINE k == s.fixer
              d == OC!Completed(k, k, s)
  <2>1. k \in {"published", "failed"} /\ s' = [d EXCEPT !.fixer = "over"]
      BY <1>3 DEF OC!CompleteRequest
  <2>2. k = "published" => Repaired(s.topic)
      BY <1>1 DEF RequestIs
  <2>3. [d EXCEPT !.fixer = "over"] = [d EXCEPT !.fixer = "over", !.fixes = s.fixes]
      BY OrderFields DEF Orders, OC!Completed
  <2>4. Completes(s, s', k, k, "over", s.fixes)
      BY <2>1, <2>2, <2>3, <1>1, <1>2 DEF Completes
  <2>. QED
      BY <2>4, CompletesOnce
<1>4. CASE OC!FixerDies
  <2>1. s' \in OC!Fault([s EXCEPT !.fixer = "over"])
      BY <1>4 DEF OC!FixerDies
  <2>2. [s EXCEPT !.fixer = "over"] = Goes("over", s.fixes)
      BY OrderFields DEF Orders
  <2>3. RequestIs(s.conf, s.topic, s.prod, s.request, "over", s.fixes)
      BY <1>1 DEF RequestIs
  <2>4. Repairs(s, Goes("over", s.fixes), s.request, s.audit, "over", s.fixes)
      BY <1>1, <1>2, <2>3 DEF Repairs
  <2>. HIDE DEF Goes
  <2>. QED
      BY <2>1, <2>2, <2>4, OrderRepairs, OrderFault
<1>5. CASE OC!ReconcileReads
  <2>1. OC!Proven /\ s' = [s EXCEPT !.fixes = "complete"]
      BY <1>5 DEF OC!ReconcileReads
  <2>2. s' = Goes(s.fixer, "complete")
      BY <2>1, OrderFields DEF Orders
  <2>3. RequestIs(s.conf, s.topic, s.prod, s.request, s.fixer, "complete")
      BY <1>1, <2>1, ProvenIsRepaired DEF RequestIs
  <2>4. Repairs(s, s', s.request, s.audit, s.fixer, "complete")
      BY <1>1, <1>2, <2>2, <2>3 DEF Repairs
  <2>. QED
      BY <2>4, OrderRepairs
<1>6. CASE OC!ReconcileCompletes
  <2>. DEFINE d == OC!Completed("published", "reconciled", s)
  <2>1. s.fixes = "complete" /\ s' = [d EXCEPT !.fixes = "over"]
      BY <1>6 DEF OC!ReconcileCompletes
  <2>2. Repaired(s.topic)
      BY <1>1, <2>1 DEF RequestIs
  <2>3. [d EXCEPT !.fixes = "over"] = [d EXCEPT !.fixer = s.fixer, !.fixes = "over"]
      BY OrderFields DEF Orders, OC!Completed
  <2>4. Completes(s, s', "published", "reconciled", s.fixer, "over")
      BY <2>1, <2>2, <2>3, <1>1, <1>2 DEF Completes
  <2>. QED
      BY <2>4, CompletesOnce
<1>. QED
    BY <1>3, <1>4, <1>5, <1>6

\* Nothing was sent.
LEMMA OrderInit ==
  ASSUME OrderBounds, OC!Init
  PROVE  OrderInv(s)
<1>1. PICK c \in OC!Configs :
         /\ c.bad > 0 => c.fix = c.bad
         /\ s = [conf |-> c, faults |-> 0, topic |-> <<>>, manifest |-> "none",
                 prod |-> [pc |-> "begin", put |-> 0, sent |-> 0], tidy |-> "idle",
                 ledger |-> {}, current |-> OC!NoState, cache |-> OC!NoState,
                 pg |-> [at |-> 0, off |-> 0], rd |-> [at |-> 0, off |-> 0], dead |-> {},
                 verify |-> [pc |-> "idle", seen |-> OC!NoState],
                 request |-> "none", audit |-> <<>>, fixer |-> "idle", fixes |-> "idle"]
    BY DEF OC!Init
<1>. DEFINE t == <<>>
            g == [at |-> 0, off |-> 0]
            p == [pc |-> "begin", put |-> 0, sent |-> 0]
            v == [pc |-> "idle", seen |-> OC!NoState]
<1>2. t \in Seq(Messages) /\ Len(t) = 0 /\ t = <<>> /\ t \in Trails
    BY DEF Trails
<1>3. OC!NoState \in States /\ OC!NoState.ev = 0 /\ OC!NoState.off = 0
    BY DEF OC!NoState, States
<1>4. g \in Cursors /\ g.at = 0 /\ g.off = 0
    BY DEF Cursors
<1>5. p \in Producers /\ p.put = 0 /\ p.sent = 0
    BY DEF Producers
<1>6. v \in Verifiers /\ v.pc = "idle"
    BY <1>3 DEF Verifiers
<1>. HIDE DEF t, g, p, v
<1>7. /\ s.conf = c /\ s.faults = 0 /\ s.topic = t /\ s.manifest = "none" /\ s.prod = p
      /\ s.tidy = "idle" /\ s.ledger = {} /\ s.current = OC!NoState /\ s.cache = OC!NoState
      /\ s.pg = g /\ s.rd = g /\ s.dead = {} /\ s.verify = v /\ s.request = "none"
      /\ s.audit = t /\ s.fixer = "idle" /\ s.fixes = "idle"
      /\ s = [conf |-> c, faults |-> 0, topic |-> t, manifest |-> "none", prod |-> p,
              tidy |-> "idle", ledger |-> {}, current |-> OC!NoState, cache |-> OC!NoState,
              pg |-> g, rd |-> g, dead |-> {}, verify |-> v,
              request |-> "none", audit |-> t, fixer |-> "idle", fixes |-> "idle"]
    BY <1>1 DEF t, g, p, v
<1>8. s \in Orders
    BY <1>2, <1>3, <1>4, <1>5, <1>6, <1>7 DEF Orders, Verdicts, Fixers, Reconcilers
<1>9. Sends(c, t, p)
    BY <1>1, <1>2, <1>5 DEF Sends, OrderBounds
<1>10. Stored(t, {}, {}, g) /\ Serves(t, OC!NoState, g)
    BY <1>2, <1>3, <1>4 DEF Stored, Serves
<1>11. Newest(t, {}, OC!NoState) /\ ManifestIs(t, p, "none", "idle")
    BY <1>3 DEF Newest, ManifestIs
<1>12. /\ RequestIs(c, t, p, "none", "idle", "idle") /\ AuditIs("none", t)
       /\ VerifiedIs(t, {}, v)
    BY <1>2, <1>6 DEF RequestIs, AuditIs, VerifiedIs
<1>. QED
    BY <1>7, <1>8, <1>9, <1>10, <1>11, <1>12 DEF OrderInv

\* Every step keeps the invariant.
LEMMA OrderStep ==
  ASSUME OrderBounds, OrderInv(s), [OC!Next]_s
  PROVE  OrderInv(s')
<1>1. CASE UNCHANGED s
    BY <1>1
<1>2. CASE OC!Begin \/ OC!Published \/ OC!PublishFails
    BY <1>2, OrderProducer
<1>3. CASE OC!Put \/ OC!Send
    BY <1>3, OrderSends
<1>4. CASE OC!TidyReads \/ OC!TidyUpdates
    BY <1>4, OrderTidies
<1>5. CASE OC!ProjectPg
    BY <1>5, OrderPg
<1>6. CASE OC!ProjectRd
    BY <1>6, OrderRd
<1>7. CASE OC!Commit \/ OC!WorkerDies
    BY <1>7, OrderCursors
<1>8. CASE OC!VerifyReads \/ OC!VerifyCompares
    BY <1>8, OrderVerifier
<1>9. CASE OC!CreateRequest
    BY <1>9, OrderRequests
<1>10. CASE OC!PublishEvent
    BY <1>10, OrderCorrects
<1>11. CASE OC!CompleteRequest \/ OC!FixerDies \/ OC!ReconcileReads \/ OC!ReconcileCompletes
    BY <1>11, OrderCompletes
<1>. QED
    BY <1>1, <1>2, <1>3, <1>4, <1>5, <1>6, <1>7, <1>8, <1>9, <1>10, <1>11
       DEF OC!Next, OC!Stays

\* What the manifest, the request, the audit trail and the verifier say is true.
LEMMA LedgersHold ==
  ASSUME OrderBounds, OrderInv(s)
  PROVE  OC!PublishedIsTrue /\ OC!AuditTellsState /\ OC!PassIsTrue
<1>. DEFINE t == s.topic
            n == s.prod.sent
<1>1. /\ t \in Seq(Messages) /\ Len(t) \in Nat /\ n \in Nat /\ s.prod.put \in Nat
      /\ NEvents \in Nat
      /\ Sends(s.conf, t, s.prod) /\ Stored(t, s.ledger, s.dead, s.pg)
      /\ ManifestIs(t, s.prod, s.manifest, s.tidy)
      /\ RequestIs(s.conf, t, s.prod, s.request, s.fixer, s.fixes)
      /\ AuditIs(s.request, s.audit) /\ VerifiedIs(t, s.ledger, s.verify)
      /\ s.request \in Verdicts
    BY OrderFields DEF OrderBounds
<1>2. DOMAIN t = 1 .. Len(t)
    BY <1>1
<1>3. /\ n <= NEvents
      /\ \A o \in 1 .. Len(t) :
           IF t[o].run = "run" THEN t[o].ev \in 1 .. n ELSE t[o].ev = s.conf.fix
      /\ \A e \in 1 .. n : \E o \in 1 .. Len(t) : t[o].run = "run" /\ t[o].ev = e
    BY <1>1 DEF Sends
<1>4. OC!Events = 1 .. NEvents
    BY DEF OC!Events
<1>5. \A run, e : e \in OC!InTopic(run) <=> \E o \in 1 .. Len(t) : t[o].run = run /\ t[o].ev = e
  <2>1. SUFFICES ASSUME NEW run, NEW e
                 PROVE  e \in OC!InTopic(run) <=>
                        \E o \in 1 .. Len(t) : t[o].run = run /\ t[o].ev = e
      OBVIOUS
  <2>. DEFINE R == OC!RunOf(1 .. Len(t), run)
  <2>2. OC!InTopic(run) = OC!EventsOf(R)
      BY <1>2 DEF OC!InTopic, OC!Topic
  <2>3. \A o : o \in R <=> o \in 1 .. Len(t) /\ t[o].run = run
      BY EventsAre
  <2>. HIDE DEF R
  <2>4. e \in OC!EventsOf(R) <=> \E o \in R : t[o].ev = e
      BY EventsAre
  <2>. QED
      BY <2>2, <2>3, <2>4
<1>6. s.manifest = "published" => OC!InTopic("run") = OC!Events \/ OC!Repeated
  <2>1. SUFFICES ASSUME s.manifest = "published", ~Doubled(t)
                 PROVE  OC!InTopic("run") = OC!Events
      BY <1>2 DEF Doubled, OC!Repeated, OC!Topic
  <2>2. n = NEvents
      BY <1>1, <2>1 DEF ManifestIs, AllSent
  <2>3. \A e : e \in OC!InTopic("run") <=> e \in OC!Events
      BY <2>2, <1>3, <1>4, <1>5
  <2>. QED
      BY <2>3
<1>7. s.request = "published" => OC!InTopic("replay") = {s.conf.fix}
  <2>1. SUFFICES ASSUME Repaired(t)
                 PROVE  OC!InTopic("replay") = {s.conf.fix}
      BY <1>1 DEF RequestIs
  <2>2. PICK o \in 1 .. Len(t) : t[o].run = "replay"
      BY <2>1 DEF Repaired
  <2>3. \A e : e \in OC!InTopic("replay") <=> e = s.conf.fix
      BY <2>2, <1>3, <1>5
  <2>. QED
      BY <2>3
<1>8. OC!AuditTellsState
  <2>1. CASE s.request = "none"
      BY <1>1, <2>1 DEF OC!AuditTellsState, AuditIs
  <2>2. CASE s.request = "publishing"
      BY <1>1, <2>2 DEF OC!AuditTellsState, AuditIs
  <2>3. CASE s.request = "failed"
      BY <1>1, <2>3 DEF OC!AuditTellsState, AuditIs
  <2>4. CASE s.request = "published"
      BY <1>1, <2>4 DEF OC!AuditTellsState, AuditIs
  <2>. QED
      BY <1>1, <2>1, <2>2, <2>3, <2>4 DEF Verdicts
<1>9. OC!PassIsTrue
  <2>. DEFINE R == OC!RunOf(s.ledger, "run")
  <2>1. SUFFICES ASSUME HasAll(t, s.ledger)
                 PROVE  OC!EventsOf(R) = OC!Events
      BY <1>1 DEF OC!PassIsTrue, VerifiedIs
  <2>2. \A o : o \in R <=> o \in s.ledger /\ t[o].run = "run"
      BY EventsAre
  <2>3. \A e : e \in OC!EventsOf(R) <=> \E o \in R : t[o].ev = e
      BY EventsAre
  <2>4. \A o \in R : t[o].ev \in 1 .. n
      BY <2>2, <1>1, <1>3 DEF Stored
  <2>5. \A e \in OC!EventsOf(R) : e \in OC!Events
      BY <2>3, <2>4, <1>1, <1>3, <1>4
  <2>6. \A e \in OC!Events : e \in OC!EventsOf(R)
      BY <2>1, <2>2, <2>3 DEF HasAll
  <2>. QED
      BY <2>5, <2>6
<1>. QED
    BY <1>6, <1>7, <1>8, <1>9 DEF OC!PublishedIsTrue

\* The stores have what was committed, and agree without lag.
LEMMA StoresHold ==
  ASSUME OrderBounds, OrderInv(s)
  PROVE  OC!CommittedIsDurable /\ OC!CurrentIsNewest /\ OC!CachesConverge
<1>. DEFINE t == s.topic
<1>1. /\ Len(t) \in Nat /\ \A o \in 1 .. Len(t) : t[o] \in Messages
      /\ s.pg.at \in Nat /\ s.pg.off \in Nat /\ s.rd.at \in Nat /\ s.rd.off \in Nat
      /\ s.current.ev \in Nat /\ s.cache.off \in Nat
      /\ Sends(s.conf, t, s.prod) /\ Stored(t, s.ledger, s.dead, s.pg)
      /\ Serves(t, s.cache, s.rd) /\ Newest(t, s.ledger, s.current)
  <2>1. s.current.ev \in Nat /\ s.cache.off \in Nat
      BY OrderFields DEF States
  <2>. QED
      BY <2>1, OrderFields
<1>2. OC!CommittedIsDurable
  <2>1. \A o \in 1 .. s.pg.off : o \in s.ledger \/ o \in s.dead
      BY <1>1 DEF Stored
  <2>2. \A o \in 1 .. s.rd.off : t[o].bad \/ s.cache.off >= o
      BY <1>1 DEF Serves
  <2>. QED
      BY <2>1, <2>2 DEF OC!CommittedIsDurable, OC!Topic
<1>3. \A e : e \in OC!EventsOf(s.ledger) <=> \E o \in s.ledger : t[o].ev = e
    BY EventsAre
<1>4. \A o \in s.ledger : o \in 1 .. Len(t) /\ ~t[o].bad /\ t[o].ev \in Nat
    BY <1>1 DEF Stored, Messages
<1>5. OC!CurrentIsNewest
  <2>1. SUFFICES ASSUME s.ledger # {}
                 PROVE  /\ s.current.ev \in OC!EventsOf(s.ledger)
                        /\ \A e \in OC!EventsOf(s.ledger) : e <= s.current.ev
      BY DEF OC!CurrentIsNewest
  <2>. QED
      BY SMTT(60), <1>1, <1>3, <1>4, <2>1 DEF Newest
<1>6. OC!CachesConverge
  <2>1. SUFFICES ASSUME OC!ZeroLag, s.ledger # {}, s.cache.run # "replay"
                 PROVE  s.cache.ev = s.current.ev
      BY DEF OC!CachesConverge
  <2>2. s.pg.off = Len(t) /\ s.rd.off = Len(t)
      BY <2>1, <1>1 DEF OC!ZeroLag, OC!Lag, OC!Topic
  <2>3. s.pg.at = Len(t) /\ s.rd.at = Len(t)
      BY <2>2, <1>1 DEF Stored, Serves
  <2>. DEFINE k == s.cache.off
  <2>4. \A o \in s.ledger : o <= k
      BY <2>3, <1>1, <1>4 DEF Serves
  <2>5. k # 0
      BY <2>1, <2>4, <1>4, <1>1
  <2>6. /\ k \in 1 .. Len(t) /\ ~t[k].bad /\ t[k].ev = s.cache.ev /\ t[k].run = s.cache.run
      BY <2>5, <1>1 DEF Serves
  <2>7. t[k].run = "run" /\ t[k].ev \in Nat
      BY <2>1, <2>6, <1>1 DEF Messages
  <2>8. k \in s.ledger
      BY <2>3, <2>6, <1>1 DEF Stored
  <2>9. \A o \in s.ledger : t[o].ev <= t[k].ev
    <3>1. SUFFICES ASSUME NEW o \in s.ledger, o < k
                   PROVE  t[o].ev <= t[k].ev
        BY <2>4, <2>7, <1>1, <1>4
    <3>. QED
        BY <3>1, <2>6, <2>7, <1>1, <1>4 DEF Sends
  <2>10. PICK o \in s.ledger : t[o].ev = s.current.ev
      BY <2>1, <1>1 DEF Newest
  <2>11. t[k].ev <= s.current.ev
      BY <2>8, <1>1 DEF Newest
  <2>. QED
      BY <2>6, <2>7, <2>9, <2>10, <2>11, <1>1
<1>. QED
    BY <1>2, <1>5, <1>6

\* The order command center: what it says of orders is true, and its stores agree.
THEOREM OrdersAlways ==
  ASSUME OrderBounds
  PROVE  OC!Init /\ [][OC!Next]_s =>
         [](OC!PublishedIsTrue /\ OC!AuditTellsState /\ OC!PassIsTrue
            /\ OC!CommittedIsDurable /\ OC!CurrentIsNewest /\ OC!CachesConverge)
<1>1. OC!Init => OrderInv(s)
    BY OrderInit
<1>2. OrderInv(s) /\ [OC!Next]_s => OrderInv(s)'
    BY OrderStep
<1>3. OrderInv(s) =>
        OC!PublishedIsTrue /\ OC!AuditTellsState /\ OC!PassIsTrue
        /\ OC!CommittedIsDurable /\ OC!CurrentIsNewest /\ OC!CachesConverge
    BY LedgersHold, StoresHold
<1>. QED
    BY <1>1, <1>2, <1>3, PTL

-----------------------------------------------------------------------------
(* StateStore.  The invariants are about a state b of the backend and its  *)
(* users.                                                                  *)

\* Any lifetime; the clock starts at 1.
StoreBounds == Ttl \in Nat /\ MaxClock \in Nat \ {0} /\ MaxSaves \in Nat

Resets == {"idle", "missing", "get", "delete", "fallback", "deleted", "cleared"}

Entries == [value : Nat, ident : BOOLEAN, exp : Nat]

StoreStates ==
  [backend : {"memory", "sqlite"}, who : {KV!Clients, KV!Commands \union {"p"}}, file : BOOLEAN,
   table : [KV!FullKeys -> Entries], clock : Nat,
   get : [KV!Clients -> KV!Marks \union {<<>>}], cmd : [KV!Commands -> Resets],
   run : {"down", "up"}, saves : Nat, owners : [KV!Marks -> SUBSET KV!Clients],
   until : [KV!FullKeys -> Nat], raced : BOOLEAN, folded : BOOLEAN, clean : BOOLEAN]

\* Somebody's entry was taken.
Taken(b) == b.raced \/ b.folded

\* The history of an entry that is there is the entry's own; a checkpoint never expires.
UntilIsTrue(b) ==
  /\ \A k \in KV!FullKeys : b.table[k] # KV!Absent => b.until[k] = b.table[k].exp
  /\ b.table[KV!Checkpoint] # KV!Absent => b.table[KV!Checkpoint].exp = KV!Never

\* What has to last is there.
Lasts(b) ==
  \A k \in KV!FullKeys : b.clock < b.until[k] =>
      \/ b.table[k] # KV!Absent /\ b.clock < b.table[k].exp
      \/ k # KV!Checkpoint /\ Taken(b)

\* A key is new to one client at most.
OneOwner(b) ==
  \A k \in KV!Marks : Taken(b) \/ \E c \in KV!Clients : b.owners[k] \subseteq {c}

\* No position is left after a reset.
NoPosition(b) == b.clean => b.table[KV!Checkpoint].value = 0

StoreInv(b) ==
  /\ b \in StoreStates /\ b.clock <= MaxClock
  /\ UntilIsTrue(b) /\ Lasts(b) /\ OneOwner(b) /\ NoPosition(b)

\* The keys of the three namespaces are told apart.
LEMMA KeysAre ==
  /\ KV!Checkpoint \in KV!FullKeys /\ KV!Checkpoint \notin KV!Marks
  /\ KV!Marks \subseteq KV!FullKeys /\ <<>> \notin KV!FullKeys
  /\ \A k \in KV!FullKeys : k \in KV!Marks \/ k = KV!Checkpoint
  /\ \A k \in KV!Marks : k[1] \in {"dedup", "Dedup"}
  /\ KV!Checkpoint[1] = "checkpoint"
BY DEF KV!Checkpoint, KV!Marks, KV!FullKeys

\* An entry that is there is not Absent; a checkpoint outlives the clock.
LEMMA Times ==
  ASSUME StoreBounds
  PROVE  /\ KV!Absent \in Entries /\ KV!Absent.value = 0 /\ KV!Absent.exp = 0
         /\ KV!Never \in Nat /\ KV!Never > MaxClock /\ KV!Never > 0
BY DEF StoreBounds, Entries, KV!Absent, KV!Never

\* An entry that says something is not Absent.
LEMMA EntryIs ==
  ASSUME NEW v \in Nat, NEW i \in BOOLEAN, NEW x \in Nat
  PROVE  /\ KV!Entry(v, i, x) \in Entries /\ KV!Entry(v, i, x).value = v
         /\ KV!Entry(v, i, x).exp = x
         /\ (v # 0 \/ x # 0) => KV!Entry(v, i, x) # KV!Absent
<1>1. KV!Entry(v, i, x) = [value |-> v, ident |-> i, exp |-> x]
    BY DEF KV!Entry
<1>2. KV!Absent.value = 0 /\ KV!Absent.exp = 0
    BY DEF KV!Absent
<1>3. KV!Entry(v, i, x) \in Entries
    BY <1>1 DEF Entries
<1>4. KV!Entry(v, i, x).value = v /\ KV!Entry(v, i, x).exp = x
    BY <1>1
<1>. QED
    BY <1>2, <1>3, <1>4

\* The fields of a state.
LEMMA StoreFields ==
  ASSUME NEW b \in StoreStates
  PROVE  /\ b.table \in [KV!FullKeys -> Entries] /\ b.until \in [KV!FullKeys -> Nat]
         /\ b.clock \in Nat /\ b.saves \in Nat /\ b.get \in [KV!Clients -> KV!Marks \union {<<>>}]
         /\ b.owners \in [KV!Marks -> SUBSET KV!Clients] /\ b.cmd \in [KV!Commands -> Resets]
         /\ b.raced \in BOOLEAN /\ b.folded \in BOOLEAN /\ b.clean \in BOOLEAN
         /\ b.backend \in {"memory", "sqlite"}
         /\ \A k \in KV!FullKeys : /\ b.table[k] \in Entries /\ b.table[k].exp \in Nat
                                   /\ b.table[k].value \in Nat /\ b.until[k] \in Nat
BY DEF StoreStates, Entries

\* Entries go: an entry that has to last goes with its history, or is noted as taken.
LEMMA UserGoes ==
  ASSUME StoreBounds, StoreInv(s), s' \in StoreStates,
         s'.clock = s.clock, s'.owners = s.owners,
         s.raced => s'.raced, s.folded => s'.folded,
         \A k \in KV!FullKeys :
           /\ s'.table[k] = s.table[k] \/ s'.table[k] = KV!Absent
           /\ s'.until[k] = s.until[k] \/ (s'.until[k] = 0 /\ s'.table[k] = KV!Absent)
           /\ s'.table[k] # s.table[k] /\ s'.until[k] # 0 /\ KV!Live(s.table[k]) =>
                k # KV!Checkpoint /\ Taken(s'),
         s'.clean /\ ~s.clean => s'.table[KV!Checkpoint] = KV!Absent
  PROVE  StoreInv(s')
<1>0. s \in StoreStates
    BY DEF StoreInv
<1>1. Taken(s) => Taken(s')
    BY DEF Taken
<1>2. UntilIsTrue(s')
    BY <1>0, StoreFields, KeysAre, Times DEF StoreInv, UntilIsTrue
<1>3. Lasts(s')
  <2> SUFFICES ASSUME NEW k \in KV!FullKeys, s'.clock < s'.until[k],
                      ~(k # KV!Checkpoint /\ Taken(s'))
               PROVE  s'.table[k] # KV!Absent /\ s'.clock < s'.table[k].exp
    BY DEF Lasts
  <2>1. s'.until[k] # 0
    BY <1>0, StoreFields
  <2>2. s'.until[k] = s.until[k]
    BY <2>1
  <2>3. s.table[k] # KV!Absent /\ s.clock < s.table[k].exp
    BY <1>1, <2>2 DEF StoreInv, Lasts
  <2>4. KV!Live(s.table[k])
    BY <2>3 DEF KV!Live
  <2>5. s'.table[k] = s.table[k]
    BY <2>1, <2>4
  <2>6. QED
    BY <2>3, <2>5
<1>4. OneOwner(s')
    BY <1>1 DEF StoreInv, OneOwner
<1>5. NoPosition(s')
    BY KeysAre, Times DEF StoreInv, NoPosition
<1>. QED
    BY <1>2, <1>3, <1>4, <1>5 DEF StoreInv

\* An entry is stored.
LEMMA Stores ==
  ASSUME StoreBounds, StoreInv(s), s' \in StoreStates, NEW k \in KV!FullKeys, NEW e \in Entries,
         e # KV!Absent, k = KV!Checkpoint => e.exp = KV!Never,
         s'.table = [s.table EXCEPT ![k] = e], s'.until = [s.until EXCEPT ![k] = e.exp],
         s'.clock = s.clock, s'.raced = s.raced, s'.folded = s.folded,
         OneOwner(s'), k = KV!Checkpoint /\ s'.clean => e.value = 0,
         k # KV!Checkpoint => s'.clean = s.clean
  PROVE  StoreInv(s')
<1>0. s \in StoreStates
    BY DEF StoreInv
<1>1. /\ s'.table[k] = e /\ s'.until[k] = e.exp
      /\ \A x \in KV!FullKeys : x # k =>
            s'.table[x] = s.table[x] /\ s'.until[x] = s.until[x]
    BY <1>0, StoreFields
<1>2. Taken(s) <=> Taken(s')
    BY DEF Taken
<1>3. UntilIsTrue(s')
    BY <1>1, KeysAre DEF StoreInv, UntilIsTrue
<1>4. Lasts(s')
  <2> SUFFICES ASSUME NEW x \in KV!FullKeys, s'.clock < s'.until[x],
                      ~(x # KV!Checkpoint /\ Taken(s'))
               PROVE  s'.table[x] # KV!Absent /\ s'.clock < s'.table[x].exp
    BY DEF Lasts
  <2>1. CASE x = k
    BY <1>1, <2>1
  <2>2. CASE x # k
    BY <1>1, <1>2, <2>2 DEF StoreInv, Lasts
  <2>3. QED
    BY <2>1, <2>2
<1>5. NoPosition(s')
    BY <1>1, KeysAre DEF StoreInv, NoPosition
<1>. QED
    BY <1>3, <1>4, <1>5 DEF StoreInv

\* The table without some of its entries.
LEMMA Without ==
  ASSUME StoreBounds, s \in StoreStates, NEW ks
  PROVE  \E T \in [KV!FullKeys -> Entries] :
           /\ KV!Remove(s, ks) = [s EXCEPT !.table = T]
           /\ \A k \in KV!FullKeys : T[k] = IF k \in ks THEN KV!Absent ELSE s.table[k]
<1> DEFINE T == [k \in KV!FullKeys |-> IF k \in ks THEN KV!Absent ELSE s.table[k]]
<1>1. T \in [KV!FullKeys -> Entries]
    BY StoreFields, Times
<1>2. \A k \in KV!FullKeys : T[k] = IF k \in ks THEN KV!Absent ELSE s.table[k]
    OBVIOUS
<1>3. KV!Remove(s, ks) = [s EXCEPT !.table = T]
    BY DEF KV!Remove
<1> HIDE DEF T
<1>. QED
    BY <1>1, <1>2, <1>3

\* The histories without some keys.
LEMMA Forgotten ==
  ASSUME s \in StoreStates, NEW ks
  PROVE  \E U \in [KV!FullKeys -> Nat] :
           /\ U = [k \in KV!FullKeys |-> IF k \in ks THEN 0 ELSE s.until[k]]
           /\ \A k \in KV!FullKeys : /\ k \in ks => U[k] = 0
                                     /\ k \notin ks => U[k] = s.until[k]
<1> DEFINE U == [k \in KV!FullKeys |-> IF k \in ks THEN 0 ELSE s.until[k]]
<1>1. U \in [KV!FullKeys -> Nat]
    BY StoreFields
<1>2. \A k \in KV!FullKeys : k \in ks => U[k] = 0
    OBVIOUS
<1>3. \A k \in KV!FullKeys : k \notin ks => U[k] = s.until[k]
    OBVIOUS
<1> HIDE DEF U
<1>. QED
    BY <1>1, <1>2, <1>3 DEF U

\* A get meets an expired row, and removes it or will.
LEMMA ContainsInv ==
  ASSUME StoreBounds, StoreInv(s), NEW c \in KV!Clients, NEW x \in KV!Marks, KV!Contains(c, x)
  PROVE  StoreInv(s')
<1>0. s \in StoreStates /\ x \in KV!FullKeys
    BY KeysAre DEF StoreInv
<1>1. CASE s.backend = "memory"
  <2> DEFINE X == {x}
  <2>1. s' = KV!Remove(s, X)
    BY <1>1 DEF KV!Contains
  <2>2. \A k \in X : ~KV!Live(s.table[k])
    BY <1>0, StoreFields DEF KV!Contains, KV!Expired, KV!Live
  <2> HIDE DEF X
  <2>3. PICK T \in [KV!FullKeys -> Entries] :
          /\ s' = [s EXCEPT !.table = T]
          /\ \A k \in KV!FullKeys : T[k] = IF k \in X THEN KV!Absent ELSE s.table[k]
    BY <1>0, <2>1, Without
  <2>4. s' \in StoreStates
    BY <1>0, <2>3 DEF StoreStates
  <2>5. /\ s'.table = T /\ s'.until = s.until /\ s'.clock = s.clock
        /\ s'.owners = s.owners /\ s'.raced = s.raced /\ s'.folded = s.folded
        /\ s'.clean = s.clean
    BY <1>0, <2>3 DEF StoreStates
  <2>6. QED
    BY <2>2, <2>3, <2>4, <2>5, UserGoes
<1>2. CASE s.backend # "memory"
  <2>1. s' = [s EXCEPT !.get = [s.get EXCEPT ![c] = x]]
    BY <1>2 DEF KV!Contains
  <2>2. [s.get EXCEPT ![c] = x] \in [KV!Clients -> KV!Marks \union {<<>>}]
    BY <1>0, StoreFields
  <2>3. s' \in StoreStates
    BY <1>0, <2>1, <2>2 DEF StoreStates
  <2>4. /\ s'.table = s.table /\ s'.until = s.until /\ s'.clock = s.clock
        /\ s'.owners = s.owners /\ s'.raced = s.raced /\ s'.folded = s.folded
        /\ s'.clean = s.clean
    BY <1>0, <2>1 DEF StoreStates
  <2>5. QED
    BY <2>3, <2>4, UserGoes
<1>. QED
    BY <1>1, <1>2

\* The second statement of a get removes what is there by now.
LEMMA DeleteExpiredInv ==
  ASSUME StoreBounds, StoreInv(s), NEW c \in KV!Clients, KV!DeleteExpired(c)
  PROVE  StoreInv(s')
<1>0. s \in StoreStates
    BY DEF StoreInv
<1>1. PICK x \in KV!Marks : s.get[c] = x
    BY <1>0, StoreFields DEF KV!DeleteExpired
<1> DEFINE X == {x}
           G == [s.get EXCEPT ![c] = <<>>]
           R == s.raced \/ KV!Live(s.table[x])
<1>2. G \in [KV!Clients -> KV!Marks \union {<<>>}]
    BY <1>0, StoreFields
<1>3. s' = [KV!Remove(s, X) EXCEPT !.get = G, !.raced = R]
    BY <1>0, <1>1 DEF KV!DeleteExpired, KV!Remove, StoreStates
<1>4. \A k \in X : k = x /\ k # KV!Checkpoint
    BY KeysAre
<1>5. R \in BOOLEAN
    OBVIOUS
<1>6. s.raced => R
    OBVIOUS
<1>7. KV!Live(s.table[x]) => R
    OBVIOUS
<1> HIDE DEF X, G, R
<1>a. PICK T \in [KV!FullKeys -> Entries] :
        /\ KV!Remove(s, X) = [s EXCEPT !.table = T]
        /\ \A k \in KV!FullKeys : T[k] = IF k \in X THEN KV!Absent ELSE s.table[k]
    BY <1>0, Without
<1>8. s' = [s EXCEPT !.table = T, !.get = G, !.raced = R]
    BY <1>3, <1>a
<1>9. s' \in StoreStates
    BY <1>0, <1>2, <1>5, <1>8 DEF StoreStates
<1>10. /\ s'.table = T /\ s'.until = s.until /\ s'.clock = s.clock
       /\ s'.owners = s.owners /\ s'.raced = R /\ s'.folded = s.folded
       /\ s'.clean = s.clean
    BY <1>0, <1>8 DEF StoreStates
<1>11. s.raced => s'.raced
    BY <1>6, <1>10
<1>12. KV!Live(s.table[x]) => Taken(s')
    BY <1>7, <1>10 DEF Taken
<1>. QED
    BY <1>4, <1>a, <1>9, <1>10, <1>11, <1>12, UserGoes

\* Counting removes the expired entries of every namespace.
LEMMA CountInv ==
  ASSUME StoreBounds, StoreInv(s), KV!Count PROVE StoreInv(s')
<1>0. s \in StoreStates
    BY DEF StoreInv
<1> DEFINE X == {k \in KV!FullKeys : KV!Expired(s.table[k])}
<1>1. s' = KV!Remove(s, X)
    BY DEF KV!Count
<1>2. \A k \in KV!FullKeys : k \in X => ~KV!Live(s.table[k])
    BY <1>0, StoreFields DEF KV!Expired, KV!Live
<1> HIDE DEF X
<1>3. PICK T \in [KV!FullKeys -> Entries] :
        /\ s' = [s EXCEPT !.table = T]
        /\ \A k \in KV!FullKeys : T[k] = IF k \in X THEN KV!Absent ELSE s.table[k]
    BY <1>0, <1>1, Without
<1>4. s' \in StoreStates
    BY <1>0, <1>3 DEF StoreStates
<1>5. /\ s'.table = T /\ s'.until = s.until /\ s'.clock = s.clock
      /\ s'.owners = s.owners /\ s'.raced = s.raced /\ s'.folded = s.folded
      /\ s'.clean = s.clean
    BY <1>0, <1>3 DEF StoreStates
<1>. QED
    BY <1>2, <1>3, <1>4, <1>5, UserGoes

\* A client removes its key: the history goes with the entry.
LEMMA DeleteInv ==
  ASSUME StoreBounds, StoreInv(s), NEW c \in KV!Clients, NEW x \in KV!Marks, KV!Delete(c, x)
  PROVE  StoreInv(s')
<1>0. s \in StoreStates
    BY DEF StoreInv
<1> DEFINE X == {x}
<1>1. s' = KV!Forget(KV!Remove(s, X), X)
    BY DEF KV!Delete
<1> HIDE DEF X
<1>a. PICK T \in [KV!FullKeys -> Entries] :
        /\ KV!Remove(s, X) = [s EXCEPT !.table = T]
        /\ \A k \in KV!FullKeys : T[k] = IF k \in X THEN KV!Absent ELSE s.table[k]
    BY <1>0, Without
<1>b. PICK U \in [KV!FullKeys -> Nat] :
        /\ U = [k \in KV!FullKeys |-> IF k \in X THEN 0 ELSE s.until[k]]
        /\ \A k \in KV!FullKeys : /\ k \in X => U[k] = 0
                                  /\ k \notin X => U[k] = s.until[k]
    BY <1>0, Forgotten
<1>3. s' = [s EXCEPT !.table = T, !.until = U]
    BY <1>0, <1>1, <1>a, <1>b DEF KV!Forget, StoreStates
<1>4. s' \in StoreStates
    BY <1>0, <1>3 DEF StoreStates
<1>5. /\ s'.table = T /\ s'.until = U /\ s'.clock = s.clock
      /\ s'.owners = s.owners /\ s'.raced = s.raced /\ s'.folded = s.folded
      /\ s'.clean = s.clean
    BY <1>0, <1>3 DEF StoreStates
<1>. QED
    BY <1>a, <1>b, <1>4, <1>5, UserGoes

\* A reset removes the checkpoint.
LEMMA DeleteRemovesInv ==
  ASSUME StoreBounds, StoreInv(s), NEW c \in KV!Commands, KV!DeleteRemoves(c)
  PROVE  StoreInv(s')
<1>0. s \in StoreStates
    BY DEF StoreInv
<1> DEFINE X == {KV!Checkpoint}
           M == [s.cmd EXCEPT ![c] = "deleted"]
<1>1. s' = [KV!Goes(KV!Forget(KV!Remove(s, X), X), c, "deleted") EXCEPT !.clean = TRUE]
    BY DEF KV!DeleteRemoves
<1>m. M \in [KV!Commands -> Resets]
  <2>1. s.cmd \in [KV!Commands -> Resets] /\ "deleted" \in Resets
    BY <1>0, StoreFields DEF Resets
  <2>2. QED
    BY <2>1
<1>x. KV!Checkpoint \in X
    OBVIOUS
<1> HIDE DEF X
<1>a. PICK T \in [KV!FullKeys -> Entries] :
        /\ KV!Remove(s, X) = [s EXCEPT !.table = T]
        /\ \A k \in KV!FullKeys : T[k] = IF k \in X THEN KV!Absent ELSE s.table[k]
    BY <1>0, Without
<1>b. PICK U \in [KV!FullKeys -> Nat] :
        /\ U = [k \in KV!FullKeys |-> IF k \in X THEN 0 ELSE s.until[k]]
        /\ \A k \in KV!FullKeys : /\ k \in X => U[k] = 0
                                  /\ k \notin X => U[k] = s.until[k]
    BY <1>0, Forgotten
<1>3. s' = [s EXCEPT !.table = T, !.until = U, !.cmd = M, !.clean = TRUE]
    BY <1>0, <1>1, <1>a, <1>b DEF KV!Forget, KV!Goes, StoreStates
<1> HIDE DEF M
<1>4. s' \in StoreStates
    BY <1>0, <1>3, <1>m DEF StoreStates
<1>5. /\ s'.table = T /\ s'.until = U /\ s'.clock = s.clock
      /\ s'.owners = s.owners /\ s'.raced = s.raced /\ s'.folded = s.folded
    BY <1>0, <1>3 DEF StoreStates
<1>. QED
    BY <1>a, <1>b, <1>4, <1>5, <1>x, KeysAre, UserGoes

\* A clear reaches the keys of its namespace, and of the same name in another case.
LEMMA ClearInv ==
  ASSUME StoreBounds, StoreInv(s), NEW c \in KV!Clients, NEW ns \in {"dedup", "Dedup"},
         KV!Clear(c, ns)
  PROVE  StoreInv(s')
<1>0. s \in StoreStates
    BY DEF StoreInv
<1> DEFINE hit == {k \in KV!FullKeys : KV!StartsWith(k, ns)}
           own == {k \in KV!Marks : k[1] = ns}
           F == s.folded \/ \E k \in hit : k[1] # ns /\ KV!Live(s.table[k])
<1>1. KV!Checkpoint \notin hit /\ \A k \in own : k \in hit
    BY KeysAre DEF KV!StartsWith, KV!Folded
<1>2. s' = [KV!Forget(KV!Remove(s, hit), own) EXCEPT !.folded = F]
  <2>1. s' = [KV!Forget(KV!Remove(s, hit), own) EXCEPT
                 !.folded = @ \/ \E k \in hit : k[1] # ns /\ KV!Live(s.table[k])]
    BY DEF KV!Clear
  <2>2. KV!Forget(KV!Remove(s, hit), own).folded = s.folded
    BY <1>0 DEF KV!Forget, KV!Remove, StoreStates
  <2> HIDE DEF hit, own
  <2>3. QED
    BY <2>1, <2>2
<1>3. F \in BOOLEAN
    OBVIOUS
<1>4. s.folded => F
    OBVIOUS
<1>5. \A k \in hit : k \in own \/ (KV!Live(s.table[k]) => F)
    BY <1>1, KeysAre
<1> HIDE DEF hit, own, F
<1>a. PICK T \in [KV!FullKeys -> Entries] :
        /\ KV!Remove(s, hit) = [s EXCEPT !.table = T]
        /\ \A k \in KV!FullKeys : T[k] = IF k \in hit THEN KV!Absent ELSE s.table[k]
    BY <1>0, Without
<1>b. PICK U \in [KV!FullKeys -> Nat] :
        /\ U = [k \in KV!FullKeys |-> IF k \in own THEN 0 ELSE s.until[k]]
        /\ \A k \in KV!FullKeys : /\ k \in own => U[k] = 0
                                  /\ k \notin own => U[k] = s.until[k]
    BY <1>0, Forgotten
<1>7. s' = [s EXCEPT !.table = T, !.until = U, !.folded = F]
    BY <1>0, <1>2, <1>a, <1>b DEF KV!Forget, StoreStates
<1>8. s' \in StoreStates
    BY <1>0, <1>3, <1>7 DEF StoreStates
<1>9. /\ s'.table = T /\ s'.until = U /\ s'.clock = s.clock
      /\ s'.owners = s.owners /\ s'.raced = s.raced /\ s'.folded = F
      /\ s'.clean = s.clean
    BY <1>0, <1>7 DEF StoreStates
<1>10. s.folded => s'.folded
    BY <1>4, <1>9
<1>11. F => Taken(s')
    BY <1>9 DEF Taken
<1>12. ASSUME NEW k \in KV!FullKeys
       PROVE  /\ s'.table[k] = s.table[k] \/ s'.table[k] = KV!Absent
              /\ s'.until[k] = s.until[k] \/ (s'.until[k] = 0 /\ s'.table[k] = KV!Absent)
              /\ s'.table[k] # s.table[k] /\ s'.until[k] # 0 /\ KV!Live(s.table[k]) =>
                   k # KV!Checkpoint /\ Taken(s')
    BY <1>1, <1>5, <1>a, <1>b, <1>9, <1>11
<1>. QED
    BY <1>8, <1>9, <1>10, <1>12, UserGoes

\* A key is marked: it is new to this client, or somebody's entry was taken.
LEMMA MarkIfNewInv ==
  ASSUME StoreBounds, StoreInv(s), NEW c \in KV!Clients, NEW x \in KV!Marks, KV!MarkIfNew(c, x)
  PROVE  StoreInv(s')
<1>0. s \in StoreStates /\ x \in KV!FullKeys /\ x # KV!Checkpoint
    BY KeysAre DEF StoreInv
<1>1. PICK n \in Nat : n = s.clock + Ttl
    BY <1>0, StoreFields DEF StoreBounds
<1>2. PICK e \in Entries : e = KV!Entry(1, FALSE, n) /\ e.exp = n /\ e # KV!Absent
  <2>1. 1 \in Nat /\ 1 # 0 /\ FALSE \in BOOLEAN
    OBVIOUS
  <2>2. /\ KV!Entry(1, FALSE, n) \in Entries /\ KV!Entry(1, FALSE, n).exp = n
        /\ KV!Entry(1, FALSE, n) # KV!Absent
    BY <2>1, EntryIs
  <2>3. QED
    BY <2>2
<1>3. PICK o \in SUBSET KV!Clients :
        /\ o = (IF s.clock >= s.until[x] THEN {c} ELSE s.owners[x] \union {c})
        /\ Taken(s) \/ o \subseteq {c}
  <2>1. s.owners[x] \in SUBSET KV!Clients
    BY <1>0, StoreFields
  <2>2. CASE s.clock >= s.until[x]
    BY <2>1, <2>2
  <2>3. CASE ~(s.clock >= s.until[x])
    <3>1. s.clock < s.until[x]
      BY <1>0, <2>3, StoreFields
    <3>2. Taken(s)
      BY <1>0, <3>1 DEF StoreInv, Lasts, KV!MarkIfNew, KV!SetIfAbsent, KV!Live
    <3>3. QED
      BY <2>1, <2>3, <3>2
  <2>4. QED
    BY <2>2, <2>3
<1> DEFINE T == [s.table EXCEPT ![x] = e]
           U == [s.until EXCEPT ![x] = e.exp]
           O == [s.owners EXCEPT ![x] = o]
<1>4. /\ T \in [KV!FullKeys -> Entries] /\ U \in [KV!FullKeys -> Nat]
      /\ O \in [KV!Marks -> SUBSET KV!Clients]
    BY <1>0, <1>2, StoreFields
<1>5. O[x] = o /\ \A k \in KV!Marks : k # x => O[k] = s.owners[k]
    BY <1>0, StoreFields
<1>6. s' = [s EXCEPT !.table = T, !.until = U, !.owners = O]
    BY <1>0, <1>1, <1>2, <1>3 DEF KV!MarkIfNew, KV!Set, StoreStates
<1> HIDE DEF T, U, O
<1>7. s' \in StoreStates
    BY <1>0, <1>4, <1>6 DEF StoreStates
<1>8. /\ s'.table = T /\ s'.until = U /\ s'.owners = O /\ s'.clock = s.clock
      /\ s'.raced = s.raced /\ s'.folded = s.folded /\ s'.clean = s.clean
    BY <1>0, <1>6 DEF StoreStates
<1>9. OneOwner(s')
    BY <1>3, <1>5, <1>8 DEF OneOwner, Taken, StoreInv
<1>. QED
    BY <1>0, <1>2, <1>7, <1>8, <1>9, Stores DEF T, U

\* A run saves its checkpoint, or a reset writes the one that stands for none.
LEMMA CheckpointInv ==
  ASSUME StoreBounds, StoreInv(s), KV!Save \/ \E c \in KV!Commands : KV!FallbackSaves(c)
  PROVE  StoreInv(s')
<1>0. s \in StoreStates /\ KV!Checkpoint \in KV!FullKeys
    BY SMTT(60), KeysAre DEF StoreInv
<1>1. PICK e \in Entries, M \in [KV!Commands -> Resets], n \in Nat, z \in {TRUE, FALSE} :
        /\ e # KV!Absent /\ e.exp = KV!Never /\ (z => e.value = 0)
        /\ s' = [s EXCEPT !.table = [s.table EXCEPT ![KV!Checkpoint] = e],
                            !.until = [s.until EXCEPT ![KV!Checkpoint] = e.exp],
                            !.cmd = M, !.saves = n, !.clean = z]
  <2>1. CASE KV!Save
    <3>1. PICK n \in Nat : n = s.saves + 1
      BY <1>0, StoreFields
    <3>2. PICK e \in Entries : e = KV!Entry(n, TRUE, KV!Never) /\ e # KV!Absent /\ e.exp = KV!Never
      <4>1. KV!Never \in Nat /\ KV!Never # 0 /\ TRUE \in BOOLEAN
        BY Times
      <4>2. /\ KV!Entry(n, TRUE, KV!Never) \in Entries /\ KV!Entry(n, TRUE, KV!Never).exp = KV!Never
            /\ KV!Entry(n, TRUE, KV!Never) # KV!Absent
        BY ZenonT(90), <4>1, EntryIs
      <4>3. QED
        BY <4>2
    <3>3. s' = [s EXCEPT !.table = [s.table EXCEPT ![KV!Checkpoint] = e],
                            !.until = [s.until EXCEPT ![KV!Checkpoint] = e.exp],
                            !.cmd = s.cmd, !.saves = n, !.clean = FALSE]
      BY <1>0, <2>1, <3>1, <3>2 DEF KV!Save, KV!Set, StoreStates
    <3>4. QED
      BY ZenonT(90), <1>0, <3>2, <3>3, StoreFields
  <2>2. CASE \E c \in KV!Commands : KV!FallbackSaves(c)
    <3>1. PICK c \in KV!Commands : KV!FallbackSaves(c)
      BY <2>2
    <3>2. PICK e \in Entries : /\ e = KV!Sentinel /\ e # KV!Absent /\ e.exp = KV!Never
                               /\ e.value = 0
      <4>1. KV!Never \in Nat /\ KV!Never # 0 /\ FALSE \in BOOLEAN /\ 0 \in Nat
        BY Times
      <4>2. /\ KV!Sentinel \in Entries /\ KV!Sentinel.exp = KV!Never
            /\ KV!Sentinel # KV!Absent /\ KV!Sentinel.value = 0
        BY <4>1, EntryIs DEF KV!Sentinel
      <4>3. QED
        BY <4>2
    <3>3. PICK M \in [KV!Commands -> Resets] : M = [s.cmd EXCEPT ![c] = "cleared"]
      BY <1>0, StoreFields DEF Resets
    <3>4. s' = [s EXCEPT !.table = [s.table EXCEPT ![KV!Checkpoint] = e],
                            !.until = [s.until EXCEPT ![KV!Checkpoint] = e.exp],
                            !.cmd = M, !.saves = s.saves, !.clean = TRUE]
      BY ZenonT(90), <1>0, <3>1, <3>2, <3>3 DEF KV!FallbackSaves, KV!Goes, KV!Set, StoreStates
    <3>5. QED
      BY ZenonT(90), <1>0, <3>2, <3>4, StoreFields
  <2>3. QED
    BY ZenonT(90), <2>1, <2>2
<1> DEFINE T == [s.table EXCEPT ![KV!Checkpoint] = e]
           U == [s.until EXCEPT ![KV!Checkpoint] = e.exp]
<1>2. T \in [KV!FullKeys -> Entries] /\ U \in [KV!FullKeys -> Nat]
    BY <1>0, <1>1, StoreFields, Times
<1>3. s' = [s EXCEPT !.table = T, !.until = U, !.cmd = M, !.saves = n, !.clean = z]
    BY <1>1
<1> HIDE DEF T, U
<1>4. s' \in StoreStates
    BY <1>0, <1>2, <1>3 DEF StoreStates
<1>5. /\ s'.table = T /\ s'.until = U /\ s'.owners = s.owners /\ s'.clock = s.clock
      /\ s'.raced = s.raced /\ s'.folded = s.folded
    BY <1>0, <1>3 DEF StoreStates
<1>6. s'.clean <=> z
    BY <1>0, <1>3 DEF StoreStates
<1>7. OneOwner(s')
    BY <1>5 DEF OneOwner, Taken, StoreInv
<1>. QED
    BY <1>0, <1>1, <1>4, <1>5, <1>6, <1>7, Stores DEF T, U

\* Time passes: an entry that has to last longer is there.
LEMMA TickInv ==
  ASSUME StoreBounds, StoreInv(s), KV!Tick PROVE StoreInv(s')
<1>0. s \in StoreStates
    BY DEF StoreInv
<1>1. PICK n \in Nat : s.clock = n /\ n < MaxClock
    BY <1>0, StoreFields DEF KV!Tick
<1>2. n + 1 \in Nat /\ n + 1 <= MaxClock /\ \A i \in Nat : n + 1 < i => n < i
    BY <1>1 DEF StoreBounds
<1>3. s' = [s EXCEPT !.clock = n + 1]
    BY <1>1 DEF KV!Tick
<1>4. s' \in StoreStates
    BY <1>0, <1>2, <1>3 DEF StoreStates
<1>5. /\ s'.clock = n + 1 /\ s'.table = s.table /\ s'.until = s.until
      /\ s'.owners = s.owners /\ s'.raced = s.raced /\ s'.folded = s.folded
      /\ s'.clean = s.clean
    BY <1>0, <1>3 DEF StoreStates
<1>6. Lasts(s')
  <2> SUFFICES ASSUME NEW k \in KV!FullKeys, n + 1 < s.until[k],
                      ~(k # KV!Checkpoint /\ Taken(s))
               PROVE  s.table[k] # KV!Absent /\ n + 1 < s.table[k].exp
    BY <1>5 DEF Lasts, Taken
  <2>1. n < s.until[k]
    BY <1>0, <1>2, StoreFields
  <2>2. s.table[k] # KV!Absent
    BY <1>1, <2>1 DEF StoreInv, Lasts
  <2>3. QED
    BY <2>2 DEF StoreInv, UntilIsTrue
<1>7. UntilIsTrue(s') /\ OneOwner(s') /\ NoPosition(s')
    BY <1>5 DEF StoreInv, UntilIsTrue, OneOwner, Taken, NoPosition
<1>. QED
    BY <1>2, <1>4, <1>5, <1>6, <1>7 DEF StoreInv

\* A run starts or ends, and a reset reads the store.
LEMMA ReadsInv ==
  ASSUME StoreBounds, StoreInv(s),
         \/ KV!RunStarts \/ KV!RunEnds
         \/ \E c \in KV!Commands : KV!ResetLoads(c) \/ KV!DeleteGets(c)
  PROVE  StoreInv(s')
<1>0. s \in StoreStates
    BY DEF StoreInv
<1>1. PICK g \in {"down", "up"}, M \in [KV!Commands -> Resets] :
        s' = [s EXCEPT !.run = g, !.cmd = M]
  <2>1. CASE KV!RunStarts \/ KV!RunEnds
    <3>1. PICK g \in {"down", "up"} : s' = [s EXCEPT !.run = g]
      BY <2>1 DEF KV!RunStarts, KV!RunEnds
    <3>2. s' = [s EXCEPT !.run = g, !.cmd = s.cmd]
      BY <1>0, <3>1 DEF StoreStates
    <3>3. QED
      BY ZenonT(90), <1>0, <3>2, StoreFields
  <2>2. CASE \E c \in KV!Commands : KV!ResetLoads(c) \/ KV!DeleteGets(c)
    <3>1. PICK c \in KV!Commands, pc \in Resets : s' = KV!Goes(s, c, pc)
      BY <2>2 DEF KV!ResetLoads, KV!DeleteGets, Resets
    <3>2. PICK M \in [KV!Commands -> Resets] : M = [s.cmd EXCEPT ![c] = pc]
      BY <1>0, StoreFields
    <3>3. s' = [s EXCEPT !.run = s.run, !.cmd = M] /\ s.run \in {"down", "up"}
      BY <1>0, <3>1, <3>2 DEF KV!Goes, StoreStates
    <3>4. QED
      BY ZenonT(90), <3>3
  <2>3. QED
    BY ZenonT(90), <2>1, <2>2
<1>2. s' \in StoreStates
    BY <1>0, <1>1 DEF StoreStates
<1>3. /\ s'.clock = s.clock /\ s'.table = s.table /\ s'.until = s.until
      /\ s'.owners = s.owners /\ s'.raced = s.raced /\ s'.folded = s.folded
      /\ s'.clean = s.clean
    BY <1>0, <1>1 DEF StoreStates
<1>. QED
    BY <1>2, <1>3, UserGoes

\* The store starts empty.
LEMMA StoreStarts ==
  ASSUME StoreBounds, KV!Init PROVE StoreInv(s)
<1>1. PICK backend \in {"memory", "sqlite"}, file \in BOOLEAN,
           who \in {KV!Clients, KV!Commands \union {"p"}} :
        s = [backend |-> backend, who |-> who, file |-> file,
              table |-> [k \in KV!FullKeys |-> KV!Absent], clock |-> 1,
              get |-> [c \in KV!Clients |-> <<>>], cmd |-> [c \in KV!Commands |-> "idle"],
              run |-> "down", saves |-> 0, owners |-> [k \in KV!Marks |-> {}],
              until |-> [k \in KV!FullKeys |-> 0], raced |-> FALSE, folded |-> FALSE,
              clean |-> FALSE]
    BY DEF KV!Init
<1>2. /\ [k \in KV!FullKeys |-> KV!Absent] \in [KV!FullKeys -> Entries]
      /\ [c \in KV!Clients |-> <<>>] \in [KV!Clients -> KV!Marks \union {<<>>}]
      /\ [c \in KV!Commands |-> "idle"] \in [KV!Commands -> Resets]
      /\ [k \in KV!Marks |-> {}] \in [KV!Marks -> SUBSET KV!Clients]
      /\ [k \in KV!FullKeys |-> 0] \in [KV!FullKeys -> Nat]
    BY Times DEF Resets
<1>4. s \in StoreStates
    BY <1>1, <1>2 DEF StoreStates
<1>5. /\ \A k \in KV!FullKeys : s.table[k] = KV!Absent /\ s.until[k] = 0
      /\ \A k \in KV!Marks : s.owners[k] = {}
      /\ s.clock = 1 /\ ~s.clean
    BY <1>1
<1>6. "p" \in KV!Clients
    BY DEF KV!Clients
<1>7. 1 <= MaxClock
    BY DEF StoreBounds
<1>8. UntilIsTrue(s) /\ NoPosition(s)
    BY <1>5, KeysAre DEF UntilIsTrue, NoPosition
<1>9. Lasts(s) /\ OneOwner(s)
    BY <1>5, <1>6 DEF Lasts, OneOwner
<1>. QED
    BY <1>4, <1>5, <1>7, <1>8, <1>9 DEF StoreInv

\* Every step keeps the invariant.
LEMMA StoreStep ==
  ASSUME StoreBounds, StoreInv(s), KV!Next
  PROVE  StoreInv(s')
BY ContainsInv, DeleteExpiredInv, CountInv, DeleteInv, DeleteRemovesInv, ClearInv, MarkIfNewInv,
   CheckpointInv, TickInv, ReadsInv DEF KV!Next

\* A shared backend keeps what its users put in it.
THEOREM StoreAlways ==
  ASSUME StoreBounds
  PROVE  KV!Init /\ [][KV!Next]_s => []KV!StateIsKept
<1>1. KV!Init => StoreInv(s)
    BY StoreStarts
<1>2. StoreInv(s) /\ [KV!Next]_s => StoreInv(s)'
  <2>1. SUFFICES ASSUME StoreInv(s), [KV!Next]_s
                 PROVE  StoreInv(s')
      BY DEF StoreInv, StoreStates, Entries, Resets, UntilIsTrue, Lasts, OneOwner, NoPosition, Taken
  <2>2. CASE UNCHANGED s
      BY <2>1, <2>2
  <2>. QED
      BY <2>1, <2>2, StoreStep
<1>3. StoreInv(s) => KV!StateIsKept
  <2>. SUFFICES ASSUME StoreInv(s) PROVE KV!StateIsKept
      OBVIOUS
  <2>1. KV!MarkedOnce
    <3>1. ASSUME NEW k \in KV!Marks, NEW c \in s.owners[k], NEW d \in s.owners[k], c # d
          PROVE  Taken(s)
      BY <3>1 DEF StoreInv, OneOwner
    <3>2. QED
      BY <3>1 DEF KV!MarkedOnce, Taken
  <2>2. KV!EntriesLast
    BY DEF StoreInv, Lasts, Taken, KV!EntriesLast, KV!Live
  <2>3. KV!ResetIsTrue
    BY DEF StoreInv, NoPosition, KV!ResetIsTrue, KV!Position
  <2>4. QED
    BY <2>1, <2>2, <2>3 DEF KV!StateIsKept
<1>. QED
    BY <1>1, <1>2, <1>3, PTL

-----------------------------------------------------------------------------
(* HttpSource.  The invariants are about a state h of the source.          *)

\* Any number of calls, any time; the settings are configurations.
HttpBounds == Settings \subseteq HS!Configs /\ MaxTime \in Nat

\* Where a call is, and where the breaker has let it through.
Places == {"idle", "lookup", "gate", "throttle", "sleep", "sent", "backoff", "store"}
Past   == {"throttle", "sleep", "sent", "backoff"}

Calls == [pc : Places, attempt : Nat, wake : Int, epoch : Nat, body : Nat]

HttpStates(c) ==
  [conf : {c}, now : Nat, calls : Nat, call : [1 .. c.callers -> Calls],
   state : {"closed", "open", "half_open"}, failures : Nat, successes : Nat,
   last_failure : Nat, last_request : Nat, cache : [body : Nat, at : Nat],
   opens : Nat, row : Nat, good : BOOLEAN, sent : Nat]

\* The breaker's counts are counts of outcomes in a row.
CountsInARow(h) ==
  /\ h.failures > 0 => ~h.good /\ h.row >= h.failures
  /\ h.successes > 0 => h.good /\ h.row >= h.successes
  /\ ~h.conf.breaker => h.state = "closed"

\* A call that was let through knows the breaker as it was, and has attempts left.
CallIsAdmitted(h, x) ==
  /\ x.pc \in Past => /\ x.epoch <= h.opens
                      /\ h.state = "open" => x.epoch < h.opens
                      /\ x.attempt >= 1
  /\ x.attempt <= h.conf.max_attempts
  /\ x.pc = "backoff" => x.attempt < h.conf.max_attempts

\* A call that sleeps will have kept the interval.
CallKeepsInterval(h, x) ==
  h.conf.callers = 1 /\ x.pc = "sleep" => x.wake >= h.last_request + h.conf.interval

CallOk(h, x) == CallIsAdmitted(h, x) /\ CallKeepsInterval(h, x)

HttpInv(h) ==
  /\ h.conf \in HS!Configs /\ h \in HttpStates(h.conf)
  /\ h.last_request = h.sent
  /\ CountsInARow(h)
  /\ \A k \in 1 .. h.conf.callers : CallOk(h, h.call[k])

\* What a step does to the breaker before it moves the call on.
Kept(h, t) ==
  /\ t \in HttpStates(h.conf) /\ t.call = h.call /\ t.now = h.now
  /\ t.last_request = h.last_request /\ t.sent = h.sent
Breaks(h, t) ==
  /\ CountsInARow(t) /\ h.opens <= t.opens
  /\ t.state = "open" => h.state = "open" \/ h.opens < t.opens
  /\ h.state = "closed" /\ t.state = "open" => ~t.good /\ t.row >= h.conf.failure_threshold
  /\ h.state = "half_open" /\ t.state = "closed" => t.good /\ t.row >= h.conf.success_threshold
  /\ h.state = "closed" => t.state # "half_open"

\* The fields of a configuration and of a state.
LEMMA HttpFields ==
  ASSUME NEW h, HttpInv(h)
  PROVE  /\ h.conf.callers \in Nat /\ h.conf.callers >= 1 /\ h.conf.breaker \in BOOLEAN
         /\ h.conf.failure_threshold \in Nat /\ h.conf.success_threshold \in Nat
         /\ h.conf.interval \in Nat /\ h.conf.max_attempts \in Nat /\ h.conf.max_attempts >= 1
         /\ h.conf.backoff \in Nat /\ h.conf.max_backoff \in Nat /\ h.conf.ttl \in Nat
         /\ h \in HttpStates(h.conf)
         /\ h.now \in Nat /\ h.calls \in Nat /\ h.call \in [1 .. h.conf.callers -> Calls]
         /\ h.state \in {"closed", "open", "half_open"}
         /\ h.failures \in Nat /\ h.successes \in Nat /\ h.last_failure \in Nat
         /\ h.last_request \in Nat /\ h.opens \in Nat /\ h.row \in Nat /\ h.good \in BOOLEAN
         /\ h.sent \in Nat
<1>1. h.conf \in HS!Configs /\ h \in HttpStates(h.conf)
    BY DEF HttpInv
<1>2. /\ h.conf.callers \in Nat /\ h.conf.callers >= 1 /\ h.conf.breaker \in BOOLEAN
      /\ h.conf.failure_threshold \in Nat /\ h.conf.success_threshold \in Nat
      /\ h.conf.interval \in Nat /\ h.conf.max_attempts \in Nat /\ h.conf.max_attempts >= 1
      /\ h.conf.backoff \in Nat /\ h.conf.max_backoff \in Nat /\ h.conf.ttl \in Nat
    BY <1>1 DEF HS!Configs
<1>3. /\ h.now \in Nat /\ h.calls \in Nat /\ h.call \in [1 .. h.conf.callers -> Calls]
      /\ h.state \in {"closed", "open", "half_open"}
      /\ h.failures \in Nat /\ h.successes \in Nat /\ h.last_failure \in Nat
      /\ h.last_request \in Nat /\ h.opens \in Nat /\ h.row \in Nat /\ h.good \in BOOLEAN
      /\ h.sent \in Nat
    BY <1>1 DEF HttpStates
<1>. QED
    BY <1>1, <1>2, <1>3

\* The fields of a call.
LEMMA CallFields ==
  ASSUME NEW x \in Calls
  PROVE  x.pc \in Places /\ x.attempt \in Nat /\ x.wake \in Int /\ x.epoch \in Nat /\ x.body \in Nat
BY DEF Calls

\* A call moves on and sends nothing.
LEMMA CallMoves ==
  ASSUME HttpInv(s), NEW t, Kept(s, t), Breaks(s, t), NEW k \in HS!Callers, NEW x \in Calls,
         s' = [t EXCEPT !.call = [s.call EXCEPT ![k] = x]],
         CallOk(t, x), s.call[k].pc # "sent" => x.pc # "sent"
  PROVE  HttpInv(s') /\ HS!BreakerStep /\ HS!RequestStep
<1>0. k \in 1 .. s.conf.callers
    BY DEF HS!Callers
<1>1. /\ s.call \in [1 .. s.conf.callers -> Calls] /\ t \in HttpStates(s.conf)
      /\ s.conf \in HS!Configs
    BY HttpFields DEF Kept, HttpInv
<1> DEFINE C == [s.call EXCEPT ![k] = x]
<1>2. /\ C \in [1 .. s.conf.callers -> Calls] /\ C[k] = x
      /\ \A j \in 1 .. s.conf.callers : j # k => C[j] = s.call[j]
    BY <1>0, <1>1
<1>3. s' = [t EXCEPT !.call = C]
    OBVIOUS
<1> HIDE DEF C
<1>4. s' \in HttpStates(s.conf)
    BY ZenonT(90), <1>1, <1>2, <1>3 DEF HttpStates
<1>5. /\ s'.conf = s.conf /\ s'.call = C /\ s'.state = t.state /\ s'.failures = t.failures
      /\ s'.successes = t.successes /\ s'.last_request = t.last_request /\ s'.opens = t.opens
      /\ s'.row = t.row /\ s'.good = t.good /\ s'.sent = t.sent /\ t.conf = s.conf
      /\ s'.now = t.now
    BY <1>1, <1>3 DEF HttpStates
<1>6. \A j \in 1 .. s'.conf.callers : CallOk(s', s'.call[j])
  <2> SUFFICES ASSUME NEW j \in 1 .. s.conf.callers PROVE CallOk(s', C[j])
    BY <1>5
  <2>1. CASE j = k
    BY <1>2, <1>5, <2>1 DEF CallOk, CallIsAdmitted, CallKeepsInterval
  <2>2. CASE j # k
    <3>1. C[j] = s.call[j] /\ CallOk(s, s.call[j]) /\ s.call[j] \in Calls
      BY <1>1, <1>2, <2>2 DEF HttpInv
    <3>a. s.call[j].epoch \in Nat
      BY <3>1, CallFields
    <3>b. s.opens \in Nat /\ t.opens \in Nat
      BY <1>1, HttpFields DEF HttpStates
    <3>2. PICK e, a, b \in Nat : s.call[j].epoch = e /\ s.opens = a /\ t.opens = b
      BY <3>a, <3>b
    <3>3. a <= b /\ (t.state = "open" => s.state = "open" \/ a < b)
      BY <3>2 DEF Breaks
    <3>4. /\ (e <= a => e <= b) /\ (e <= a /\ a < b => e < b) /\ (e < a => e < b)
      BY <3>3
    <3>5. CallIsAdmitted(s', C[j])
      BY <1>5, <3>1, <3>2, <3>3, <3>4 DEF CallOk, CallIsAdmitted
    <3>6. CallKeepsInterval(s', C[j])
      BY <1>5, <3>1 DEF CallOk, CallKeepsInterval, Kept
    <3>7. QED
      BY <3>5, <3>6 DEF CallOk
  <2>3. QED
    BY <2>1, <2>2
<1>7. CountsInARow(s')
    BY <1>5 DEF Breaks, CountsInARow
<1>8. HttpInv(s')
    BY <1>1, <1>4, <1>5, <1>6, <1>7 DEF HttpInv, Kept
<1>9. HS!BreakerStep
    BY <1>5 DEF Breaks, HS!BreakerStep
<1>10. HS!RequestStep
    BY <1>2, <1>5 DEF HS!RequestStep, HS!GoesOut, HS!Callers
<1>. QED
    BY <1>8, <1>9, <1>10

\* A call is sent: it has kept the interval, was let through and has attempts left.
LEMMA CallIsSent ==
  ASSUME HttpInv(s), NEW k \in HS!Callers, s' = HS!Send(s, k),
         s.call[k].pc \in {"throttle", "sleep"},
         s.conf.callers = 1 /\ s.last_request # HS!Never =>
             s.now - s.last_request >= s.conf.interval
  PROVE  HttpInv(s') /\ HS!BreakerStep /\ HS!RequestStep
<1>0. k \in 1 .. s.conf.callers
    BY DEF HS!Callers
<1>1. /\ s.call \in [1 .. s.conf.callers -> Calls] /\ s \in HttpStates(s.conf)
      /\ s.conf \in HS!Configs /\ s.now \in Nat /\ s.call[k] \in Calls
    BY <1>0, HttpFields DEF HttpInv
<1> DEFINE x == [s.call[k] EXCEPT !.pc = "sent"]
           C == [s.call EXCEPT ![k] = x]
<1>2. /\ x \in Calls /\ x.pc = "sent" /\ x.attempt = s.call[k].attempt
      /\ x.epoch = s.call[k].epoch
    BY <1>1 DEF Calls, Places
<1>3. s' = [s EXCEPT !.last_request = s.now, !.sent = s.now, !.call = C]
    BY <1>1 DEF HS!Send, HS!Goto, HttpStates
<1> HIDE DEF x
<1>4. /\ C \in [1 .. s.conf.callers -> Calls] /\ C[k] = x
      /\ \A j \in 1 .. s.conf.callers : j # k => C[j] = s.call[j]
    BY <1>0, <1>1, <1>2
<1> HIDE DEF C
<1>5. s' \in HttpStates(s.conf)
    BY ZenonT(90), <1>1, <1>3, <1>4 DEF HttpStates
<1>6. /\ s'.conf = s.conf /\ s'.call = C /\ s'.state = s.state /\ s'.failures = s.failures
      /\ s'.successes = s.successes /\ s'.last_request = s.now /\ s'.opens = s.opens
      /\ s'.row = s.row /\ s'.good = s.good /\ s'.sent = s.now
    BY <1>1, <1>3 DEF HttpStates
<1>7. CallOk(s, s.call[k])
    BY <1>0 DEF HttpInv
<1>8. CallOk(s', x)
    BY <1>2, <1>6, <1>7 DEF CallOk, CallIsAdmitted, CallKeepsInterval, Past
<1>9. ASSUME NEW j \in 1 .. s.conf.callers, j # k PROVE CallOk(s', C[j])
  <2>1. CallOk(s, s.call[j]) /\ C[j] = s.call[j]
    BY <1>4, <1>9 DEF HttpInv
  <2>2. s.conf.callers \in Nat /\ s.conf.callers # 1
    BY <1>0, <1>9, HttpFields
  <2>3. QED
    BY <1>6, <2>1, <2>2 DEF CallOk, CallIsAdmitted, CallKeepsInterval
<1>10. HttpInv(s')
    BY <1>1, <1>4, <1>5, <1>6, <1>8, <1>9 DEF HttpInv, CountsInARow
<1>11. HS!BreakerStep
    BY <1>6 DEF HS!BreakerStep
<1>12. s.state = "open" => s.call[k].epoch < s.opens
    BY <1>7 DEF CallOk, CallIsAdmitted, Past
<1>13. s'.call[k].attempt <= s.conf.max_attempts
    BY <1>2, <1>4, <1>6, <1>7 DEF CallOk, CallIsAdmitted
<1>14. \A j \in HS!Callers : HS!GoesOut(j) => j = k
    BY <1>4, <1>6 DEF HS!GoesOut, HS!Callers
<1>15. s.last_request = s.sent
    BY DEF HttpInv
<1>16. HS!RequestStep
    BY <1>12, <1>13, <1>14, <1>15 DEF HS!RequestStep
<1>. QED
    BY <1>10, <1>11, <1>16

\* The breaker learns of a success.
LEMMA BreakerSucceeds ==
  ASSUME HttpInv(s), NEW t, t = HS!Settled(TRUE) PROVE Kept(s, t) /\ Breaks(s, t)
<1>0. s \in HttpStates(s.conf) /\ CountsInARow(s)
    BY DEF HttpInv
<1>1. CASE ~s.conf.breaker
  <2>1. t = s
    BY <1>1 DEF HS!Settled
  <2>2. s.opens <= s.opens
    BY HttpFields
  <2>3. QED
    BY <1>0, <2>1, <2>2 DEF Kept, Breaks
<1>2. CASE s.conf.breaker
  <2>1. PICK f, u, r, n, o \in Nat :
          /\ s.failures = f /\ s.successes = u /\ s.row = r /\ s.opens = o
          /\ s.conf.success_threshold = n
    BY HttpFields
  <2>2. PICK i \in Nat : /\ i = (IF s.good = TRUE THEN r + 1 ELSE 1)
                         /\ i >= 1 /\ (s.good => i = r + 1)
    BY HttpFields
  <2>3. u + 1 \in Nat /\ 0 \in Nat /\ o <= o /\ ~(0 > 0)
    OBVIOUS
  <2>b. /\ TRUE \in BOOLEAN /\ "closed" \in {"closed", "open", "half_open"}
    OBVIOUS
  <2>4. (u > 0 => i >= u) /\ i >= u + 1
    <3>1. CASE u = 0
      BY <2>2, <3>1
    <3>2. CASE u # 0
      <4>1. u > 0
        BY <3>2
      <4>2. s.good /\ r >= u
        BY <1>0, <2>1, <4>1 DEF CountsInARow
      <4>3. i = r + 1
        BY <2>2, <4>2
      <4>4. QED
        BY <4>2, <4>3
    <3>3. QED
      BY <3>1, <3>2
  <2> DEFINE c == HS!Counted(s, TRUE)
  <2>5. c = [s EXCEPT !.row = i, !.good = TRUE]
    BY <2>1, <2>2 DEF HS!Counted
  <2>6. t = HS!OnSuccess(c)
    BY <1>2 DEF HS!Settled
  <2> HIDE DEF c
  <2>7. /\ c.failures = f /\ c.successes = u /\ c.state = s.state /\ c.conf = s.conf
    BY <1>0, <2>1, <2>5 DEF HttpStates
  <2>8. CASE s.state # "half_open"
    <3>1. t = [s EXCEPT !.row = i, !.good = TRUE, !.failures = 0]
      BY ZenonT(90), <1>0, <2>5, <2>6, <2>7, <2>8 DEF HS!OnSuccess, HttpStates
    <3>2. t \in HttpStates(s.conf)
      BY ZenonT(90), <1>0, <2>3, <2>b, <3>1 DEF HttpStates
    <3>3. /\ t.call = s.call /\ t.now = s.now /\ t.last_request = s.last_request
          /\ t.sent = s.sent /\ t.failures = 0 /\ t.successes = u /\ t.state = s.state
          /\ t.row = i /\ t.good /\ t.opens = o /\ t.conf = s.conf
      BY <1>0, <2>1, <3>1 DEF HttpStates
    <3>4. CountsInARow(t)
      BY <1>2, <2>3, <2>4, <3>3 DEF CountsInARow
    <3>5. s.opens <= t.opens
      BY <2>1, <2>3, <3>3
    <3>6. QED
      BY <2>8, <3>2, <3>3, <3>4, <3>5 DEF Kept, Breaks
  <2>9. CASE s.state = "half_open" /\ u + 1 >= n
    <3>1. t = [s EXCEPT !.row = i, !.good = TRUE, !.failures = 0, !.state = "closed",
                         !.successes = 0]
      BY <1>0, <2>1, <2>5, <2>6, <2>7, <2>9 DEF HS!OnSuccess, HttpStates
    <3>2. t \in HttpStates(s.conf)
      BY ZenonT(90), <1>0, <2>3, <2>b, <3>1 DEF HttpStates
    <3>3. /\ t.call = s.call /\ t.now = s.now /\ t.last_request = s.last_request
          /\ t.sent = s.sent /\ t.failures = 0 /\ t.successes = 0 /\ t.state = "closed"
          /\ t.row = i /\ t.good /\ t.opens = o /\ t.conf = s.conf
      BY ZenonT(90), <1>0, <2>1, <3>1 DEF HttpStates
    <3>4. CountsInARow(t)
      BY <2>3, <3>3 DEF CountsInARow
    <3>5. s.opens <= t.opens
      BY <2>1, <2>3, <3>3
    <3>6. i >= n
      BY <2>4, <2>9
    <3>7. QED
      BY <2>1, <2>9, <3>2, <3>3, <3>4, <3>5, <3>6 DEF Kept, Breaks
  <2>10. CASE s.state = "half_open" /\ ~(u + 1 >= n)
    <3>1. t = [s EXCEPT !.row = i, !.good = TRUE, !.failures = 0, !.successes = u + 1]
      BY <1>0, <2>1, <2>5, <2>6, <2>7, <2>10 DEF HS!OnSuccess, HttpStates
    <3>2. t \in HttpStates(s.conf)
      BY ZenonT(90), <1>0, <2>3, <2>b, <3>1 DEF HttpStates
    <3>3. /\ t.call = s.call /\ t.now = s.now /\ t.last_request = s.last_request
          /\ t.sent = s.sent /\ t.failures = 0 /\ t.successes = u + 1 /\ t.state = "half_open"
          /\ t.row = i /\ t.good /\ t.opens = o /\ t.conf = s.conf
      BY ZenonT(90), <1>0, <2>1, <2>10, <3>1 DEF HttpStates
    <3>4. CountsInARow(t)
      BY <1>2, <2>3, <2>4, <3>3 DEF CountsInARow
    <3>5. s.opens <= t.opens
      BY <2>1, <2>3, <3>3
    <3>6. QED
      BY <2>10, <3>2, <3>3, <3>4, <3>5 DEF Kept, Breaks
  <2>11. QED
    BY <2>8, <2>9, <2>10
<1>. QED
    BY <1>1, <1>2, HttpFields

\* The breaker learns of a failure.
LEMMA BreakerFails ==
  ASSUME HttpInv(s), NEW t, t = HS!Settled(FALSE) PROVE Kept(s, t) /\ Breaks(s, t)
<1>0. s \in HttpStates(s.conf) /\ CountsInARow(s)
    BY DEF HttpInv
<1>1. CASE ~s.conf.breaker
  <2>1. t = s
    BY <1>1 DEF HS!Settled
  <2>2. s.opens <= s.opens
    BY HttpFields
  <2>3. QED
    BY <1>0, <2>1, <2>2 DEF Kept, Breaks
<1>2. CASE s.conf.breaker
  <2>1. PICK f, u, r, n, o, w \in Nat :
          /\ s.failures = f /\ s.successes = u /\ s.row = r /\ s.opens = o
          /\ s.conf.failure_threshold = n /\ s.now = w
    BY HttpFields
  <2>2. PICK i \in Nat : /\ i = (IF s.good = FALSE THEN r + 1 ELSE 1)
                         /\ i >= 1 /\ (~s.good => i = r + 1)
    BY HttpFields
  <2>3. f + 1 \in Nat /\ 0 \in Nat /\ o + 1 \in Nat /\ o <= o + 1 /\ o < o + 1 /\ o <= o /\ ~(0 > 0)
    OBVIOUS
  <2>b. /\ FALSE \in BOOLEAN /\ "open" \in {"closed", "open", "half_open"}
    OBVIOUS
  <2>4. i >= f + 1
    <3>1. CASE f = 0
      BY <2>2, <3>1
    <3>2. CASE f # 0
      <4>1. f > 0
        BY <3>2
      <4>2. ~s.good /\ r >= f
        BY <1>0, <2>1, <4>1 DEF CountsInARow
      <4>3. i = r + 1
        BY <2>2, <4>2
      <4>4. QED
        BY <4>2, <4>3
    <3>3. QED
      BY <3>1, <3>2
  <2> DEFINE c == HS!Counted(s, FALSE)
  <2>5. c = [s EXCEPT !.row = i, !.good = FALSE]
    BY <2>1, <2>2 DEF HS!Counted
  <2>6. t = HS!OnFailure(c)
    BY <1>2 DEF HS!Settled
  <2> HIDE DEF c
  <2>7. /\ c.failures = f /\ c.opens = o /\ c.state = s.state /\ c.conf = s.conf /\ c.now = w
    BY <1>0, <2>1, <2>5 DEF HttpStates
  <2>8. CASE HS!Trips(c, f + 1)
    <3>1. t = [s EXCEPT !.row = i, !.good = FALSE, !.failures = f + 1, !.successes = 0,
                         !.last_failure = w, !.state = "open", !.opens = o + 1]
      BY <1>0, <2>5, <2>6, <2>7, <2>8 DEF HS!OnFailure, HS!Opened, HttpStates
    <3>2. t \in HttpStates(s.conf)
      <4> DEFINE b == [s EXCEPT !.row = i, !.good = FALSE, !.failures = f + 1, !.successes = 0,
                                !.last_failure = w]
      <4>1. b \in HttpStates(s.conf)
        BY <1>0, <2>3, <2>b DEF HttpStates
      <4>2. t = [b EXCEPT !.state = "open", !.opens = o + 1]
        BY <3>1
      <4> HIDE DEF b
      <4>3. QED
        BY ZenonT(90), <2>3, <2>b, <4>1, <4>2 DEF HttpStates
    <3>3. /\ t.call = s.call /\ t.now = s.now /\ t.last_request = s.last_request
          /\ t.sent = s.sent /\ t.failures = f + 1 /\ t.successes = 0 /\ t.state = "open"
          /\ t.row = i /\ ~t.good /\ t.opens = o + 1 /\ t.conf = s.conf
      BY ZenonT(90), <1>0, <2>1, <3>1 DEF HttpStates
    <3>4. CountsInARow(t)
      BY <1>2, <2>3, <2>4, <3>3 DEF CountsInARow
    <3>5. s.state = "closed" => i >= n
      <4>1. s.state = "closed" => f + 1 >= n
        BY <2>1, <2>7, <2>8 DEF HS!Trips
      <4>2. QED
        BY <2>4, <4>1
    <3>6. QED
      BY <2>1, <2>3, <3>2, <3>3, <3>4, <3>5 DEF Kept, Breaks
  <2>9. CASE ~HS!Trips(c, f + 1)
    <3>1. t = [s EXCEPT !.row = i, !.good = FALSE, !.failures = f + 1, !.successes = 0,
                         !.last_failure = w]
      BY <1>0, <2>5, <2>6, <2>7, <2>9 DEF HS!OnFailure, HttpStates
    <3>2. t \in HttpStates(s.conf)
      BY ZenonT(90), <1>0, <2>3, <2>b, <3>1 DEF HttpStates
    <3>3. /\ t.call = s.call /\ t.now = s.now /\ t.last_request = s.last_request
          /\ t.sent = s.sent /\ t.failures = f + 1 /\ t.successes = 0 /\ t.state = s.state
          /\ t.row = i /\ ~t.good /\ t.opens = o /\ t.conf = s.conf
      BY ZenonT(90), <1>0, <2>1, <3>1 DEF HttpStates
    <3>4. CountsInARow(t)
      BY <1>2, <2>3, <2>4, <3>3 DEF CountsInARow
    <3>5. s.opens <= t.opens
      BY <2>1, <2>3, <3>3
    <3>6. QED
      BY <3>2, <3>3, <3>4, <3>5 DEF Kept, Breaks
  <2>10. QED
    BY <2>8, <2>9
<1>. QED
    BY <1>1, <1>2, HttpFields

\* A step that leaves the breaker alone, or only lets a probe through.
LEMMA BreakerRests ==
  ASSUME HttpInv(s), NEW t \in HttpStates(s.conf),
         t.call = s.call, t.now = s.now, t.last_request = s.last_request, t.sent = s.sent,
         t.failures = s.failures, t.successes = s.successes, t.opens = s.opens,
         t.row = s.row, t.good = s.good,
         t.state = s.state \/ (s.conf.breaker /\ s.state = "open" /\ t.state = "half_open")
  PROVE  Kept(s, t) /\ Breaks(s, t)
<1>1. t.conf = s.conf /\ s.opens <= t.opens
  <2>1. s.opens \in Nat
    BY HttpFields
  <2>2. s.opens <= s.opens
    BY <2>1
  <2>3. QED
    BY <2>2 DEF HttpStates
<1>2. CountsInARow(t)
    BY <1>1 DEF HttpInv, CountsInARow
<1>3. Breaks(s, t)
    BY <1>1, <1>2 DEF Breaks
<1>. QED
    BY <1>3 DEF Kept

\* A call that is over bothers nobody.
LEMMA IdleIsOk ==
  ASSUME NEW t, t.conf.max_attempts \in Nat PROVE HS!Idle \in Calls /\ CallOk(t, HS!Idle)
<1>1. HS!Idle \in Calls /\ HS!Idle.pc = "idle" /\ HS!Idle.attempt = 0
    BY DEF HS!Idle, Calls, Places
<1>2. 0 <= t.conf.max_attempts
    OBVIOUS
<1>. QED
    BY <1>1, <1>2 DEF CallOk, CallIsAdmitted, CallKeepsInterval, Past

\* A call is over: served from the cache, turned away, stored, cancelled, failed or done.
LEMMA CallEnds ==
  ASSUME HttpInv(s), NEW t, Kept(s, t), Breaks(s, t), NEW k \in HS!Callers,
         s' = HS!Finished(t, k)
  PROVE  HttpInv(s') /\ HS!BreakerStep /\ HS!RequestStep
<1>1. t.conf = s.conf /\ t.call = s.call
    BY DEF Kept, HttpStates
<1>2. HS!Idle \in Calls /\ CallOk(t, HS!Idle) /\ HS!Idle.pc = "idle"
    BY <1>1, HttpFields, IdleIsOk DEF HS!Idle
<1>3. s' = [t EXCEPT !.call = [s.call EXCEPT ![k] = HS!Idle]]
    BY <1>1 DEF HS!Finished
<1>. QED
    BY <1>2, <1>3, CallMoves

\* A call goes on to another place.
LEMMA CallGoes ==
  ASSUME HttpInv(s), NEW t, Kept(s, t), Breaks(s, t), NEW k \in HS!Callers,
         NEW pc \in {"lookup", "gate", "store"}, NEW b \in Nat,
         s' = [t EXCEPT !.call = [s.call EXCEPT
                  ![k] = [s.call[k] EXCEPT !.pc = pc, !.body = b]]]
  PROVE  HttpInv(s') /\ HS!BreakerStep /\ HS!RequestStep
<1>0. k \in 1 .. s.conf.callers
    BY DEF HS!Callers
<1>1. s.call[k] \in Calls /\ CallOk(s, s.call[k]) /\ t.conf = s.conf
    BY <1>0, HttpFields DEF HttpInv, Kept, HttpStates
<1> DEFINE x == [s.call[k] EXCEPT !.pc = pc, !.body = b]
<1>2. x \in Calls /\ x.pc = pc /\ x.attempt = s.call[k].attempt
    BY <1>1 DEF Calls, Places
<1> HIDE DEF x
<1>3. CallOk(t, x)
    BY <1>1, <1>2 DEF CallOk, CallIsAdmitted, CallKeepsInterval, Past
<1>4. s' = [t EXCEPT !.call = [s.call EXCEPT ![k] = x]]
    BY DEF x
<1>. QED
    BY <1>2, <1>3, <1>4, CallMoves

\* get(): a call begins.
LEMMA GetPaced ==
  ASSUME HttpInv(s), NEW k \in HS!Callers, HS!Get(k)
  PROVE  HttpInv(s') /\ HS!BreakerStep /\ HS!RequestStep
<1>0. k \in 1 .. s.conf.callers /\ s \in HttpStates(s.conf)
    BY HttpFields DEF HS!Callers
<1>1. s.call[k] \in Calls /\ CallOk(s, s.call[k]) /\ s.call \in [1 .. s.conf.callers -> Calls]
    BY <1>0, HttpFields DEF HttpInv
<1>2. PICK n \in Nat : n = s.calls + 1
    BY HttpFields
<1> DEFINE t == [s EXCEPT !.calls = n]
<1>3. t \in HttpStates(s.conf)
    BY <1>0 DEF HttpStates
<1>4. /\ t.call = s.call /\ t.now = s.now /\ t.last_request = s.last_request
      /\ t.sent = s.sent /\ t.failures = s.failures /\ t.successes = s.successes
      /\ t.opens = s.opens /\ t.row = s.row /\ t.good = s.good /\ t.state = s.state
    BY <1>0 DEF HttpStates
<1>5. s.call[k].body \in Nat
    BY <1>1, CallFields
<1>6. PICK pc \in {"lookup", "gate", "store"} :
        s' = [t EXCEPT !.call = [s.call EXCEPT
                  ![k] = [s.call[k] EXCEPT !.pc = pc, !.body = s.call[k].body]]]
  <2>1. PICK pc \in {"lookup", "gate", "store"} : s' = HS!Goto(t, k, pc)
    BY <1>2 DEF HS!Get
  <2>2. s' = [t EXCEPT !.call = [s.call EXCEPT ![k] = [s.call[k] EXCEPT !.pc = pc]]]
    BY <1>4, <2>1 DEF HS!Goto
  <2>3. [s.call[k] EXCEPT !.pc = pc, !.body = s.call[k].body] = [s.call[k] EXCEPT !.pc = pc]
    BY <1>1 DEF Calls
  <2> HIDE DEF t
  <2>4. QED
    BY <2>2, <2>3
<1> HIDE DEF t
<1>7. Kept(s, t) /\ Breaks(s, t)
    BY <1>3, <1>4, BreakerRests
<1>. QED
    BY ZenonT(90), <1>5, <1>6, <1>7, CallGoes

\* The cache is asked; what is too old is deleted.
LEMMA LookupPaced ==
  ASSUME HttpBounds, HttpInv(s), NEW k \in HS!Callers, HS!Lookup(k)
  PROVE  HttpInv(s') /\ HS!BreakerStep /\ HS!RequestStep
<1>0. k \in 1 .. s.conf.callers /\ s \in HttpStates(s.conf)
    BY HttpFields DEF HS!Callers
<1>1. s.call[k] \in Calls /\ CallOk(s, s.call[k]) /\ s.call \in [1 .. s.conf.callers -> Calls]
    BY <1>0, HttpFields DEF HttpInv
<1>2. Kept(s, s) /\ Breaks(s, s)
    BY <1>0, BreakerRests
<1>3. CASE s' = HS!Finished(s, k)
    BY <1>2, <1>3, CallEnds
<1>4. CASE s' # HS!Finished(s, k)
  <2>1. PICK z \in [body : Nat, at : Nat] : z = [body |-> HS!Never, at |-> HS!Never]
    <3>1. HS!Never \in Nat
      BY DEF HttpBounds, HS!Never
    <3>2. QED
      BY <3>1
  <2> DEFINE t == [s EXCEPT !.cache = z]
  <2>2. t \in HttpStates(s.conf)
    BY <1>0 DEF HttpStates
  <2>3. /\ t.call = s.call /\ t.now = s.now /\ t.last_request = s.last_request
        /\ t.sent = s.sent /\ t.failures = s.failures /\ t.successes = s.successes
        /\ t.opens = s.opens /\ t.row = s.row /\ t.good = s.good /\ t.state = s.state
    BY <1>0 DEF HttpStates
  <2>4. s.call[k].body \in Nat
    BY <1>1, CallFields
  <2>5. s' = HS!Goto(t, k, "gate")
    BY <1>4, <2>1 DEF HS!Lookup
  <2>6. s' = [t EXCEPT !.call = [s.call EXCEPT ![k] = [s.call[k] EXCEPT !.pc = "gate"]]]
    BY <2>3, <2>5 DEF HS!Goto
  <2>7. [s.call[k] EXCEPT !.pc = "gate", !.body = s.call[k].body]
           = [s.call[k] EXCEPT !.pc = "gate"]
    BY <1>1 DEF Calls
  <2> HIDE DEF t
  <2>8. s' = [t EXCEPT !.call = [s.call EXCEPT
                  ![k] = [s.call[k] EXCEPT !.pc = "gate", !.body = s.call[k].body]]]
    BY <2>6, <2>7
  <2>9. Kept(s, t) /\ Breaks(s, t)
    BY <2>2, <2>3, BreakerRests
  <2>10. QED
    BY ZenonT(90), <2>4, <2>8, <2>9, CallGoes
<1>. QED
    BY <1>3, <1>4

\* The breaker lets a call through, or turns it away.
LEMMA GatePaced ==
  ASSUME HttpInv(s), NEW k \in HS!Callers, HS!Gate(k)
  PROVE  HttpInv(s') /\ HS!BreakerStep /\ HS!RequestStep
<1>0. k \in 1 .. s.conf.callers /\ s \in HttpStates(s.conf)
    BY HttpFields DEF HS!Callers
<1>1. s.call[k] \in Calls /\ CallOk(s, s.call[k]) /\ s.call \in [1 .. s.conf.callers -> Calls]
    BY <1>0, HttpFields DEF HttpInv
<1>2. Kept(s, s) /\ Breaks(s, s)
    BY <1>0, BreakerRests
<1>3. CASE s' = HS!Finished(s, k)
    BY <1>2, <1>3, CallEnds
<1>4. CASE s' # HS!Finished(s, k)
  <2>1. PICK st \in {"closed", "open", "half_open"} :
          /\ st = s.state \/ (s.conf.breaker /\ s.state = "open" /\ st = "half_open")
          /\ st # "open"
          /\ s' = HS!Admitted([s EXCEPT !.state = st], k)
    <3>1. CASE s' = HS!Admitted(s, k) /\ (~s.conf.breaker \/ s.state # "open")
      <4>1. s = [s EXCEPT !.state = s.state] /\ s.state \in {"closed", "open", "half_open"}
        BY <1>0 DEF HttpStates
      <4>2. s.state # "open"
        BY <3>1 DEF HttpInv, CountsInARow
      <4>3. QED
        BY <3>1, <4>1, <4>2
    <3>2. CASE /\ s' = HS!Admitted([s EXCEPT !.state = "half_open"], k)
               /\ s.conf.breaker /\ s.state = "open"
      BY <3>2
    <3>3. QED
      BY <1>4, <3>1, <3>2 DEF HS!Gate
  <2> DEFINE t == [s EXCEPT !.state = st]
  <2>2. t \in HttpStates(s.conf)
    BY <1>0 DEF HttpStates
  <2>3. /\ t.call = s.call /\ t.now = s.now /\ t.last_request = s.last_request
        /\ t.sent = s.sent /\ t.failures = s.failures /\ t.successes = s.successes
        /\ t.opens = s.opens /\ t.row = s.row /\ t.good = s.good /\ t.state = st
        /\ t.conf = s.conf
    BY <1>0 DEF HttpStates
  <2>4. s' = HS!Admitted(t, k)
    BY <2>1
  <2> HIDE DEF t
  <2>5. Kept(s, t) /\ Breaks(s, t)
    BY <2>1, <2>2, <2>3, BreakerRests
  <2> DEFINE x == [s.call[k] EXCEPT !.epoch = s.opens, !.attempt = 1, !.pc = "throttle"]
  <2>6. s' = [t EXCEPT !.call = [s.call EXCEPT ![k] = x]]
    <3> DEFINE y == [s.call[k] EXCEPT !.epoch = s.opens]
               z == [y EXCEPT !.attempt = 1]
               t1 == [t EXCEPT !.call = [s.call EXCEPT ![k] = y]]
               t2 == [t EXCEPT !.call = [s.call EXCEPT ![k] = z]]
    <3>1. t1.call = [s.call EXCEPT ![k] = y] /\ t1.call[k] = y
      BY <1>0, <1>1, <2>2 DEF HttpStates
    <3>2. [t EXCEPT !.call[k].epoch = t.opens, !.call[k].attempt = 1] = t2
      BY ZenonT(90), <1>0, <1>1, <2>2, <2>3, <3>1 DEF HttpStates
    <3>3. t2.call = [s.call EXCEPT ![k] = z] /\ t2.call[k] = z
      BY <1>0, <1>1, <2>2 DEF HttpStates
    <3>4. s' = [t2 EXCEPT !.call = [t2.call EXCEPT ![k] = [t2.call[k] EXCEPT !.pc = "throttle"]]]
      BY <2>4, <3>2 DEF HS!Admitted, HS!Goto
    <3>5. x = [z EXCEPT !.pc = "throttle"]
      OBVIOUS
    <3>6. [t2.call EXCEPT ![k] = x] = [s.call EXCEPT ![k] = x]
      BY <3>3
    <3>7. QED
      BY <3>3, <3>4, <3>5, <3>6
  <2>7. s.opens \in Nat /\ s.conf.max_attempts \in Nat /\ s.conf.max_attempts >= 1
    BY HttpFields
  <2>8. x \in Calls /\ x.pc = "throttle" /\ x.epoch = s.opens /\ x.attempt = 1
    BY <1>1, <2>7 DEF Calls, Places
  <2> HIDE DEF x
  <2>9. s.opens <= s.opens /\ 1 >= 1 /\ 1 <= s.conf.max_attempts
    BY <2>7
  <2>10. CallOk(t, x)
    BY <2>1, <2>3, <2>8, <2>9 DEF CallOk, CallIsAdmitted, CallKeepsInterval
  <2>11. QED
    BY <2>5, <2>6, <2>8, <2>10, CallMoves
<1>. QED
    BY <1>3, <1>4

\* _throttle: the call goes out, or sleeps until the interval is over.
LEMMA ThrottlePaced ==
  ASSUME HttpInv(s), NEW k \in HS!Callers, HS!Throttle(k)
  PROVE  HttpInv(s') /\ HS!BreakerStep /\ HS!RequestStep
<1>0. k \in 1 .. s.conf.callers /\ s \in HttpStates(s.conf)
    BY HttpFields DEF HS!Callers
<1>1. s.call[k] \in Calls /\ CallOk(s, s.call[k]) /\ s.call \in [1 .. s.conf.callers -> Calls]
    BY <1>0, HttpFields DEF HttpInv
<1>2. Kept(s, s) /\ Breaks(s, s)
    BY <1>0, BreakerRests
<1>3. PICK n, l, v \in Nat : s.now = n /\ s.last_request = l /\ s.conf.interval = v
    BY HttpFields
<1>4. s.call[k].pc = "throttle"
    BY DEF HS!Throttle
<1>5. CASE l = HS!Never \/ n - l >= v
  <2>1. HS!Wait = 0
    BY <1>3, <1>5 DEF HS!Wait
  <2>2. s' = HS!Send(s, k)
    BY <2>1 DEF HS!Throttle
  <2>3. s.last_request # HS!Never => s.now - s.last_request >= s.conf.interval
    BY <1>3, <1>5
  <2>4. QED
    BY <1>4, <2>2, <2>3, CallIsSent
<1>6. CASE ~(l = HS!Never \/ n - l >= v)
  <2>1. PICK w \in Int : /\ w = v - (n - l) /\ w # 0 /\ n + w = l + v
                         /\ n + w \in Int /\ n + w >= l + v
    <3>1. v - (n - l) \in Int /\ v - (n - l) # 0 /\ n + (v - (n - l)) = l + v
      BY <1>6
    <3>2. QED
      BY <3>1
  <2>2. HS!Wait = w
    BY <1>3, <1>6, <2>1 DEF HS!Wait
  <2> DEFINE x == [s.call[k] EXCEPT !.wake = n + w, !.pc = "sleep"]
  <2>3. s' = HS!Goto([s EXCEPT !.call[k].wake = n + w], k, "sleep")
    BY <1>3, <2>1, <2>2 DEF HS!Throttle
  <2>4. s' = [s EXCEPT !.call = [s.call EXCEPT ![k] = x]]
    BY <1>0, <1>1, <2>3 DEF HS!Goto, HttpStates
  <2>5. /\ x \in Calls /\ x.pc = "sleep" /\ x.epoch = s.call[k].epoch
        /\ x.attempt = s.call[k].attempt /\ x.wake = n + w
    BY <1>1, <2>1 DEF Calls, Places
  <2> HIDE DEF x
  <2>6. CallOk(s, x)
    BY <1>1, <1>3, <1>4, <2>1, <2>5 DEF CallOk, CallIsAdmitted, CallKeepsInterval, Past
  <2>7. QED
    BY <1>2, <2>4, <2>5, <2>6, CallMoves
<1>. QED
    BY <1>5, <1>6

\* The sleep is over, and the call goes out.
LEMMA SleepPaced ==
  ASSUME HttpInv(s), NEW k \in HS!Callers, HS!SleepEnds(k)
  PROVE  HttpInv(s') /\ HS!BreakerStep /\ HS!RequestStep
<1>0. k \in 1 .. s.conf.callers /\ s \in HttpStates(s.conf)
    BY HttpFields DEF HS!Callers
<1>1. s.call[k] \in Calls /\ CallOk(s, s.call[k]) /\ s.call \in [1 .. s.conf.callers -> Calls]
    BY <1>0, HttpFields DEF HttpInv
<1>2. PICK n, l, v \in Nat : s.now = n /\ s.last_request = l /\ s.conf.interval = v
    BY HttpFields
<1>3. PICK w \in Int : s.call[k].wake = w
    BY <1>1, CallFields
<1>4. s.call[k].pc = "sleep" /\ n >= w /\ s' = HS!Send(s, k)
    BY <1>2, <1>3 DEF HS!SleepEnds
<1>5. s.conf.callers = 1 => w >= l + v
    BY <1>1, <1>2, <1>3, <1>4 DEF CallOk, CallKeepsInterval
<1>6. s.conf.callers = 1 => n - l >= v
    BY <1>4, <1>5
<1>. QED
    BY <1>2, <1>4, <1>6, CallIsSent

\* The service answers.
LEMMA RespondsPaced ==
  ASSUME HttpInv(s), NEW k \in HS!Callers, HS!RespondsOk(k)
  PROVE  HttpInv(s') /\ HS!BreakerStep /\ HS!RequestStep
<1>0. k \in 1 .. s.conf.callers /\ s \in HttpStates(s.conf)
    BY HttpFields DEF HS!Callers
<1>1. s.call[k] \in Calls /\ CallOk(s, s.call[k]) /\ s.call \in [1 .. s.conf.callers -> Calls]
    BY <1>0, HttpFields DEF HttpInv
<1> DEFINE t == HS!Settled(TRUE)
<1>2. Kept(s, t) /\ Breaks(s, t)
    BY BreakerSucceeds
<1>3. CASE s' = HS!Finished(t, k)
    BY <1>2, <1>3, CallEnds
<1>4. CASE s' # HS!Finished(t, k)
  <2>1. s' = HS!Goto([t EXCEPT !.call[k].body = s.now], k, "store")
    BY <1>4 DEF HS!RespondsOk
  <2> HIDE DEF t
  <2>2. t \in HttpStates(s.conf) /\ t.call = s.call
    BY <1>2 DEF Kept
  <2>3. s' = [t EXCEPT !.call = [s.call EXCEPT
                  ![k] = [s.call[k] EXCEPT !.pc = "store", !.body = s.now]]]
    <3>1. s' = [t EXCEPT !.call = [s.call EXCEPT
                  ![k] = [s.call[k] EXCEPT !.body = s.now, !.pc = "store"]]]
      BY <1>0, <1>1, <2>1, <2>2 DEF HS!Goto, HttpStates
    <3>2. [s.call[k] EXCEPT !.body = s.now, !.pc = "store"]
             = [s.call[k] EXCEPT !.pc = "store", !.body = s.now]
      BY <1>1 DEF Calls
    <3>3. QED
      BY <3>1, <3>2
  <2>4. s.now \in Nat
    BY HttpFields
  <2>5. QED
    BY ZenonT(90), <1>2, <2>3, <2>4, CallGoes
<1>. QED
    BY <1>3, <1>4

\* The request fails: another attempt later, or none.
LEMMA FailsPaced ==
  ASSUME HttpInv(s), NEW k \in HS!Callers, HS!Transient(k) \/ HS!Refused(k)
  PROVE  HttpInv(s') /\ HS!BreakerStep /\ HS!RequestStep
<1>0. k \in 1 .. s.conf.callers /\ s \in HttpStates(s.conf)
    BY HttpFields DEF HS!Callers
<1>1. s.call[k] \in Calls /\ CallOk(s, s.call[k]) /\ s.call \in [1 .. s.conf.callers -> Calls]
    BY <1>0, HttpFields DEF HttpInv
<1>2. Kept(s, s) /\ Breaks(s, s)
    BY <1>0, BreakerRests
<1> DEFINE t == HS!Settled(FALSE)
<1>3. Kept(s, t) /\ Breaks(s, t)
    BY BreakerFails
<1>4. CASE s' = HS!Finished(t, k)
    BY <1>3, <1>4, CallEnds
<1>5. CASE s' # HS!Finished(t, k)
  <2>1. PICK a, n, m, b, d \in Nat :
          /\ s.call[k].attempt = a /\ s.now = n /\ s.conf.max_attempts = m
          /\ s.conf.backoff = b /\ s.conf.max_backoff = d
    BY <1>1, HttpFields, CallFields
  <2>2. s.call[k].pc = "sent" /\ a < m
    BY <1>5, <2>1 DEF HS!Transient, HS!Refused, HS!ShouldRetry
  <2>3. a >= 1
    BY <1>1, <2>1, <2>2 DEF CallOk, CallIsAdmitted, Past
  <2>4. PICK w \in Int : w = HS!Delay(a)
    <3>1. a - 1 \in Nat
      BY <2>3
    <3>2. 2 ^ (a - 1) \in Int
      BY <3>1
    <3>3. PICK q \in Int : q = 2 ^ (a - 1)
      BY <3>2
    <3>4. b * q \in Int
      OBVIOUS
    <3>5. HS!Delay(a) = IF b * q < d THEN b * q ELSE d
      BY <2>1, <3>3 DEF HS!Delay
    <3>6. QED
      BY <3>4, <3>5
  <2>5. n + w \in Int
    OBVIOUS
  <2> DEFINE x == [s.call[k] EXCEPT !.wake = n + w, !.pc = "backoff"]
  <2>6. s' = HS!Goto([s EXCEPT !.call[k].wake = n + w], k, "backoff")
    BY <1>5, <2>1, <2>4 DEF HS!Transient, HS!Refused
  <2>7. s' = [s EXCEPT !.call = [s.call EXCEPT ![k] = x]]
    BY <1>0, <1>1, <2>6 DEF HS!Goto, HttpStates
  <2>8. /\ x \in Calls /\ x.pc = "backoff" /\ x.epoch = s.call[k].epoch /\ x.attempt = a
    BY <1>1, <2>1, <2>5 DEF Calls, Places
  <2> HIDE DEF x
  <2>9. CallOk(s, x)
    BY <1>1, <2>1, <2>2, <2>3, <2>8 DEF CallOk, CallIsAdmitted, CallKeepsInterval, Past
  <2>10. QED
    BY <1>2, <2>7, <2>8, <2>9, CallMoves
<1>. QED
    BY <1>4, <1>5

\* The delay is over, and the next attempt begins.
LEMMA BackoffPaced ==
  ASSUME HttpInv(s), NEW k \in HS!Callers, HS!BackoffEnds(k)
  PROVE  HttpInv(s') /\ HS!BreakerStep /\ HS!RequestStep
<1>0. k \in 1 .. s.conf.callers /\ s \in HttpStates(s.conf)
    BY HttpFields DEF HS!Callers
<1>1. s.call[k] \in Calls /\ CallOk(s, s.call[k]) /\ s.call \in [1 .. s.conf.callers -> Calls]
    BY <1>0, HttpFields DEF HttpInv
<1>2. Kept(s, s) /\ Breaks(s, s)
    BY <1>0, BreakerRests
<1>3. PICK a, m \in Nat : s.call[k].attempt = a /\ s.conf.max_attempts = m
    BY <1>1, HttpFields, CallFields
<1>4. s.call[k].pc = "backoff"
    BY DEF HS!BackoffEnds
<1>5. a < m
    BY <1>1, <1>3, <1>4 DEF CallOk, CallIsAdmitted
<1>6. a + 1 \in Nat /\ a + 1 <= m /\ a + 1 >= 1
    BY <1>5
<1> DEFINE x == [s.call[k] EXCEPT !.attempt = a + 1, !.pc = "throttle"]
<1>7. s' = HS!Goto([s EXCEPT !.call[k].attempt = a + 1], k, "throttle")
    BY <1>0, <1>1, <1>3 DEF HS!BackoffEnds, HttpStates
<1>8. s' = [s EXCEPT !.call = [s.call EXCEPT ![k] = x]]
    BY <1>0, <1>1, <1>7 DEF HS!Goto, HttpStates
<1>9. x \in Calls /\ x.pc = "throttle" /\ x.epoch = s.call[k].epoch /\ x.attempt = a + 1
    BY <1>1, <1>6 DEF Calls, Places
<1> HIDE DEF x
<1>10. CallOk(s, x)
    BY <1>1, <1>3, <1>4, <1>6, <1>9 DEF CallOk, CallIsAdmitted, CallKeepsInterval, Past
<1>. QED
    BY <1>2, <1>8, <1>9, <1>10, CallMoves

\* The response is stored, or the call is cancelled.
LEMMA StoresPaced ==
  ASSUME HttpInv(s), NEW k \in HS!Callers, HS!Store(k) \/ HS!Cancel(k)
  PROVE  HttpInv(s') /\ HS!BreakerStep /\ HS!RequestStep
<1>0. k \in 1 .. s.conf.callers /\ s \in HttpStates(s.conf)
    BY HttpFields DEF HS!Callers
<1>1. s.call[k] \in Calls /\ CallOk(s, s.call[k]) /\ s.call \in [1 .. s.conf.callers -> Calls]
    BY <1>0, HttpFields DEF HttpInv
<1>2. Kept(s, s) /\ Breaks(s, s)
    BY <1>0, BreakerRests
<1>3. CASE HS!Cancel(k)
    BY <1>2, <1>3, CallEnds DEF HS!Cancel
<1>4. CASE HS!Store(k)
  <2>1. s.call[k].body \in Nat /\ s.now \in Nat
    BY <1>1, CallFields, HttpFields
  <2>2. PICK z \in [body : Nat, at : Nat] : z = [body |-> s.call[k].body, at |-> s.now]
    BY <2>1
  <2> DEFINE t == [s EXCEPT !.cache = z]
  <2>3. t \in HttpStates(s.conf)
    BY <1>0 DEF HttpStates
  <2>4. /\ t.call = s.call /\ t.now = s.now /\ t.last_request = s.last_request
        /\ t.sent = s.sent /\ t.failures = s.failures /\ t.successes = s.successes
        /\ t.opens = s.opens /\ t.row = s.row /\ t.good = s.good /\ t.state = s.state
    BY <1>0 DEF HttpStates
  <2>5. s' = HS!Finished(t, k)
    BY <1>4, <2>2 DEF HS!Store
  <2> HIDE DEF t
  <2>6. Kept(s, t) /\ Breaks(s, t)
    BY <2>3, <2>4, BreakerRests
  <2>7. QED
    BY <2>5, <2>6, CallEnds
<1>. QED
    BY <1>3, <1>4

\* Time passes.
LEMMA TickPaced ==
  ASSUME HttpInv(s), HS!Tick
  PROVE  HttpInv(s') /\ HS!BreakerStep /\ HS!RequestStep
<1>0. s \in HttpStates(s.conf) /\ s.conf \in HS!Configs
    BY DEF HttpInv
<1>1. PICK n \in Nat : n = s.now + 1
    BY HttpFields
<1>2. s' = [s EXCEPT !.now = n]
    BY <1>1 DEF HS!Tick
<1>3. s' \in HttpStates(s.conf)
    BY <1>0, <1>2 DEF HttpStates
<1>4. /\ s'.conf = s.conf /\ s'.call = s.call /\ s'.state = s.state
      /\ s'.failures = s.failures /\ s'.successes = s.successes /\ s'.opens = s.opens
      /\ s'.last_request = s.last_request /\ s'.row = s.row /\ s'.good = s.good
      /\ s'.sent = s.sent
    BY <1>0, <1>2 DEF HttpStates
<1>5. CountsInARow(s')
    BY <1>4 DEF HttpInv, CountsInARow
<1>6. \A k \in 1 .. s.conf.callers : CallOk(s', s.call[k])
    BY <1>4 DEF HttpInv, CallOk, CallIsAdmitted, CallKeepsInterval
<1>7. HttpInv(s')
    BY <1>0, <1>3, <1>4, <1>5, <1>6 DEF HttpInv
<1>8. HS!BreakerStep
    BY <1>4 DEF HS!BreakerStep
<1>9. HS!RequestStep
    BY <1>4 DEF HS!RequestStep, HS!GoesOut
<1>. QED
    BY <1>7, <1>8, <1>9

\* The source starts idle, its breaker closed.
LEMMA HttpStarts ==
  ASSUME HttpBounds, HS!Init PROVE HttpInv(s)
<1>1. PICK c \in Settings :
        s = [conf |-> c, now |-> 0, calls |-> 0, call |-> [k \in 1 .. c.callers |-> HS!Idle],
              state |-> "closed", failures |-> 0, successes |-> 0, last_failure |-> HS!Never,
              last_request |-> HS!Never, cache |-> [body |-> HS!Never, at |-> HS!Never],
              opens |-> 0, row |-> 0, good |-> TRUE, sent |-> HS!Never]
    BY DEF HS!Init
<1>2. c \in HS!Configs /\ c.max_attempts \in Nat
    BY DEF HttpBounds, HS!Configs
<1>3. HS!Never \in Nat
    BY DEF HttpBounds, HS!Never
<1>4. HS!Idle \in Calls
    BY DEF HS!Idle, Calls, Places
<1>5. [k \in 1 .. c.callers |-> HS!Idle] \in [1 .. c.callers -> Calls]
    BY <1>4
<1>6. s \in HttpStates(c)
    BY <1>1, <1>3, <1>5 DEF HttpStates
<1>7. /\ s.conf = c /\ s.last_request = s.sent /\ s.failures = 0 /\ s.successes = 0
      /\ s.state = "closed" /\ \A k \in 1 .. c.callers : s.call[k] = HS!Idle
    BY <1>1
<1>8. ~(0 > 0)
    OBVIOUS
<1>9. CountsInARow(s)
    BY <1>7, <1>8 DEF CountsInARow
<1>10. CallOk(s, HS!Idle)
    BY <1>2, <1>7, IdleIsOk
<1>. QED
    BY <1>2, <1>6, <1>7, <1>9, <1>10 DEF HttpInv

\* Every step keeps the invariant, and what it does to breaker and requests is paced.
LEMMA HttpStep ==
  ASSUME HttpBounds, HttpInv(s), HS!Next
  PROVE  HttpInv(s') /\ ((HS!BreakerStep /\ HS!RequestStep) \/ s' = s)
<1>1. CASE HS!Tick
  BY <1>1, TickPaced
<1>2. CASE HS!Ends
  BY <1>2 DEF HS!Ends
<1>3. CASE \E k \in HS!Callers :
             \/ HS!Get(k) \/ HS!Lookup(k) \/ HS!Gate(k) \/ HS!Throttle(k) \/ HS!SleepEnds(k)
             \/ HS!RespondsOk(k) \/ HS!Transient(k) \/ HS!Refused(k) \/ HS!BackoffEnds(k)
             \/ HS!Store(k) \/ HS!Cancel(k)
  BY <1>3, GetPaced, LookupPaced, GatePaced, ThrottlePaced, SleepPaced, RespondsPaced,
     FailsPaced, BackoffPaced, StoresPaced
<1>4. QED
  BY <1>1, <1>2, <1>3 DEF HS!Next

\* The requests of a source are paced by its breaker, its retries and its rate limit.
THEOREM HttpAlways ==
  ASSUME HttpBounds
  PROVE  HS!Init /\ [][HS!Next]_s => [][HS!BreakerStep /\ HS!RequestStep]_s
<1>1. HS!Init => HttpInv(s)
    BY HttpStarts
<1>2. HttpInv(s) /\ [HS!Next]_s => HttpInv(s)'
  <2>1. SUFFICES ASSUME HttpInv(s), [HS!Next]_s
                 PROVE  HttpInv(s')
      BY DEF HttpInv, HttpStates, Calls, CountsInARow, CallOk, CallIsAdmitted, CallKeepsInterval,
             Places, Past, HS!Configs
  <2>2. CASE UNCHANGED s
      BY <2>1, <2>2
  <2>. QED
      BY <2>1, <2>2, HttpStep
<1>3. HttpInv(s) /\ [HS!Next]_s => [HS!BreakerStep /\ HS!RequestStep]_s
    BY HttpStep
<1>. QED
    BY <1>1, <1>2, <1>3, PTL

=============================================================================
