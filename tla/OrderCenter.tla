----------------------------- MODULE OrderCenter -----------------------------
(***************************************************************************)
(* examples/order-command-center: a producer, a Kafka topic, a PostgreSQL  *)
(* and a Redis projection of it, the verifier, and the operator's repair   *)
(* commands.  PostgreSQL and Kafka share no transaction: the manifest of a *)
(* producer run and the request of a repair are rows that are written      *)
(* before publishing and completed after it, and reconciled from the       *)
(* ledger when the process died between the two.                           *)
(*                                                                         *)
(* One order: its events are 1 .. NEvents in business time, on one         *)
(* partition.  A message is [ev, run, bad]; bad does not deserialize.      *)
(***************************************************************************)
EXTENDS Naturals, Sequences, FiniteSets

CONSTANTS NEvents,     \* events of the order
          MaxOrderFaults  \* crashes of processes and failing calls

VARIABLE oc

Events == 1 .. NEvents
NoState == [ev |-> 0, run |-> "none", off |-> 0]

(* bad: the event the producer sends in a form the contract rejects, or 0; *)
(* fix: the event an operator publishes in its place.                      *)
Configs == [bad : 0 .. NEvents, fix : Events]

Init ==
    \E c \in Configs :
        /\ c.bad > 0 => c.fix = c.bad
        /\ c.bad = 0 => c.fix = 1
        /\ oc = [conf |-> c, faults |-> 0,
                 topic |-> <<>>,
                 manifest |-> "none",                     \* publish_state
                 prod |-> [pc |-> "begin", put |-> 0, sent |-> 0],
                 tidy |-> "idle",                         \* reconcile_producer_run
                 ledger |-> {}, current |-> NoState,      \* PostgreSQL
                 cache |-> NoState,                       \* Redis
                 pg |-> [at |-> 0, off |-> 0], rd |-> [at |-> 0, off |-> 0],
                 dead |-> {},                             \* offsets with a DLQ row
                 verify |-> [pc |-> "idle", seen |-> NoState],
                 request |-> "none", audit |-> <<>>,      \* order_dlq_replay_*
                 fixer |-> "idle", fixes |-> "idle"]      \* execute_, reconcile_replay

Topic == oc.topic
RunOf(offsets, run) == {o \in offsets : Topic[o].run = run}
EventsOf(offsets) == {Topic[o].ev : o \in offsets}
Fault(s) == IF s.faults < MaxOrderFaults THEN {[s EXCEPT !.faults = @ + 1]} ELSE {}

-----------------------------------------------------------------------------
(* producer.run                                                            *)

Begin ==
    /\ oc.prod.pc = "begin"
    /\ oc' = [oc EXCEPT !.manifest = "publishing", !.prod.pc = "send"]

(* write() enqueues; the client sends in order.  A retry after a lost      *)
(* acknowledgement leaves the message in the topic twice.                  *)
Put == /\ oc.prod.pc = "send" /\ oc.prod.put < NEvents
       /\ oc' = [oc EXCEPT !.prod.put = @ + 1]
Message(e) == [ev |-> e, run |-> "run", bad |-> e = oc.conf.bad]
Send ==
    /\ oc.prod.pc = "send" /\ oc.prod.sent < oc.prod.put
    /\ LET m == Message(oc.prod.sent + 1)
           once == [oc EXCEPT !.topic = Append(@, m), !.prod.sent = @ + 1]
       IN oc' \in {once} \union Fault([once EXCEPT !.topic = Append(@, m)])

(* Mutant of Flushed: the last write returned.                             *)
AllPut == oc.prod.put = NEvents

(* flush() after the last write returned.                                  *)
Flushed == oc.prod.sent = NEvents

(* mark_producer_run is an unconditional UPDATE; when it raises after a    *)
(* success the manifest stays publishing.                                  *)
Marks(state) == [oc EXCEPT !.manifest = state, !.prod.pc = "over"]
Published ==
    /\ oc.prod.pc = "send" /\ Flushed
    /\ oc' \in {Marks("published")} \union Fault(Marks(oc.manifest))

(* open, write, flush or close raised: failed, unless that cannot be       *)
(* written either.                                                         *)
PublishFails ==
    /\ oc.prod.pc = "send"
    /\ oc' \in Fault(Marks("failed")) \union Fault(Marks(oc.manifest))

(* reconcile_producer_run: the checks, then an UPDATE without a condition  *)
(* on the state.                                                           *)
Observed(run) == Cardinality(RunOf(oc.ledger, run))
Complete == Observed("run") = NEvents
TidyReads ==
    /\ oc.tidy = "idle" /\ oc.manifest = "publishing" /\ Complete
    /\ oc' = [oc EXCEPT !.tidy = "update"]
TidyUpdates ==
    /\ oc.tidy = "update"
    /\ oc' = [oc EXCEPT !.tidy = "idle", !.manifest = "published"]

-----------------------------------------------------------------------------
(* The projections: FlushBeforeAcknowledgeSink makes the row durable       *)
(* before the engine runs the acknowledgement hook; the source commits     *)
(* later.  A poison message becomes a DLQ row and is acknowledged.         *)

(* Mutant of Newer: the row inserted last is the current one.              *)
Latest(m, o, s) == TRUE

(* project_order_current_state                                             *)
Newer(m, o, s) == m.ev > s.ev \/ (m.ev = s.ev /\ o > s.off)

Stated(o) == [ev |-> Topic[o].ev, run |-> Topic[o].run, off |-> o]

(* The ledger's key is the delivery coordinate: a second insert of it does *)
(* nothing.                                                                *)
Ledgered(s, o) ==
    IF Topic[o].bad THEN [s EXCEPT !.dead = @ \union {o}]
    ELSE IF o \in s.ledger THEN s
    ELSE [s EXCEPT !.ledger = @ \union {o},
                   !.current = IF Newer(Topic[o], o, @) THEN Stated(o) ELSE @]
Cached(s, o) ==
    IF Topic[o].bad THEN [s EXCEPT !.dead = @ \union {o}]
    ELSE [s EXCEPT !.cache = Stated(o)]

ProjectPg ==
    /\ oc.pg.at < Len(Topic)
    /\ oc' = [Ledgered(oc, oc.pg.at + 1) EXCEPT !.pg.at = @ + 1]
ProjectRd ==
    /\ oc.rd.at < Len(Topic)
    /\ oc' = [Cached(oc, oc.rd.at + 1) EXCEPT !.rd.at = @ + 1]

(* Mutant of Committed: the offset polled for is committed.                *)
CommitsAhead(c) == IF c.at < Len(Topic) THEN c.at + 1 ELSE c.at

(* The offset committed: what has been acknowledged.                       *)
Committed(c) == c.at
Commit ==
    \/ oc.pg.off < Committed(oc.pg) /\ oc' = [oc EXCEPT !.pg.off = Committed(oc.pg)]
    \/ oc.rd.off < Committed(oc.rd) /\ oc' = [oc EXCEPT !.rd.off = Committed(oc.rd)]

(* A worker dies, or its run fails: the next one starts at the committed   *)
(* offset.                                                                 *)
WorkerDies ==
    \/ oc.pg.at # oc.pg.off /\ oc' \in Fault([oc EXCEPT !.pg.at = oc.pg.off])
    \/ oc.rd.at # oc.rd.off /\ oc' \in Fault([oc EXCEPT !.rd.at = oc.rd.off])

(* inspect_consumer_group: committed offset against end offset.            *)
Lag(c) == Len(Topic) - c.off
ZeroLag == Lag(oc.pg) = 0 /\ Lag(oc.rd) = 0

-----------------------------------------------------------------------------
(* _validate_latest_run: the ledger and the current state, then Redis.     *)

LedgerPasses ==
    /\ Complete /\ EventsOf(RunOf(oc.ledger, "run")) = Events
    /\ oc.current.run = "run" /\ oc.current.ev = NEvents
VerifyReads ==
    /\ oc.verify.pc = "idle" /\ oc.manifest = "published" /\ LedgerPasses
    /\ oc' = [oc EXCEPT !.verify = [pc |-> "redis", seen |-> oc.current]]
VerifyCompares ==
    /\ oc.verify.pc = "redis"
    /\ oc' = [oc EXCEPT !.verify.pc =
                IF oc.cache.ev = oc.verify.seen.ev THEN "pass" ELSE "idle"]

-----------------------------------------------------------------------------
(* dlq.py: execute_replay and reconcile_replay.                            *)

(* _create_replay_request: the request and its audit row, one transaction. *)
CreateRequest ==
    /\ oc.fixer = "idle" /\ oc.request = "none" /\ oc.dead # {}
    /\ oc' = [oc EXCEPT !.request = "publishing", !.audit = <<"requested">>,
                        !.fixer = "publish"]

Corrected == [ev |-> oc.conf.fix, run |-> "replay", bad |-> FALSE]
PublishEvent ==
    /\ oc.fixer = "publish"
    /\ LET sent == [oc EXCEPT !.topic = Append(@, Corrected)]
       IN oc' \in {[sent EXCEPT !.fixer = "published"]}
                  \union Fault([sent EXCEPT !.fixer = "failed"])
                  \union Fault([oc EXCEPT !.fixer = "failed"])

(* Mutant of Completable: any request can be completed.                    *)
Always == TRUE

(* _complete_replay_request: WHERE ... state = 'publishing'; otherwise it  *)
(* raises and nothing is written.                                          *)
Completable == oc.request = "publishing"
Completed(state, note, s) ==
    IF Completable THEN [s EXCEPT !.request = state, !.audit = Append(@, note)] ELSE s
CompleteRequest ==
    /\ oc.fixer \in {"published", "failed"}
    /\ oc' = [Completed(oc.fixer, oc.fixer, oc) EXCEPT !.fixer = "over"]
FixerDies ==
    /\ oc.fixer \in {"publish", "published", "failed"}
    /\ oc' \in Fault([oc EXCEPT !.fixer = "over"])

(* reconcile_replay: exactly one ledger delivery of the request's run, of  *)
(* the corrected event; then the completion, on another connection.        *)
Proven == Observed("replay") = 1
ReconcileReads ==
    /\ oc.fixes = "idle" /\ oc.request = "publishing" /\ Proven
    /\ oc' = [oc EXCEPT !.fixes = "complete"]
ReconcileCompletes ==
    /\ oc.fixes = "complete"
    /\ oc' = [Completed("published", "reconciled", oc) EXCEPT !.fixes = "over"]

Stays == UNCHANGED oc

Next == \/ Begin \/ Put \/ Send \/ Published \/ PublishFails \/ TidyReads \/ TidyUpdates
        \/ ProjectPg \/ ProjectRd \/ Commit \/ WorkerDies
        \/ VerifyReads \/ VerifyCompares
        \/ CreateRequest \/ PublishEvent \/ CompleteRequest \/ FixerDies
        \/ ReconcileReads \/ ReconcileCompletes \/ Stays

Spec == Init /\ [][Next]_oc

-----------------------------------------------------------------------------
InTopic(run) == EventsOf(RunOf(DOMAIN Topic, run))

(* A message the client sent twice.                                        *)
Repeated == \E o \in DOMAIN Topic : o > 1 /\ Topic[o] = Topic[o - 1]

(* A manifest or a repair request that says published has every one of     *)
(* its messages in Kafka, whoever completed it.  Except that the           *)
(* reconciliation of a manifest counts ledger rows: a message sent twice   *)
(* stands in for one that is missing.                                      *)
PublishedIsTrue ==
    /\ oc.manifest = "published" => InTopic("run") = Events \/ Repeated
    /\ oc.request = "published" => InTopic("replay") = {oc.conf.fix}

(* The audit trail tells the state of the request: completed at most once, *)
(* by the command that published or by the reconciliation.                 *)
AuditTellsState ==
    oc.audit \in CASE oc.request = "none" -> {<<>>}
                   [] oc.request = "publishing" -> {<<"requested">>}
                   [] oc.request = "failed" -> {<<"requested", "failed">>}
                   [] oc.request = "published" -> {<<"requested", "published">>,
                                                   <<"requested", "reconciled">>}

(* A committed offset covers only messages in the ledger or in the DLQ,    *)
(* and Redis has seen one at least as late.                                *)
CommittedIsDurable ==
    /\ 1 .. oc.pg.off \subseteq oc.ledger \union oc.dead
    /\ \A o \in 1 .. oc.rd.off : Topic[o].bad \/ oc.cache.off >= o

(* The current state is the newest event of the ledger in business time,   *)
(* whatever the order of arrival.                                          *)
CurrentIsNewest ==
    oc.ledger # {} =>
        /\ oc.current.ev \in EventsOf(oc.ledger)
        /\ \A e \in EventsOf(oc.ledger) : e <= oc.current.ev

(* With no lag left Redis serves the durable current state, but for a      *)
(* repair that arrived after newer events of its order: Redis keeps the    *)
(* message that came last, PostgreSQL the newest.                          *)
CachesConverge ==
    ZeroLag /\ oc.ledger # {} =>
        \/ oc.cache.ev = oc.current.ev
        \/ oc.cache.run = "replay"

(* The verifier passes only a run that is in the ledger event by event.    *)
PassIsTrue == oc.verify.pc = "pass" => EventsOf(RunOf(oc.ledger, "run")) = Events

=============================================================================
