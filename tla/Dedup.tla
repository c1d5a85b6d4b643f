------------------------------- MODULE Dedup -------------------------------
(***************************************************************************)
(* Deduplication (middlewares/dedup) and the success hooks that tie it to  *)
(* delivery (core/context/_model.py).  A record that looks new reserves    *)
(* its key in memory; the key reaches the store only in the hook that runs *)
(* once the record is durably handled.  Hooks are filed under id(record),  *)
(* follow a record that a later middleware replaces, and are popped by the *)
(* delivery engine under the id of the raw record and of the result.       *)
(*                                                                         *)
(* The chain is Dedup, optionally a stage that returns a new object, and a *)
(* stage that may drop or fail; up to conf.inflight records have been read *)
(* and not delivered.  Most lanes run the chain for one record at a time;  *)
(* with several buffered stages in front of Dedup (conf.tasks) the         *)
(* buffered lane runs it in a task per record, and all of them may stand   *)
(* at the await of the store before the first has reserved its key.        *)
(* A run may fail or crash and a later one resumes at or before the first  *)
(* record that was not handled.                                            *)
(***************************************************************************)
EXTENDS Naturals, Sequences, SequencesExt, FiniteSetsExt

CONSTANTS KeySequences,   \* the keys of the source's records, one sequence per scenario
          FuzzyCap,       \* max_fuzzy_keys
          MaxRestarts,    \* runs after the first
          Ids             \* object identities, reused when an object is gone

VARIABLE dd

(* tasks: the chain of each record runs in a task of its own.              *)
(* strategy: exact, or fuzzy with at most FuzzyCap seen keys; durable and  *)
(* capacity (0: none) describe the store; storeopen is FAIL_OPEN, goon is  *)
(* SinkFailurePolicy.LOG_AND_CONTINUE.                                     *)
Configs ==
    [key : KeySequences, strategy : {"exact", "fuzzy"},
     durable : BOOLEAN, capacity : {0, 1}, storeopen : BOOLEAN,
     inflight : 1 .. 2, tasks : BOOLEAN, maps : BOOLEAN, dlq : BOOLEAN, goon : BOOLEAN]

Fresh(c) ==
    [conf |-> c, pos |-> 1,       \* pos: the next record of the source
     pending |-> {},              \* _pending_keys
     fuzzy |-> <<>>,              \* _pending_fuzzy_keys
     seen |-> <<>>,               \* _seen_keys
     hooks |-> [i \in Ids |-> {}],\* _success_hooks: records whose marker is filed under i
     queue |-> <<>>]              \* records read and not delivered, oldest first

Init ==
    \E c \in Configs :
        /\ c.durable <=> c.capacity = 0
        /\ c.strategy = "fuzzy" => ~c.maps /\ ~c.storeopen
        /\ c.maps => c.durable /\ ~c.storeopen
        /\ c.storeopen => c.goon = ~c.dlq
        /\ c.inflight = 2 => ~c.maps /\ ~c.storeopen /\ c.goon = ~c.dlq
        /\ c.tasks => c.inflight = 2 /\ c.capacity = 0 /\ c.strategy = "exact"
        /\ dd = Fresh(c) @@ [store |-> <<>>, restarts |-> 0,
                             written |-> {}, captured |-> {}, filtered |-> {},
                             givenup |-> {}, duplicate |-> {}, excused |-> {},
                             together |-> {}]

Key(r) == dd.conf.key[r]
Records == DOMAIN dd.conf.key

(* FuzzyMatchStrategy: keys 2 and 3 resemble each other, 4 stands alone.   *)
Similar(k, l) == k \div 2 = l \div 2

Live == UNION {{q.raw, q.result} : q \in ToSet(dd.queue)}

-----------------------------------------------------------------------------
(* process(): what the middleware knows without the store.                 *)

Overflow == dd.conf.strategy = "fuzzy" /\ Len(dd.seen) >= FuzzyCap
ByStore == dd.conf.strategy = "exact" \/ Overflow

(* Mutant of KnownHere: local reservations are not looked at.              *)
NeverKnownHere(r) == FALSE

KnownHere(r) ==
    IF ByStore THEN Key(r) \in dd.pending
    ELSE \E k \in ToSet(dd.seen) \union ToSet(dd.fuzzy) : Similar(Key(r), k)

Entry(r, raw, result, step) == [rec |-> r, raw |-> raw, result |-> result, step |-> step]
Moved(s, i, step) == [s EXCEPT !.queue[i].step = step]
At(i, step) == i \in DOMAIN dd.queue /\ dd.queue[i].step = step

(* The chain returns nothing for a duplicate; drop_record() will save its  *)
(* checkpoint and run what is filed under the raw object.                  *)
Dropped(s, i) == Moved([s EXCEPT !.duplicate = @ \union {s.queue[i].rec}], i, "commit")

(* Mutant of Register: the marker is stored with the reservation.          *)
MarkAtOnce(s, r, raw) ==
    [s EXCEPT !.pending = @ \union {Key(r)},
              !.fuzzy = IF ByStore THEN @ ELSE Append(@, Key(r)),
              !.store = Append(@, Key(r)),
              !.hooks[raw] = @ \union {r}]

(* register_success_hook under the id of the raw object.                   *)
Register(s, r, raw) ==
    [s EXCEPT !.pending = @ \union {Key(r)},
              !.fuzzy = IF ByStore THEN @ ELSE Append(@, Key(r)),
              !.hooks[raw] = @ \union {r}]

(* transfer_success_hooks to the object a later stage returned.            *)
Transfer(s, raw, result) ==
    IF raw = result THEN s
    ELSE [s EXCEPT !.hooks = [@ EXCEPT ![result] = @ \union s.hooks[raw], ![raw] = {}]]

(* The raw object and the result get the lowest free ids: the interpreter  *)
(* hands out the memory of freed objects first.                            *)
NewId == Min(Ids \ Live)
ResultId(i) == IF dd.conf.maps THEN NewId ELSE dd.queue[i].raw

(* The stages after Dedup.  When one of them drops the record or fails,    *)
(* the engine gets no result and pops the hooks of the raw object only.    *)
RestOfChain(s, i) ==
    LET t == Transfer(s, s.queue[i].raw, ResultId(i))
    IN \/ dd' = Moved([t EXCEPT !.queue[i].result = ResultId(i)], i, "write")
       \/ dd' = Moved([t EXCEPT !.filtered = @ \union {s.queue[i].rec}], i, "commit")
       \/ dd' = Moved(t, i, "failed")

(* A record enters the chain, after the one before it has left it unless   *)
(* each has a task of its own.                                             *)
InChain == {i \in DOMAIN dd.queue : dd.queue[i].step \in {"look", "exists", "new"}}
Take ==
    /\ dd.pos \in Records /\ Len(dd.queue) < dd.conf.inflight
    /\ dd.conf.tasks \/ InChain = {}
    /\ dd' = [dd EXCEPT !.pos = @ + 1, !.queue = Append(@, Entry(dd.pos, NewId, NewId, "look"))]

(* process() up to its await, or to its end when no store is asked.        *)
Overlapping(r) == {i \in InChain : dd.queue[i].step # "look" /\ Key(dd.queue[i].rec) = Key(r)}
Look(i) ==
    /\ At(i, "look")
    /\ LET r == dd.queue[i].rec
       IN \/ KnownHere(r) /\ dd' = Dropped(dd, i)
          \/ /\ ~KnownHere(r) /\ ByStore
             /\ dd' = Moved(IF Overlapping(r) = {} THEN dd
                            ELSE [dd EXCEPT !.together = @ \union {Key(r)}], i, "exists")
          \/ /\ ~KnownHere(r) /\ ~ByStore
             /\ RestOfChain(Register(dd, r, dd.queue[i].raw), i)

(* await store.exists(key), with the LRU order of InMemoryStore.  The      *)
(* answer may be on its way while other tasks run.                         *)
InStore(r) == Contains(dd.store, Key(r))
Touched(store, k) == IF dd.conf.capacity = 0 THEN store
                     ELSE Append(SelectSeq(store, LAMBDA l : l # k), k)

Exists(i) ==
    /\ At(i, "exists")
    /\ LET r == dd.queue[i].rec
       IN dd' = IF InStore(r)
                THEN Dropped([dd EXCEPT !.store = Touched(@, Key(r))], i)
                ELSE Moved(dd, i, "new")

(* The store raises: FAIL_OPEN passes the record on without a marker,      *)
(* FAIL_CLOSED makes it a middleware failure.                              *)
StoreRaises(i) ==
    /\ At(i, "exists")
    /\ IF dd.conf.storeopen
       THEN RestOfChain([dd EXCEPT !.excused = @ \union {Key(dd.queue[i].rec)}], i)
       ELSE dd' = Moved(dd, i, "failed")

(* The record was new when the store was asked.                            *)
Reserve(i) ==
    /\ At(i, "new")
    /\ RestOfChain(Register(dd, dd.queue[i].rec, dd.queue[i].raw), i)

-----------------------------------------------------------------------------
(* Delivery of the oldest record.                                          *)

Oldest == Head(dd.queue)
Step(s, step) == [s EXCEPT !.queue = <<[Head(@) EXCEPT !.step = step]>> \o Tail(@)]
Pops == dd.hooks[Oldest.raw] \union dd.hooks[Oldest.result]
NoHooks(s) == [s EXCEPT !.hooks = [@ EXCEPT ![Oldest.raw] = {}, ![Oldest.result] = {}]]
Gone(s) == [s EXCEPT !.queue = Tail(@)]

(* The next run: a new middleware, the store if it is durable, and the     *)
(* source from a position not past the first unhandled record.             *)
Handled == dd.written \union dd.captured \union dd.filtered \union dd.duplicate \union dd.givenup
Unhandled == {r \in Records : r \notin Handled \/ \E q \in ToSet(dd.queue) : q.rec = r}
Committing == {q \in ToSet(dd.queue) : q.step \in {"commit", "release"}}
Uncommitted == {Key(q.rec) : q \in {e \in Committing : e.rec \in dd.written}}
Restart ==
    /\ dd.restarts < MaxRestarts /\ Unhandled # {}
    /\ \E p \in {1, Min(Unhandled)} :
           dd' = [Fresh(dd.conf) EXCEPT !.pos = p] @@
                 [dd EXCEPT !.restarts = @ + 1,
                            !.store = IF dd.conf.durable THEN @ ELSE <<>>,
                            !.duplicate = {r \in @ : r < p},
                            !.excused = @ \union (IF dd.conf.durable /\ dd.conf.strategy = "exact"
                                                  THEN Uncommitted ELSE ToSet(dd.conf.key))]

SinkAccepts ==
    /\ dd.queue # <<>> /\ Oldest.step = "write"
    /\ dd' = Step([dd EXCEPT !.written = @ \union {Oldest.rec}], "commit")

(* The sink reports an error and the DLQ takes the record, or it does not: *)
(* FAIL_CLOSED ends the run; LOG_AND_CONTINUE goes on without running the  *)
(* hooks, which the engine has popped by then.                             *)
SinkRejects ==
    /\ dd.queue # <<>> /\ Oldest.step = "write"
    /\ \/ dd.conf.dlq /\ dd' = Step([dd EXCEPT !.captured = @ \union {Oldest.rec}], "commit")
       \/ dd.conf.goon /\ dd' = Gone(NoHooks([dd EXCEPT !.givenup = @ \union {Oldest.rec}]))
       \/ ~dd.conf.goon /\ Restart

(* A middleware failure is captured, or passes as handled without a DLQ,   *)
(* or ends the run when the DLQ fails.                                     *)
MiddlewareFailed ==
    /\ dd.queue # <<>> /\ Oldest.step = "failed"
    /\ \/ dd.conf.dlq /\ dd' = Step([dd EXCEPT !.captured = @ \union {Oldest.rec}], "commit")
       \/ ~dd.conf.dlq /\ dd' = Step([dd EXCEPT !.givenup = @ \union {Oldest.rec}], "commit")
       \/ dd.conf.dlq /\ Restart

(* InMemoryStore._remember_with_lru                                        *)
Remembered(store, k) ==
    LET s == Append(SelectSeq(store, LAMBDA l : l # k), k)
    IN IF dd.conf.capacity > 0 /\ Len(s) > dd.conf.capacity THEN Tail(s) ELSE s
Evicted(k) == ToSet(dd.store) \ ToSet(Remembered(dd.store, k))

(* _commit, first half: store.add() and the fuzzy list.                    *)
CommitAdds ==
    /\ dd.queue # <<>> /\ Oldest.step = "commit"
    /\ \/ Pops = {} /\ dd' = Gone(dd)
       \/ \E r \in Pops :
            /\ \A t \in Pops : r <= t
            /\ dd' = Step([dd EXCEPT !.store = Remembered(@, Key(r)),
                                     !.excused = @ \union Evicted(Key(r)),
                                     !.seen = IF dd.conf.strategy = "fuzzy" /\ ~Contains(@, Key(r))
                                              THEN Append(@, Key(r)) ELSE @], "release")

(* _commit, second half: the reservation is released, also when add()      *)
(* raised, which ends the run.                                             *)
Released(s, r) ==
    [s EXCEPT !.pending = @ \ {Key(r)},
              !.fuzzy = IF Contains(@, Key(r)) THEN RemoveFirst(@, Key(r)) ELSE @]
CommitReleases ==
    /\ dd.queue # <<>> /\ Oldest.step = "release"
    /\ LET r == Min(Pops)
           i == IF r \in dd.hooks[Oldest.raw] THEN Oldest.raw ELSE Oldest.result
       IN dd' = Step(Released([dd EXCEPT !.hooks[i] = @ \ {r}], r), "commit")

(* A crash, a failing add(), or the end of the source.                     *)
Crash == dd.queue # <<>> /\ Restart
Ends == dd.pos \notin Records /\ dd.queue = <<>> /\ UNCHANGED dd
Stuck == dd.restarts = MaxRestarts /\ UNCHANGED dd

Next == \/ Take
        \/ \E i \in DOMAIN dd.queue : Look(i) \/ Exists(i) \/ StoreRaises(i) \/ Reserve(i)
        \/ SinkAccepts \/ SinkRejects \/ MiddlewareFailed
        \/ CommitAdds \/ CommitReleases \/ Crash \/ Ends \/ Stuck

Spec == Init /\ [][Next]_dd

-----------------------------------------------------------------------------
(* Records that may yet be kept: in flight, or, in the lane where a record *)
(* may give way to a later one, still to be read.                          *)
Coming == {q.rec : q \in ToSet(dd.queue)}
          \union {t \in Records : dd.conf.tasks /\ t >= dd.pos}

Backed(r, others) ==
    \E o \in others : IF dd.conf.strategy = "exact" THEN Key(o) = Key(r) ELSE Similar(Key(o), Key(r))

(* A key is in the store only when some record with it was handled: a      *)
(* crash between the lookup and the delivery leaves no marker that would   *)
(* make the next run skip the record.                                      *)
MarkedMeansHandled ==
    \A k \in ToSet(dd.store) :
        \E r \in dd.written \union dd.captured \union dd.filtered \union dd.givenup : Key(r) = k

(* A key is written at most once, unless the store failed open, evicted    *)
(* the key, was lost, the run ended between the write and the marker, or   *)
(* two tasks of the buffered lane asked the store for it before either had *)
(* reserved it: exists() and the reservation are not one step.             *)
WrittenOncePerKey ==
    \A r, t \in dd.written :
        r # t /\ dd.conf.strategy = "exact" /\ Key(r) = Key(t) =>
            Key(r) \in dd.excused \union dd.together

(* A record is dropped as a duplicate only for the sake of a record with a *)
(* matching key that was delivered, captured, filtered, given up by        *)
(* policy or is still in flight.                                           *)
DuplicateOfSomething ==
    \A r \in dd.duplicate :
        Backed(r, dd.written \union dd.captured \union dd.filtered \union dd.givenup
                  \union (Coming \ {r}))

(* The comment of the exact path: keys are persisted after commit so that  *)
(* no record is lost when a sink fails after Dedup has seen its key.  A    *)
(* record is dropped as a duplicate only if one with its key was kept or   *)
(* still can be.                                                           *)
DuplicateOfKeptRecord ==
    dd.conf.strategy = "exact" => \A r \in dd.duplicate :
        Backed(r, dd.written \union dd.captured \union dd.filtered \union (Coming \ {r}))

(* InMemoryStore keeps at most max_size keys.                              *)
StoreBounded == dd.conf.capacity > 0 => Len(dd.store) <= dd.conf.capacity

=============================================================================
