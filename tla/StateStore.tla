----------------------------- MODULE StateStore -----------------------------
(***************************************************************************)
(* The state backends (state/backend.py) and three users that share one:   *)
(* the membership keys of deduplication, the checkpoint store, and the     *)
(* command `agora checkpoint reset`.                                       *)
(*                                                                         *)
(* MemoryBackend belongs to one process, and each of its operations is a   *)
(* step; the command has a backend of its own.  SQLiteBackend is a file    *)
(* that processes share: a statement or a transaction is a step, and the   *)
(* lock of a backend keeps out only the threads of its own process.        *)
(***************************************************************************)
EXTENDS Naturals

CONSTANTS Ttl,      \* default_ttl_s of the membership keys
          MaxClock,
          MaxSaves

VARIABLE kv

Clients  == {"p", "q"}      \* processes, or two tasks of one
Commands == {"c1", "c2"}    \* two resets

(* A key is its namespace and its name.  The last two namespaces differ in *)
(* the case of a letter.                                                   *)
Checkpoint == <<"checkpoint", "pipe">>
Marks == {<<"dedup", "k">>, <<"Dedup", "k">>}
FullKeys == Marks \union {Checkpoint}
Folded(ns) == IF ns = "Dedup" THEN "dedup" ELSE ns

Never == MaxClock + Ttl + 1
Absent == [value |-> 0, ident |-> FALSE, exp |-> 0]
Entry(value, ident, exp) == [value |-> value, ident |-> ident, exp |-> exp]

(* StoredValue: expired when time.time() >= expires_at.                    *)
Live(e) == e # Absent /\ kv.clock < e.exp
Expired(e) == e # Absent /\ kv.clock >= e.exp

Init ==
    \E backend \in {"memory", "sqlite"}, file \in BOOLEAN, who \in {Clients, Commands \union {"p"}} :
        kv = [backend |-> backend,
              who |-> who,          \* bound: two clients, or one and two resets
              file |-> file,        \* the source is a file source that fails closed
              table |-> [k \in FullKeys |-> Absent],
              clock |-> 1,
              get |-> [c \in Clients |-> <<>>],     \* the expired row a get has read
              cmd |-> [c \in Commands |-> "idle"],
              run |-> "down", saves |-> 0,
              owners |-> [k \in Marks |-> {}],      \* history: who was told that the key is new
              until |-> [k \in FullKeys |-> 0],     \* history: how long the entry has to last
              raced |-> FALSE,      \* history: a get deleted what it had not read
              folded |-> FALSE,     \* history: a clear reached a namespace in another case
              clean |-> FALSE]      \* history: reset, and nothing saved since

-----------------------------------------------------------------------------
(* StateBackend                                                            *)

Set(s, k, e) == [s EXCEPT !.table[k] = e, !.until[k] = e.exp]
Remove(s, ks) == [s EXCEPT !.table = [k \in FullKeys |-> IF k \in ks THEN Absent ELSE @[k]]]

(* get of a key that expired: MemoryBackend removes it at once, SQLite     *)
(* with a second statement.                                                *)
Contains(c, k) ==
    /\ kv.get[c] = <<>> /\ Expired(kv.table[k])
    /\ kv' = IF kv.backend = "memory" THEN Remove(kv, {k}) ELSE [kv EXCEPT !.get[c] = k]
DeleteExpired(c) ==
    /\ kv.get[c] # <<>>
    /\ kv' = [Remove(kv, {kv.get[c]}) EXCEPT
                !.get[c] = <<>>, !.raced = @ \/ Live(kv.table[kv.get[c]])]

(* Mutant of SetIfAbsent: the entry is replaced whatever is there.         *)
Replaces(k) == TRUE

(* set_if_absent stores: an expired entry counts as absent.                *)
SetIfAbsent(k) == ~Live(kv.table[k])

(* count_prefix and delete_prefix: LIKE takes no notice of case.           *)
StartsWith(k, ns) ==
    IF kv.backend = "sqlite" THEN Folded(k[1]) = Folded(ns) ELSE k[1] = ns

(* MembershipKeyStore.count: the expired entries of every namespace go.    *)
Count == kv' = Remove(kv, {k \in FullKeys : Expired(kv.table[k])})

-----------------------------------------------------------------------------
(* MembershipKeyStore                                                      *)

MarkIfNew(c, k) ==
    /\ kv.get[c] = <<>> /\ SetIfAbsent(k)
    /\ kv' = [Set(kv, k, Entry(1, FALSE, kv.clock + Ttl)) EXCEPT
                !.owners[k] = IF kv.clock >= kv.until[k] THEN {c} ELSE @ \union {c}]
Forget(s, ks) == [s EXCEPT !.until = [k \in FullKeys |-> IF k \in ks THEN 0 ELSE @[k]]]
Delete(c, k) ==
    /\ kv.get[c] = <<>> /\ kv.table[k] # Absent
    /\ kv' = Forget(Remove(kv, {k}), {k})
Clear(c, ns) ==
    /\ kv.get[c] = <<>> /\ \E k \in Marks : k[1] = ns /\ kv.table[k] # Absent
    /\ LET hit == {k \in FullKeys : StartsWith(k, ns)}
       IN kv' = [Forget(Remove(kv, hit), {k \in Marks : k[1] = ns}) EXCEPT
                   !.folded = @ \/ \E k \in hit : k[1] # ns /\ Live(kv.table[k])]

-----------------------------------------------------------------------------
(* BackendCheckpointStore, a run and `agora checkpoint reset`.             *)

Position == kv.table[Checkpoint].value
Held == kv.table[Checkpoint] # Absent

(* External: the run; a file source refuses a checkpoint without identity. *)
RunStarts ==
    /\ kv.run = "down"
    /\ kv' = [kv EXCEPT !.run = IF Held /\ ~kv.table[Checkpoint].ident /\ kv.file
                                THEN "down" ELSE "up"]
RunEnds == kv.run = "up" /\ kv' = [kv EXCEPT !.run = "down"]
Save ==
    /\ kv.run = "up" /\ kv.saves < MaxSaves
    /\ kv' = [Set(kv, Checkpoint, Entry(kv.saves + 1, TRUE, Never)) EXCEPT
                !.saves = @ + 1, !.clean = FALSE]

At(c, pc) == c \in kv.who /\ kv.cmd[c] = pc /\ kv.backend = "sqlite"
Goes(s, c, pc) == [s EXCEPT !.cmd[c] = pc]

(* _cmd_reset: load, then the get and the delete of delete().              *)
ResetLoads(c) ==
    /\ At(c, "idle")
    /\ kv' = Goes(kv, c, IF Held THEN "get" ELSE "missing")
DeleteGets(c) ==
    /\ At(c, "get")
    /\ kv' = Goes(kv, c, IF Held THEN "delete" ELSE "fallback")
DeleteRemoves(c) ==
    /\ At(c, "delete")
    /\ kv' = [Goes(Forget(Remove(kv, {Checkpoint}), {Checkpoint}), c, "deleted")
                EXCEPT !.clean = TRUE]

(* Mutant of Sentinel: the position goes into the new checkpoint.          *)
SamePosition == Entry(Position, FALSE, Never)

(* The checkpoint that stands for none: value None and no identity.        *)
Sentinel == Entry(0, FALSE, Never)
FallbackSaves(c) ==
    /\ At(c, "fallback")
    /\ kv' = [Goes(Set(kv, Checkpoint, Sentinel), c, "cleared") EXCEPT !.clean = TRUE]

Tick == kv.clock < MaxClock /\ kv' = [kv EXCEPT !.clock = @ + 1]

Next == \/ Tick \/ Count \/ RunStarts \/ RunEnds \/ Save
        \/ \E c \in Clients \intersect kv.who :
              \/ DeleteExpired(c)
              \/ \E k \in Marks : Contains(c, k) \/ MarkIfNew(c, k) \/ Delete(c, k)
              \/ \E ns \in {"dedup", "Dedup"} : Clear(c, ns)
        \/ \E c \in Commands :
              ResetLoads(c) \/ DeleteGets(c) \/ DeleteRemoves(c) \/ FallbackSaves(c)

Spec == Init /\ [][Next]_kv

-----------------------------------------------------------------------------
(* Within the life of a key one client is told that it is new, however     *)
(* their calls interleave; only a get that deletes the successor of the    *)
(* row it read, and a clear that disregards case, can undo that.           *)
MarkedOnce ==
    \A k \in Marks : \A c, d \in kv.owners[k] : c # d => kv.raced \/ kv.folded

(* What was stored stays until it expires or its own user removes it: no   *)
(* user of the backend takes another's entries, but in those two ways.     *)
EntriesLast ==
    \A k \in FullKeys : kv.clock < kv.until[k] =>
        \/ Live(kv.table[k])
        \/ k # Checkpoint /\ (kv.raced \/ kv.folded)

(* Once a reset has reported success no position is left in the store      *)
(* until a run saves one, whatever other resets were doing.                *)
ResetIsTrue == kv.clean => Position = 0

(* A key is new to one client, an entry lasts until it expires or its user *)
(* removes it, and after a reset no position is left.                      *)
StateIsKept == MarkedOnce /\ EntriesLast /\ ResetIsTrue

=============================================================================
