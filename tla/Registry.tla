------------------------------ MODULE Registry ------------------------------
(***************************************************************************)
(* The registry of one kind of plugin, as it treats one key: built-in and  *)
(* user code register under it, installed distributions claim it with      *)
(* entry points, scans (lazy at import, eager for `agora plugins list`)    *)
(* decide between them, and lookups import what a lazy scan only noted.    *)
(* Every method runs to its end on one thread.  Distribution 1 is found    *)
(* before distribution 2.  Importing a plugin is not taken to register     *)
(* others on its way.                                                      *)
(***************************************************************************)
EXTENDS Naturals, Sequences, SequencesExt, FiniteSets, FiniteSetsExt

CONSTANT MaxRegistryCalls

VARIABLE rg

-----------------------------------------------------------------------------
(* Compatibility.  A version is the sequence of its numbers, <<>> one that *)
(* does not parse; a range is a set of clauses.                            *)
CoreVersion == <<0, 4, 1>>   \* AGORA_CORE_API_VERSION

\* Mutant of PadVersion: versions are compared as they are written.
Unpadded(v, n) == v

PadVersion(v, n) == [i \in 1 .. n |-> IF i <= Len(v) THEN v[i] ELSE 0]

\* Python's order of tuples.
TupleLess(a, b) ==
    \/ \E i \in DOMAIN a \intersect DOMAIN b :
           a[i] < b[i] /\ \A j \in 1 .. i - 1 : a[j] = b[j]
    \/ Len(a) < Len(b) /\ \A j \in DOMAIN a : a[j] = b[j]

CompareVersions(left, right) ==
    LET n == Max({Len(left), Len(right)})
        l == PadVersion(left, n)
        r == PadVersion(right, n)
    IN  CASE left = <<>> \/ right = <<>> -> "none"
          [] TupleLess(l, r) -> "less"
          [] TupleLess(r, l) -> "more"
          [] OTHER -> "same"

Allowed(op) ==
    CASE op = ">=" -> {"same", "more"} [] op = ">" -> {"more"} [] op = "<=" -> {"same", "less"}
      [] op = "<" -> {"less"} [] op = "==" -> {"same"}

RangeContains(range, version) ==
    \A c \in range : CompareVersions(version, c.v) \in Allowed(c.op)

(* What a distribution brings: a module that does not import, no MANIFEST, *)
(* or one with its manifest version and perhaps a range of core versions.  *)
Range4 == {[op |-> ">=", v |-> <<0, 4>>], [op |-> "<", v |-> <<0, 5>>]}
Range5 == {[op |-> ">=", v |-> <<0, 5>>]}
Exact  == {[op |-> "==", v |-> <<0, 4, 1, 0>>]}
Tilde  == {[op |-> "==", v |-> <<>>]}   \* an operator that is not supported

Plugins ==
    [loads : {FALSE}, manifest : {FALSE}, api : {"same"}, ranges : {{}}]
    \union [loads : {TRUE}, manifest : {FALSE}, api : {"same"}, ranges : {{}}]
    \union [loads : {TRUE}, manifest : {TRUE}, api : {"same", "other"},
            ranges : {{}, {Range4}, {Range5}, {Exact}, {Tilde}}]

(* compatible of _coerce_manifest: no, unless manifest version and, where  *)
(* declared, the range agree; None without a MANIFEST counts as yes.       *)
Compatible(p) ==
    p.manifest =>
        p.api = "same" /\ \A r \in p.ranges : RangeContains(r, CoreVersion)

-----------------------------------------------------------------------------
(* Who is behind the key: nobody, distribution 1 or 2, or code that called *)
(* register() or register_factory().                                       *)
Nobody == 0
Manual == 3

(* builtin: the key is registered when the module of the registry is       *)
(* imported; own: the registry of dedup stores, which scans at the first   *)
(* lookup, and once, instead of at import.                                 *)
Init ==
    \E ps \in UNION {[1 .. n -> Plugins] : n \in 1 .. 2}, b \in BOOLEAN, o \in BOOLEAN :
        rg = [installed |-> ps, builtin |-> b, own |-> o,
              plugin |-> Nobody, factory |-> IF b THEN Manual ELSE Nobody,
              lazy |-> Nobody, origin |-> IF b THEN "manual" ELSE "none",
              claim |-> Nobody,      \* the distribution _metadata[key] is about
              named |-> FALSE,       \* and whether it names it
              verdict |-> "none",    \* what it says: "lazy", "ok", "incompatible", "error"
              conflicts |-> {},      \* distributions with a diagnostic row
              up |-> FALSE, scanned |-> FALSE, calls |-> 0,
              served |-> {},         \* history: who answered the lookups
              override |-> "none"]   \* history: how user code registered an instance

Load(r, d) ==
    LET p == r.installed[d]
        q == [r EXCEPT !.claim = d]
    IN  CASE ~p.loads -> [q EXCEPT !.named = FALSE, !.verdict = "error",
                                   !.origin = "entrypoint_error"]
          [] p.loads /\ ~Compatible(p) ->
                 [q EXCEPT !.named = TRUE, !.verdict = "incompatible",
                           !.origin = "entrypoint_incompatible"]
          [] OTHER -> [q EXCEPT !.named = p.manifest, !.verdict = "ok",
                                !.plugin = d, !.origin = "entrypoint"]

Note(r, d) ==
    [r EXCEPT !.claim = d, !.named = TRUE, !.verdict = "lazy",
              !.origin = "entrypoint_lazy", !.lazy = d]

\* Mutant of Reserved: a built-in key is free for an entry point.
NeverReserved(r) == FALSE

\* The key belongs to a built-in or manual registration.
Reserved(r) == r.origin = "manual"

Claimed(r) == r.origin = "entrypoint" \/ (r.origin = "entrypoint_lazy" /\ r.lazy # Nobody)

(* One turn of the loop of load_entrypoints.                               *)
ScanOne(r, d, eager) ==
    CASE Reserved(r) \/ (Claimed(r) /\ ~(r.claim = d /\ r.named)) ->
             [r EXCEPT !.conflicts = @ \union {d}]
      [] Claimed(r) /\ r.claim = d /\ r.named -> r
      [] OTHER -> IF eager THEN Load(r, d) ELSE Note(r, d)

Scan(r, eager) ==
    LET after == FoldLeftDomain(LAMBDA x, d : ScanOne(x, d, eager), r, r.installed)
    IN  IF r.own /\ r.scanned THEN r ELSE [after EXCEPT !.scanned = TRUE]

(* _ensure_entrypoints_loaded                                              *)
Ready(r) == IF r.own THEN Scan(r, FALSE) ELSE r

(* _resolve_lazy, where the lookup has nothing yet                         *)
Resolved(r) ==
    IF r.plugin = Nobody /\ r.lazy # Nobody THEN Load([r EXCEPT !.lazy = Nobody], r.lazy) ELSE r

Call(r) ==
    /\ rg.up /\ rg.calls < MaxRegistryCalls
    /\ rg' = [r EXCEPT !.calls = @ + 1]

Answered(r, x) == [r EXCEPT !.served = IF x = Nobody THEN @ ELSE @ \union {x}]

(* The module of the registry is imported.                                 *)
ImportModule ==
    /\ ~rg.up
    /\ rg' = [(IF rg.own THEN rg ELSE Scan(rg, FALSE)) EXCEPT !.up = TRUE]

(* register(), by user code or by a package it loads                       *)
Register ==
    Call([rg EXCEPT !.plugin = Manual,
                       !.origin = IF @ = "none" THEN "manual" ELSE @,
                       !.override = IF rg.verdict \in {"error", "incompatible"} THEN "late"
                                    ELSE "kept"])

RegisterFactory ==
    Call([rg EXCEPT !.factory = Manual, !.origin = IF @ = "none" THEN "manual" ELSE @])

(* get, get_or_raise                                                       *)
Get == LET r == Resolved(Ready(rg)) IN Call(Answered(r, r.plugin))

Create ==
    LET r == Ready(rg) IN
    Call(IF r.factory # Nobody THEN Answered(r, Manual)
         ELSE Answered(Resolved(r), Resolved(r).plugin))

DiscoverPlugins == Call(Scan(rg, FALSE))
ListPlugins == Call(Scan(rg, TRUE))

Over == rg.up /\ rg.calls = MaxRegistryCalls /\ UNCHANGED rg

Next == \/ ImportModule \/ Register \/ RegisterFactory \/ Get \/ Create
        \/ DiscoverPlugins \/ ListPlugins \/ Over

Spec == Init /\ [][Next]_rg

-----------------------------------------------------------------------------
Found == rg.served \intersect DOMAIN rg.installed

(* Lookups of a built-in key are never answered by an entry point; what an *)
(* entry point answers with was imported and is compatible; and no two     *)
(* distributions answer for one key, whatever was scanned when.            *)
KeyHasOneOwner ==
    /\ rg.builtin => Found = {}
    /\ \A d \in Found : rg.installed[d].loads /\ Compatible(rg.installed[d])
    /\ Cardinality(Found) <= 1

(* An instance that user code registered stays the answer, unless it took  *)
(* the key of an entry point that had failed: another scan then offers the *)
(* key again.                                                              *)
OverrideStays == rg.override = "kept" => rg.plugin = Manual

(* Padded to one length, versions compare as the numbers they stand for.   *)
Value(v) == LET p == [i \in 1 .. 4 |-> IF i <= Len(v) THEN v[i] ELSE 0]
            IN  1000 * p[1] + 100 * p[2] + 10 * p[3] + p[4]
RangesAreNumeric ==
    \A d \in DOMAIN rg.installed : \A range \in rg.installed[d].ranges :
        RangeContains(range, CoreVersion) <=>
            \A c \in range : c.v # <<>> /\
                CASE c.op = ">=" -> Value(CoreVersion) >= Value(c.v)
                  [] c.op = "<" -> Value(CoreVersion) < Value(c.v)
                  [] OTHER -> Value(CoreVersion) = Value(c.v)

=============================================================================
