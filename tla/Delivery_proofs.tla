-------------------------- MODULE Delivery_proofs --------------------------
(***************************************************************************)
(* Facts about the operators the lanes share: the ends of a set of source  *)
(* positions, and which checkpoint CheckpointState finds due.              *)
(***************************************************************************)
EXTENDS Delivery, FiniteSetTheorems, WellFoundedInduction, TLAPS

\* A nonempty set of positions has a least one.
LEMMA LeastPosition ==
  ASSUME NEW S, S \subseteq Nat, S # {}
  PROVE  \E p \in S : \A q \in S : p <= q
<1>1. PICK p \in S : \A q \in S : ~(<<q, p>> \in OpToRel(<, Nat))
    BY NatLessThanWellFounded, WFMin
<1>2. ASSUME NEW q \in S PROVE p <= q
  <2>1. <<q, p>> \in Nat \X Nat
    OBVIOUS
  <2>2. ~(q < p)
    BY <1>1, <2>1 DEF OpToRel
  <2>3. p \in Nat /\ q \in Nat
    OBVIOUS
  <2>4. QED
    BY <2>2, <2>3
<1>3. QED
    BY <1>2

\* A nonempty set of positions has a greatest one.
LEMMA GreatestPosition ==
  ASSUME N \in Nat, NEW S, S \subseteq Position, S # {}
  PROVE  \E p \in S : \A q \in S : q <= p
<1> DEFINE T == {n \in Nat : \A q \in S : q <= n}
<1>1. N \in T
    BY DEF Position
<1>2. PICK n \in T : \A m \in T : n <= m
    BY <1>1, LeastPosition
<1>3. n \in S
  <2> SUFFICES ASSUME n \notin S PROVE FALSE
    OBVIOUS
  <2>1. \A q \in S : q <= n - 1
    BY DEF Position
  <2>2. n - 1 \in Nat
    <3>1. PICK q \in S : TRUE
      OBVIOUS
    <3>2. q \in Nat /\ q >= 1 /\ n \in Nat
      BY DEF Position
    <3>3. QED
      BY <2>1, <3>2
  <2>3. n - 1 \in T
    BY <2>1, <2>2
  <2>4. QED
    BY <1>2, <2>2, <2>3
<1>4. QED
    BY <1>3

\* Latest returns the greatest of a set of positions, and 0 for the empty set.
LEMMA LatestIn ==
  ASSUME N \in Nat, NEW S, S \subseteq Position
  PROVE  /\ Latest(S) \in S \cup {0}
         /\ Latest(S) \in 0..N
         /\ S # {} => Latest(S) \in S
         /\ \A q \in S : q <= Latest(S)
<1>1. CASE S = {}
    BY <1>1 DEF Latest
<1>2. CASE S # {}
  <2>1. \E p \in S : \A q \in S : q <= p
    BY <1>2, GreatestPosition
  <2>2. Latest(S) \in S /\ \A q \in S : q <= Latest(S)
    BY <1>2, <2>1 DEF Latest
  <2>3. Latest(S) \in 1..N
    BY <2>2 DEF Position
  <2>4. QED
    BY <2>2, <2>3
<1>. QED
    BY <1>1, <1>2

\* prepare: the checkpoint that is due for the records S is the position of one
\* of them (0: none is due), and none is due without a store.
LEMMA LastDueIn ==
  ASSUME N \in Nat, NEW c, NEW l, NEW S, S \subseteq Position
  PROVE  /\ LastDue(c, l, S) \in S \cup {0} /\ LastDue(c, l, S) \in 0..N
         /\ ~conf.store => LastDue(c, l, S) = 0
<1> DEFINE T == {p \in S : ShouldSave(c + Cardinality({q \in S : q <= p}), l, p)}
<1>1. Latest(T) \in T \cup {0} /\ Latest(T) \in 0..N
    BY LatestIn
<1>2. LastDue(c, l, S) = IF conf.store THEN Latest(T) ELSE 0
    BY DEF LastDue
<1>3. QED
    BY <1>1, <1>2

\* save_batch: the same for the one value of a batch that is looked at.
LEMMA BatchEndDueIn ==
  ASSUME N \in Nat, NEW c, NEW l, NEW S, S \subseteq Position
  PROVE  /\ BatchEndDue(c, l, S) \in S \cup {0} /\ BatchEndDue(c, l, S) \in 0..N
         /\ ~conf.store => BatchEndDue(c, l, S) = 0
BY LatestIn DEF BatchEndDue

\* The number of records counted stays a number.
LEMMA CountedNat ==
  ASSUME N \in Nat, NEW c \in Nat, NEW S, S \subseteq Position
  PROVE  Counted(c, S) \in Nat /\ IsFiniteSet(S) /\ Cardinality(S) \in Nat
<1>1. IsFiniteSet(S)
  <2>1. IsFiniteSet(1..N)
    BY FS_Interval
  <2>2. S \in SUBSET (1..N)
    BY DEF Position
  <2>3. QED
    BY <2>1, <2>2, FS_Subset
<1>2. QED
    BY <1>1, FS_CardinalityType DEF Counted
-----------------------------------------------------------------------------
(* The cadence: how far the stored position can lie behind the cursor.     *)

\* What leaves no remainder is a multiple.
LEMMA MultipleOf ==
  ASSUME NEW e \in Nat \ {0}, NEW s \in Nat, s % e = 0
  PROVE  \E k \in Nat : s = e * k
BY SMT

\* Multiples of the cadence are closed under addition.
LEMMA MultiplesAdd ==
  ASSUME NEW e \in Nat \ {0}, NEW s \in Nat, NEW t \in Nat, s % e = 0, t % e = 0
  PROVE  (s + t) % e = 0
<1>1. PICK k \in Nat : s = e * k
    BY MultipleOf
<1>2. PICK l \in Nat : t = e * l
    BY MultipleOf
<1>3. s + t = e * (k + l) /\ k + l \in Nat
    BY <1>1, <1>2, SMT
<1>4. \A m \in Nat : (e * m) % e = 0
    BY SMT
<1>5. QED
    BY <1>3, <1>4

\* The next multiple of the cadence lies one cadence on.
LEMMA NextMultiple ==
  ASSUME NEW e \in Nat \ {0}, NEW s \in Nat, s % e = 0
  PROVE  (s + e) % e = 0
<1>1. e % e = 0
    BY SMT
<1>2. QED
    BY <1>1, MultiplesAdd

\* How many records b + 1 .. q are.
LEMMA IntervalSize ==
  ASSUME NEW b \in Nat, NEW q \in Nat, b <= q
  PROVE  Cardinality((b + 1)..q) = q - b
<1>1. Cardinality((b + 1)..q) = IF b + 1 > q THEN 0 ELSE q - (b + 1) + 1
    BY FS_Interval
<1>2. QED
    BY <1>1

\* Counting the records b + 1 .. q from c on, d is the last at which the count is
\* a multiple of the cadence (0: there is none).
LastMultiple(c, b, q, d) ==
  /\ d # 0 => d \in (b + 1)..q /\ (c + (d - b)) % conf.every = 0
  /\ \A p \in (b + 1)..q : d < p => (c + (p - b)) % conf.every # 0

\* prepare for the records b + 1 .. q, counted from c on: the checkpoint it finds
\* due is the last one at which the count is a multiple of the cadence.
LEMMA DueInInterval ==
  ASSUME N \in Nat, conf.store, conf.every \in Nat \ {0}, NEW c \in Nat,
         NEW b \in 0..N, NEW q \in 0..N, NEW l \in 0..b
  PROVE  LastMultiple(c, b, q, LastDue(c, l, (b + 1)..q))
<1> DEFINE S == (b + 1)..q
           T == {p \in S : ShouldSave(c + Cardinality({r \in S : r <= p}), l, p)}
           d == LastDue(c, l, S)
<1>1. ASSUME NEW p \in S
      PROVE  Cardinality({r \in S : r <= p}) = p - b
  <2>1. {r \in S : r <= p} = (b + 1)..p
    OBVIOUS
  <2>2. Cardinality((b + 1)..p) = p - b
    BY FS_Interval
  <2>3. QED
    BY <2>1, <2>2
<1>2. \A p \in S : p \in T <=> (c + (p - b)) % conf.every = 0
  <2> SUFFICES ASSUME NEW p \in S PROVE p \in T <=> (c + (p - b)) % conf.every = 0
    OBVIOUS
  <2>1. p # l
    OBVIOUS
  <2>2. QED
    BY <2>1, <1>1 DEF ShouldSave
<1>3. T \subseteq Position
    BY DEF Position
<1> HIDE DEF T
<1>4. d = Latest(T)
    BY DEF LastDue, T
<1>5. d \in T \cup {0} /\ (T # {} => d \in T) /\ \A p \in T : p <= d
    BY <1>3, <1>4, LatestIn
<1>6. T \subseteq S /\ 0 \notin S /\ S \subseteq Int
    BY DEF T
<1> HIDE DEF d
<1>7. d # 0 => d \in S /\ (c + (d - b)) % conf.every = 0
    BY <1>2, <1>5, <1>6
<1>8. ASSUME NEW p \in S, d < p PROVE (c + (p - b)) % conf.every # 0
  <2>1. p \notin T
    <3> SUFFICES ASSUME p \in T PROVE FALSE
      OBVIOUS
    <3>1. p <= d /\ d \in T
      BY <1>5
    <3>2. d \in Int /\ p \in Int
      BY <3>1, <1>6, Zenon
    <3>3. QED
      BY <3>1, <3>2, <1>8
  <2>2. QED
    BY <2>1, <1>2
<1>9. QED
    BY <1>7, <1>8 DEF d, LastMultiple

\* The position t trails q by less than the cadence, and lies a multiple of the
\* cadence after z, from where a run counts.
TrailsAt(t, z, q) ==
  t \in Nat /\ z <= t /\ t <= q /\ q - t < conf.every /\ (t - z) % conf.every = 0

\* The window: counting on over b + 1 .. q, the position saved or due trails what
\* is counted again.
LEMMA WindowMoves ==
  ASSUME N \in Nat, conf.store, conf.every \in Nat \ {0},
         NEW c \in Nat, NEW z \in Nat, NEW b \in 0..N, NEW q \in 0..N, NEW l \in 0..b,
         NEW s, b = z + c, b <= q, TrailsAt(s, z, b)
  PROVE  LET d == LastDue(c, l, (b + 1)..q) IN
         TrailsAt(IF d # 0 THEN d ELSE s, z, q) /\ (d # 0 => b < d)
<1> USE DEF TrailsAt
<1> DEFINE d == LastDue(c, l, (b + 1)..q)
           t == IF d # 0 THEN d ELSE s
<1>1. /\ d # 0 => d \in (b + 1)..q /\ (c + (d - b)) % conf.every = 0
      /\ \A p \in (b + 1)..q : d < p => (c + (p - b)) % conf.every # 0
  <2>1. LastMultiple(c, b, q, LastDue(c, l, (b + 1)..q))
    BY DueInInterval
  <2>2. QED
    BY <2>1 DEF LastMultiple
<1>0. d \in 0..N
    BY LastDueIn DEF Position
<1> HIDE DEF d
<1>2. t \in Nat /\ z <= t /\ t <= q /\ d <= t
    BY <1>0, <1>1
<1>3. (t - z) % conf.every = 0
  <2>1. CASE d # 0
    <3>1. c + (d - b) = t - z
      BY <2>1, <1>1
    <3>2. QED
      BY <2>1, <3>1, <1>1
  <2>2. CASE d = 0
    BY <2>2
  <2>. QED
    BY <2>1, <2>2
<1> HIDE DEF t
<1>4. q - t < conf.every
  <2> SUFFICES ASSUME q - t >= conf.every PROVE FALSE
    BY <1>2
  <2> DEFINE p == t + conf.every
  <2>1. t - z \in Nat /\ p \in Nat
    BY <1>2
  <2>2. ((t - z) + conf.every) % conf.every = 0
    BY <2>1, <1>3, NextMultiple
  <2>3. p > b
    BY <1>1, <1>2 DEF t
  <2>4. p \in (b + 1)..q /\ d < p
    BY <2>1, <2>3, <1>0, <1>2
  <2>5. c + (p - b) = (t - z) + conf.every
    BY <1>2
  <2> HIDE DEF p
  <2>6. QED
    BY <2>2, <2>4, <2>5, <1>1
<1>5. QED
    BY <1>0, <1>1, <1>2, <1>3, <1>4 DEF t, d
=============================================================================
