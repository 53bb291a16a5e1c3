------------------------ MODULE StageExecution_proofs ------------------------
(***************************************************************************)
(* Theorems about StageExecution, for any number of tasks, batches and     *)
(* iterations and any answers of the models: no work is lost between two   *)
(* batches, new work stays ahead of what is done, a closed stage has       *)
(* nothing left, and a change of the live plan keeps the batches there     *)
(* are.                                                                    *)
(*                                                                         *)
(* The first three sections are about plans: inserting a patch, sorting,   *)
(* numbering and attaching leave a plan that is Grown, for any plan that   *)
(* is WellFormed.  The others show that the workflow keeps StageInv.       *)
(***************************************************************************)
EXTENDS StageExecution, FiniteSetTheorems, WellFoundedInduction, TLAPS

----------------------------------------------------------------------------
(* Batches, and how sorting a plan inserts one. *)

\* A set of numbers has a least one.
LEMMA Least ==
    ASSUME NEW S \in SUBSET Nat, S # {}
    PROVE  \E m \in S : \A n \in S : m <= n
<1> DEFINE Less == {p \in Nat \X Nat : p[1] < p[2]}
<1>1. IsWellFoundedOn(Less, Nat)
  BY NatLessThanWellFounded, Zenon DEF OpToRel
<1>2. PICK m \in S : \A n \in S : <<n, m>> \notin Less
  BY <1>1, WFMin, Zenon
<1>3. ASSUME NEW n \in S PROVE m <= n
  <2>1. n \in Nat /\ m \in Nat /\ <<n, m>> \notin Less
    BY <1>2
  <2> QED
    BY <2>1
<1> QED
  BY <1>3

\* The order of batches is strict.
LEMMA BeforeIsStrict ==
    ASSUME NEW v, NEW tasks, NEW b \in BatchOf(v, tasks),
           NEW c \in BatchOf(v, tasks), NEW d \in BatchOf(v, tasks)
    PROVE  /\ ~Before(b, b)
           /\ Before(b, c) => ~Before(c, b)
           /\ Before(b, c) /\ Before(c, d) => Before(b, d)
<1>1. \A e \in {b, c, d} : Key(e) \in Nat /\ e.nr \in Nat
  BY DEF BatchOf, Key, IsPatch
<1> HIDE DEF BatchOf
<1> QED
  BY <1>1 DEF Before

\* What the fields of a batch of a plan are.
LEMMA BatchFields ==
    ASSUME NEW v, NEW tasks, NEW p \in Seq(BatchOf(v, tasks)),
           NEW i \in 1 .. Len(p)
    PROVE  /\ p[i] \in BatchOf(v, tasks)
           /\ p[i].nr \in Nat /\ p[i].anchor \in Nat /\ p[i].index \in Nat
           /\ p[i].tasks \in SUBSET tasks
<1>1. p[i] \in BatchOf(v, tasks)
  OBVIOUS
<1> QED
  BY <1>1 DEF BatchOf

\* The numbers of the batches of a plan are bounded: a first prefix without a
\* bound would be one batch longer than one with a bound.
LEMMA NumbersAreBounded ==
    ASSUME NEW v, NEW tasks, NEW p \in Seq(BatchOf(v, tasks))
    PROVE  \E m \in Nat : \A i \in 1 .. Len(p) : p[i].nr <= m
<1> DEFINE Bound(n) == \E m \in Nat : \A i \in 1 .. n : p[i].nr <= m
           Bad == {n \in 0 .. Len(p) : ~Bound(n)}
<1>1. \A i \in 1 .. Len(p) : p[i].nr \in Nat
  BY BatchFields
<1>2. Bound(0)
  OBVIOUS
<1>3. ASSUME NEW n \in 1 .. Len(p), Bound(n - 1) PROVE Bound(n)
  <2>1. PICK m \in Nat : \A i \in 1 .. n - 1 : p[i].nr <= m
    BY <1>3
  <2>2. p[n].nr \in Nat
    BY <1>1
  <2>3. ASSUME NEW i \in 1 .. n PROVE p[i].nr <= m + p[n].nr
    <3>1. CASE i = n
      BY <2>2, <3>1
    <3>2. CASE i # n
      BY <1>1, <2>1, <2>2, <3>2
    <3> QED
      BY <3>1, <3>2
  <2>4. m + p[n].nr \in Nat
    BY <2>2
  <2> QED
    BY <2>3, <2>4
<1> HIDE DEF Bound
<1>4. Bad = {}
  <2>1. SUFFICES ASSUME Bad # {} PROVE FALSE
    OBVIOUS
  <2>2. Bad \in SUBSET Nat
    OBVIOUS
  <2> HIDE DEF Bad
  <2>3. PICK n \in Bad : \A k \in Bad : n <= k
    BY <2>1, <2>2, Least
  <2>4. n \in 0 .. Len(p) /\ ~Bound(n)
    BY DEF Bad
  <2>5. n # 0
    BY <1>2, <2>4
  <2>6. n - 1 \in 0 .. Len(p) /\ n \in 1 .. Len(p) /\ ~(n <= n - 1)
    BY <2>4, <2>5
  <2>7. Bound(n - 1)
    BY <2>3, <2>6 DEF Bad
  <2> QED
    BY <1>3, <2>4, <2>6, <2>7
<1>5. Len(p) \in 0 .. Len(p)
  OBVIOUS
<1>6. Bound(Len(p))
  BY <1>4, <1>5
<1> QED
  BY <1>6 DEF Bound

\* A new patch has a number of its own among those of its anchor.
LEMMA NextNrIsNew ==
    ASSUME NEW v, NEW tasks, NEW p \in Seq(BatchOf(v, tasks)),
           NEW at \in Nat
    PROVE  /\ NextNr(p, at) \in Nat \ {0}
           /\ \A i \in 1 .. Len(p) :
                 IsPatch(p[i]) /\ p[i].anchor = at => p[i].nr < NextNr(p, at)
<1> DEFINE X == {0} \cup {b.nr : b \in {c \in Range(p) : IsPatch(c) /\ c.anchor = at}}
           Bounds == {m \in Nat : \A x \in X : x <= m}
<1>1. \A i \in 1 .. Len(p) : p[i].nr \in Nat
  BY BatchFields
<1>2. Range(p) = {p[i] : i \in 1 .. Len(p)}
  BY DEF Range
<1>3. X \in SUBSET Nat /\ 0 \in X
  BY <1>1, <1>2
<1>4. Bounds # {}
  <2>1. PICK m \in Nat : \A i \in 1 .. Len(p) : p[i].nr <= m
    BY NumbersAreBounded
  <2>2. m \in Bounds
    BY <1>2, <2>1
  <2> QED
    BY <2>2
<1>5. \A i \in 1 .. Len(p) : IsPatch(p[i]) /\ p[i].anchor = at => p[i].nr \in X
  BY <1>2
<1>6. Bounds \in SUBSET Nat
  OBVIOUS
<1>7. NextNr(p, at) = 1 + Max(X)
  BY DEF NextNr
<1> HIDE DEF Bounds
<1>8. PICK m \in Bounds : \A k \in Bounds : m <= k
  BY <1>4, <1>6, Least
<1>9. m \in Nat /\ \A x \in X : x <= m
  BY <1>8 DEF Bounds
<1> HIDE DEF X
<1>10. m \in X
  <2>1. SUFFICES ASSUME m \notin X PROVE FALSE
    OBVIOUS
  <2>2. m # 0
    BY <1>3, <2>1
  <2>3. m - 1 \in Nat /\ \A x \in X : x <= m - 1
    BY <1>3, <1>9, <2>1, <2>2
  <2>4. m - 1 \in Bounds
    BY <2>3 DEF Bounds
  <2> QED
    BY <1>8, <1>9, <2>4
<1>11. Max(X) \in X /\ \A x \in X : Max(X) >= x
  <2>1. m \in X /\ \A y \in X : m >= y
    BY <1>3, <1>9, <1>10
  <2> QED
    BY <2>1 DEF Max
<1>12. Max(X) \in Nat
  BY <1>3, <1>11
<1>13. ASSUME NEW i \in 1 .. Len(p), IsPatch(p[i]), p[i].anchor = at
       PROVE  p[i].nr < 1 + Max(X)
  <2>1. p[i].nr \in Nat /\ Max(X) >= p[i].nr
    BY <1>1, <1>5, <1>11, <1>13
  <2> QED
    BY <1>12, <2>1
<1> QED
  BY <1>7, <1>12, <1>13

\* The plan with batch x at place k.
Inserted(p, k, x) ==
    [at \in 1 .. Len(p) + 1 |->
        IF at < k THEN p[at] ELSE IF at = k THEN x ELSE p[at - 1]]

\* The place of batch i of the plan once x is inserted at k.
Shifted(i, k) == IF i < k THEN i ELSE i + 1

\* There is one place where a batch fits into an ordered plan.
LEMMA PlaceExists ==
    ASSUME NEW v, NEW tasks, NEW p \in Seq(BatchOf(v, tasks)),
           NEW x \in BatchOf(v, tasks),
           \A i, j \in 1 .. Len(p) : i < j => Before(p[i], p[j]),
           \A i \in 1 .. Len(p) : Before(p[i], x) \/ Before(x, p[i])
    PROVE  \E k \in 1 .. Len(p) + 1 :
              \A i \in 1 .. Len(p) :
                 IF i < k THEN Before(p[i], x) ELSE Before(x, p[i])
<1> DEFINE Behind == {i \in 1 .. Len(p) : Before(x, p[i])}
<1>1. CASE Behind = {}
  <2>1. \A i \in 1 .. Len(p) : i < Len(p) + 1 /\ Before(p[i], x)
    BY <1>1
  <2> QED
    BY <2>1
<1>2. CASE Behind # {}
  <2>1. Behind \in SUBSET Nat
    OBVIOUS
  <2>2. PICK k \in Behind : \A i \in Behind : k <= i
    <3> HIDE DEF Behind
    <3> QED
      BY <1>2, <2>1, Least
  <2>3. k \in 1 .. Len(p) /\ Before(x, p[k])
    BY <2>2
  <2>4. ASSUME NEW i \in 1 .. Len(p), i < k PROVE Before(p[i], x)
    BY <2>2, <2>3, <2>4
  <2>5. ASSUME NEW i \in 1 .. Len(p), ~(i < k) PROVE Before(x, p[i])
    <3>1. CASE i = k
      BY <2>3, <3>1
    <3>2. CASE k < i
      <4>1. Before(p[k], p[i])
        BY <2>3, <3>2
      <4>2. p[k] \in BatchOf(v, tasks) /\ p[i] \in BatchOf(v, tasks)
        BY <2>3, BatchFields
      <4> QED
        BY <2>3, <4>1, <4>2, BeforeIsStrict
    <3> QED
      BY <2>3, <2>5, <3>1, <3>2
  <2> QED
    BY <2>3, <2>4, <2>5
<1> QED
  BY <1>1, <1>2

\* How many batches come before each one, when x was put at the end of a plan
\* where it belongs to place k.
LEMMA Ranks ==
    ASSUME NEW v, NEW tasks, NEW p \in Seq(BatchOf(v, tasks)),
           NEW x \in BatchOf(v, tasks),
           \A i, j \in 1 .. Len(p) : i < j => Before(p[i], p[j]),
           NEW k \in 1 .. Len(p) + 1,
           \A i \in 1 .. Len(p) :
              IF i < k THEN Before(p[i], x) ELSE Before(x, p[i])
    PROVE  /\ \A i \in 1 .. Len(p) :
                 Cardinality(Earlier(Append(p, x), i)) = Shifted(i, k) - 1
           /\ Cardinality(Earlier(Append(p, x), Len(p) + 1)) = k - 1
<1> DEFINE n == Len(p)
           s == Append(p, x)
<1>1. /\ n \in Nat /\ Len(s) = n + 1 /\ s[n + 1] = x
      /\ \A i \in 1 .. n : s[i] = p[i]
  OBVIOUS
<1>2. \A i \in 1 .. n : p[i] \in BatchOf(v, tasks)
  BY BatchFields
<1>3. \A i \in 1 .. n : \A j \in 1 .. n : Before(p[j], p[i]) <=> j < i
  <2>1. TAKE i \in 1 .. n
  <2>2. TAKE j \in 1 .. n
  <2>3. CASE j < i
    BY <2>3
  <2>4. CASE j = i
    BY <1>2, <2>4, BeforeIsStrict
  <2>5. CASE i < j
    <3>1. Before(p[i], p[j])
      BY <2>5
    <3> QED
      BY <1>2, <2>5, <3>1, BeforeIsStrict
  <2> QED
    BY <2>3, <2>4, <2>5
<1>4. ~Before(x, x) /\ \A i \in 1 .. n : Before(x, p[i]) <=> ~Before(p[i], x)
  <2>1. ~Before(x, x)
    BY BeforeIsStrict
  <2>2. ASSUME NEW i \in 1 .. n PROVE Before(x, p[i]) <=> ~Before(p[i], x)
    <3>1. Before(p[i], x) \/ Before(x, p[i])
      OBVIOUS
    <3>2. Before(p[i], x) => ~Before(x, p[i])
      BY <1>2, BeforeIsStrict
    <3> QED
      BY <3>1, <3>2
  <2> QED
    BY <2>1, <2>2
<1>5. Earlier(s, n + 1) = 1 .. k - 1
  <2>1. ASSUME NEW j \in 1 .. n + 1 PROVE Before(s[j], s[n + 1]) <=> j < k
    <3>1. CASE j = n + 1
      BY <1>1, <1>4, <3>1
    <3>2. CASE j # n + 1
      <4>1. j \in 1 .. n
        BY <1>1, <3>2
      <4> QED
        BY <1>1, <1>4, <4>1
    <3> QED
      BY <3>1, <3>2
  <2> QED
    BY <1>1, <2>1 DEF Earlier
<1>6. \A i \in 1 .. n : i < k => Earlier(s, i) = 1 .. i - 1
  <2>1. SUFFICES ASSUME NEW i \in 1 .. n, i < k PROVE Earlier(s, i) = 1 .. i - 1
    OBVIOUS
  <2>2. ASSUME NEW j \in 1 .. n + 1 PROVE Before(s[j], s[i]) <=> j < i
    <3>1. CASE j = n + 1
      <4>1. s[j] = x /\ s[i] = p[i] /\ ~(j < i) /\ Before(p[i], x)
        BY <1>1, <2>1, <3>1
      <4> QED
        BY <1>4, <4>1
    <3>2. CASE j # n + 1
      <4>1. j \in 1 .. n
        BY <1>1, <3>2
      <4> QED
        BY <1>1, <1>3, <4>1
    <3> QED
      BY <3>1, <3>2
  <2> QED
    BY <1>1, <2>2 DEF Earlier
<1>7. \A i \in 1 .. n : ~(i < k) => Earlier(s, i) = (1 .. i - 1) \cup {n + 1}
  <2>1. SUFFICES ASSUME NEW i \in 1 .. n, ~(i < k)
                 PROVE  Earlier(s, i) = (1 .. i - 1) \cup {n + 1}
    OBVIOUS
  <2>2. ASSUME NEW j \in 1 .. n + 1 PROVE Before(s[j], s[i]) <=> j < i \/ j = n + 1
    <3>1. CASE j = n + 1
      <4>1. s[j] = x /\ s[i] = p[i] /\ Before(x, p[i])
        BY <1>1, <2>1, <3>1
      <4> QED
        BY <3>1, <4>1
    <3>2. CASE j # n + 1
      <4>1. j \in 1 .. n
        BY <1>1, <3>2
      <4> QED
        BY <1>1, <1>3, <3>2, <4>1
    <3> QED
      BY <3>1, <3>2
  <2> QED
    BY <1>1, <2>2 DEF Earlier
<1>8. \A m \in Nat : IsFiniteSet(1 .. m) /\ Cardinality(1 .. m) = m
  <2>1. TAKE m \in Nat
  <2>2. IsFiniteSet(1 .. m) /\ Cardinality(1 .. m) = IF 1 > m THEN 0 ELSE m - 1 + 1
    <3>1. 1 \in Int /\ m \in Int
      OBVIOUS
    <3> QED
      BY <3>1, FS_Interval, Zenon
  <2> QED
    BY <2>2
<1>9. \A i \in 1 .. n : ~(i < k) => Cardinality((1 .. i - 1) \cup {n + 1}) = i
  <2>1. SUFFICES ASSUME NEW i \in 1 .. n
                 PROVE  Cardinality((1 .. i - 1) \cup {n + 1}) = i
    OBVIOUS
  <2>2. i - 1 \in Nat /\ n + 1 \notin 1 .. i - 1
    BY <1>1
  <2>3. IsFiniteSet(1 .. i - 1) /\ Cardinality(1 .. i - 1) = i - 1
    BY <1>8, <2>2
  <2>4. Cardinality((1 .. i - 1) \cup {n + 1}) = Cardinality(1 .. i - 1) + 1
    BY <2>2, <2>3, FS_AddElement
  <2> QED
    BY <2>3, <2>4
<1>10. Cardinality(Earlier(s, n + 1)) = k - 1
  <2>1. k - 1 \in Nat
    BY <1>1
  <2> QED
    BY <1>5, <1>8, <2>1
<1>11. ASSUME NEW i \in 1 .. n PROVE Cardinality(Earlier(s, i)) = Shifted(i, k) - 1
  <2>1. CASE i < k
    <3>1. i - 1 \in Nat
      BY <1>1
    <3> QED
      BY <1>6, <1>8, <2>1, <3>1 DEF Shifted
  <2>2. CASE ~(i < k)
    <3>1. Cardinality(Earlier(s, i)) = i
      BY <1>7, <1>9, <2>2
    <3> QED
      BY <2>2, <3>1 DEF Shifted
  <2> QED
    BY <2>1, <2>2
<1> QED
  BY <1>10, <1>11

\* Sorting puts a batch at the end of an ordered plan to its place and moves
\* no other past another.
LEMMA SortingInserts ==
    ASSUME NEW v, NEW tasks, NEW p \in Seq(BatchOf(v, tasks)),
           NEW x \in BatchOf(v, tasks),
           \A i, j \in 1 .. Len(p) : i < j => Before(p[i], p[j]),
           NEW k \in 1 .. Len(p) + 1,
           \A i \in 1 .. Len(p) :
              IF i < k THEN Before(p[i], x) ELSE Before(x, p[i])
    PROVE  Sorted(Append(p, x)) = Inserted(p, k, x)
<1> DEFINE n == Len(p)
           s == Append(p, x)
           Rank(i) == Cardinality(Earlier(s, i))
           From(at) == CHOOSE i \in 1 .. Len(s) : Rank(i) = at - 1
<1>1. /\ n \in Nat /\ Len(s) = n + 1 /\ s[n + 1] = x
      /\ \A i \in 1 .. n : s[i] = p[i]
  OBVIOUS
<1>2. Rank(n + 1) = k - 1 /\ \A i \in 1 .. n : Rank(i) = Shifted(i, k) - 1
  BY Ranks
<1> HIDE DEF Rank
<1>3. ASSUME NEW at \in 1 .. n + 1, NEW i \in 1 .. n + 1, Rank(i) = at - 1
      PROVE  s[i] = Inserted(p, k, x)[at]
  <2>1. CASE i = n + 1
    <3>1. at = k
      BY <1>1, <1>2, <1>3, <2>1
    <3> QED
      BY <1>1, <2>1, <3>1 DEF Inserted
  <2>2. CASE i # n + 1
    <3>1. i \in 1 .. n
      BY <1>1, <2>2
    <3>2. at = Shifted(i, k)
      BY <1>1, <1>2, <1>3, <3>1 DEF Shifted
    <3>3. s[i] = p[i]
      BY <1>1, <3>1
    <3>4. CASE i < k
      BY <1>1, <3>1, <3>2, <3>3, <3>4 DEF Shifted, Inserted
    <3>5. CASE ~(i < k)
      <4>1. at = i + 1 /\ ~(at < k) /\ at # k /\ at - 1 = i
        BY <1>1, <3>1, <3>2, <3>5 DEF Shifted
      <4> QED
        BY <1>1, <3>3, <4>1 DEF Inserted
    <3> QED
      BY <3>4, <3>5
  <2> QED
    BY <2>1, <2>2
<1>4. ASSUME NEW at \in 1 .. n + 1 PROVE \E i \in 1 .. n + 1 : Rank(i) = at - 1
  <2>1. CASE at < k
    <3>1. at \in 1 .. n
      BY <1>1, <2>1
    <3> QED
      BY <1>1, <1>2, <2>1, <3>1 DEF Shifted
  <2>2. CASE at = k
    <3>1. n + 1 \in 1 .. n + 1 /\ Rank(n + 1) = at - 1
      BY <1>1, <1>2, <2>2
    <3> QED
      BY <3>1
  <2>3. CASE k < at
    <3>1. at - 1 \in 1 .. n /\ ~(at - 1 < k)
      BY <1>1, <2>3
    <3>2. Rank(at - 1) = at - 1
      BY <1>2, <3>1 DEF Shifted
    <3>3. at - 1 \in 1 .. n + 1
      BY <1>1, <3>1
    <3> QED
      BY <3>2, <3>3
  <2> QED
    BY <2>1, <2>2, <2>3
<1>5. Sorted(s) = [at \in 1 .. n + 1 |-> s[From(at)]]
  BY <1>1 DEF Sorted, Rank
<1>6. ASSUME NEW at \in 1 .. n + 1 PROVE s[From(at)] = Inserted(p, k, x)[at]
  <2>1. From(at) \in 1 .. n + 1 /\ Rank(From(at)) = at - 1
    BY <1>1, <1>4
  <2> HIDE DEF From
  <2> QED
    BY <1>3, <2>1
<1> HIDE DEF From
<1>7. Inserted(p, k, x) = [at \in 1 .. n + 1 |-> Inserted(p, k, x)[at]]
  BY DEF Inserted
<1> QED
  BY <1>5, <1>6, <1>7

----------------------------------------------------------------------------
(* A patch is put into a plan. *)

\* Numbering a plan again changes the index of its batches alone.
LEMMA ReindexedFields ==
    ASSUME NEW v, NEW tasks, NEW r \in Seq(BatchOf(v, tasks))
    PROVE  /\ Len(Reindexed(r)) = Len(r)
           /\ Reindexed(r) \in Seq(BatchOf(v, tasks))
           /\ \A i \in 1 .. Len(r) :
                 /\ Reindexed(r)[i].index = i /\ Reindexed(r)[i].id = r[i].id
                 /\ Reindexed(r)[i].anchor = r[i].anchor /\ Reindexed(r)[i].nr = r[i].nr
                 /\ Reindexed(r)[i].tasks = r[i].tasks
<1> DEFINE Moved(i) == [r[i] EXCEPT !.index = i]
<1>1. ASSUME NEW i \in 1 .. Len(r)
      PROVE  /\ Moved(i) \in BatchOf(v, tasks)
             /\ Moved(i).index = i /\ Moved(i).id = r[i].id
             /\ Moved(i).anchor = r[i].anchor /\ Moved(i).nr = r[i].nr
             /\ Moved(i).tasks = r[i].tasks
  <2>1. r[i] \in BatchOf(v, tasks) /\ i \in Nat
    BY BatchFields
  <2> QED
    BY <2>1 DEF BatchOf
<1>2. Reindexed(r) = [i \in 1 .. Len(r) |-> Moved(i)]
  BY DEF Reindexed
<1> HIDE DEF Moved
<1>3. Len(r) \in Nat /\ Reindexed(r) \in [1 .. Len(r) -> BatchOf(v, tasks)]
  BY <1>1, <1>2
<1>4. Len(Reindexed(r)) = Len(r)
  BY <1>2, <1>3
<1>5. Reindexed(r) \in Seq(BatchOf(v, tasks))
  BY <1>3
<1> QED
  BY <1>1, <1>2, <1>4, <1>5

\* Renumbering an ordered plan leaves it ordered if the schema accepts it: two
\* patches keep their keys, two others are numbered in their order, and what
\* is between a batch of the sequencer and a patch is looked at pair by pair.
LEMMA RenumberingKeepsOrder ==
    ASSUME NEW v, NEW tasks, NEW r \in Seq(BatchOf(v, tasks)),
           \A i, j \in 1 .. Len(r) : i < j => Before(r[i], r[j]),
           \A i \in 1 .. Len(r) : IsPatch(r[i]) => r[i].anchor < i,
           Accepted(Reindexed(r))
    PROVE  \A i, j \in 1 .. Len(r) :
              i < j => Before(Reindexed(r)[i], Reindexed(r)[j])
<1> DEFINE n == Len(r)
           q == Reindexed(r)
<1>1. /\ n \in Nat /\ Len(q) = n
      /\ \A i \in 1 .. n : /\ r[i].nr \in Nat /\ r[i].anchor \in Nat
                           /\ q[i].nr = r[i].nr /\ q[i].anchor = r[i].anchor
                           /\ q[i].index = i
  BY BatchFields, ReindexedFields
<1> HIDE DEF q
<1>2. \A i \in 1 .. n - 1 : ~Before(q[i + 1], q[i])
  BY <1>1 DEF Accepted, q
<1>3. \A i \in 1 .. n : IsPatch(q[i]) <=> IsPatch(r[i])
  BY <1>1 DEF IsPatch
<1>4. \A i \in 1 .. n : Key(q[i]) = IF IsPatch(r[i]) THEN r[i].anchor ELSE i
  BY <1>1, <1>3 DEF Key
<1>5. \A i, j \in 1 .. n : i < j /\ IsPatch(r[i]) /\ IsPatch(r[j]) =>
         \/ r[i].anchor < r[j].anchor
         \/ r[i].anchor = r[j].anchor /\ r[i].nr < r[j].nr
  BY DEF Before, Key
<1>6. ASSUME NEW i \in 1 .. n, NEW j \in 1 .. n, i < j, ~IsPatch(r[i]), IsPatch(r[j])
      PROVE  i <= r[j].anchor
  <2> DEFINE Starts == {k \in i + 1 .. j : \A l \in k .. j : IsPatch(r[l])}
  <2>1. j \in Starts
    BY <1>1, <1>6
  <2>2. Starts \in SUBSET Nat
    BY <1>1
  <2>3. PICK k \in Starts : \A l \in Starts : k <= l
    <3> HIDE DEF Starts
    <3> QED
      BY <2>1, <2>2, Least
  <2>4. k \in i + 1 .. j /\ \A l \in k .. j : IsPatch(r[l])
    BY <2>3
  <2>5. k - 1 \in 1 .. n - 1 /\ i <= k - 1 /\ k - 1 + 1 = k /\ k \in 1 .. n
    BY <1>1, <2>4
  <2>6. ~IsPatch(r[k - 1])
    <3>1. CASE k - 1 = i
      BY <1>6, <3>1
    <3>2. CASE k - 1 # i
      <4>1. SUFFICES ASSUME IsPatch(r[k - 1]) PROVE FALSE
        OBVIOUS
      <4>2. k - 1 \in i + 1 .. j
        BY <2>4, <2>5, <3>2
      <4>3. \A l \in k - 1 .. j : IsPatch(r[l])
        BY <2>4, <2>5, <4>1
      <4>4. k - 1 \in Starts
        BY <4>2, <4>3
      <4>5. k <= k - 1
        <5> HIDE DEF Starts
        <5> QED
          BY <2>3, <4>4
      <4>6. k \in Nat
        BY <1>1, <2>5
      <4> QED
        BY <4>5, <4>6
    <3> QED
      BY <3>1, <3>2
  <2>7. IsPatch(r[k])
    BY <2>4
  <2>8. k - 1 <= r[k].anchor
    <3>1. ~Before(q[k], q[k - 1])
      BY <1>2, <2>5
    <3>2. k - 1 \in 1 .. n
      BY <1>1, <2>5
    <3>3. Key(q[k]) = r[k].anchor /\ Key(q[k - 1]) = k - 1 /\ r[k].anchor \in Nat
      BY <1>1, <1>4, <2>5, <2>6, <2>7, <3>2
    <3> QED
      BY <2>5, <3>1, <3>3 DEF Before
  <2>9. r[k].anchor <= r[j].anchor
    <3>1. CASE k = j
      BY <1>1, <3>1
    <3>2. CASE k < j
      BY <1>1, <1>5, <1>6, <2>5, <2>7, <3>2
    <3> QED
      BY <2>4, <3>1, <3>2
  <2> QED
    BY <1>1, <2>5, <2>8, <2>9
<1>7. ASSUME NEW i \in 1 .. n, NEW j \in 1 .. n, i < j
      PROVE  Before(q[i], q[j])
  <2>1. /\ q[i].nr = r[i].nr /\ q[j].nr = r[j].nr
        /\ r[i].nr \in Nat /\ r[j].nr \in Nat
        /\ r[i].anchor \in Nat /\ r[j].anchor \in Nat
    BY <1>1
  <2>2. CASE IsPatch(r[i]) /\ IsPatch(r[j])
    <3>1. Key(q[i]) = r[i].anchor /\ Key(q[j]) = r[j].anchor
      BY <1>4, <2>2
    <3> QED
      BY <1>5, <1>7, <2>1, <2>2, <3>1 DEF Before
  <2>3. CASE ~IsPatch(r[j])
    <3>1. Key(q[j]) = j
      BY <1>4, <2>3
    <3>2. Key(q[i]) < j
      <4>1. CASE IsPatch(r[i])
        <5>1. Key(q[i]) = r[i].anchor /\ r[i].anchor < i
          BY <1>4, <4>1
        <5> QED
          BY <1>7, <2>1, <5>1
      <4>2. CASE ~IsPatch(r[i])
        BY <1>4, <1>7, <4>2
      <4> QED
        BY <4>1, <4>2
    <3> QED
      BY <3>1, <3>2 DEF Before
  <2>4. CASE ~IsPatch(r[i]) /\ IsPatch(r[j])
    <3>1. Key(q[i]) = i /\ Key(q[j]) = r[j].anchor
      BY <1>4, <2>4
    <3>2. i <= r[j].anchor
      BY <1>6, <1>7, <2>4
    <3>3. r[i].nr = 0 /\ r[j].nr > 0
      BY <2>1, <2>4 DEF IsPatch
    <3> QED
      BY <2>1, <3>1, <3>2, <3>3 DEF Before
  <2> QED
    BY <2>2, <2>3, <2>4
<1> QED
  BY <1>7 DEF q

\* A patch of batch a fits behind it.
LEMMA PatchFits ==
    ASSUME NEW v \in Nat, NEW tasks, NEW p, WellFormed(p, v, tasks),
           NEW a \in 1 .. Len(p), NEW new \in SUBSET tasks,
           NEW x, x = Batch(v, a, NextNr(p, a), new)
    PROVE  /\ x \in BatchOf(v, tasks) /\ x.id = <<v, x.anchor, x.nr>>
           /\ IsPatch(x) /\ x.anchor = a /\ x.tasks = new
           /\ \A i \in 1 .. Len(p) : p[i].id # x.id
           /\ \E k \in a + 1 .. Len(p) + 1 :
                 \A i \in 1 .. Len(p) :
                    IF i < k THEN Before(p[i], x) ELSE Before(x, p[i])
<1> DEFINE n == Len(p)
           nr == NextNr(p, a)
<1>1. p \in Seq(BatchOf(v, tasks)) /\ a \in Nat /\ n \in Nat
  BY DEF WellFormed
<1>2. /\ nr \in Nat \ {0}
      /\ \A i \in 1 .. n : IsPatch(p[i]) /\ p[i].anchor = a => p[i].nr < nr
  BY <1>1, NextNrIsNew
<1> HIDE DEF nr
<1>3. /\ x = [id |-> <<v, a, nr>>, index |-> a, anchor |-> a, nr |-> nr, tasks |-> new]
      /\ x \in BatchOf(v, tasks)
  BY <1>1, <1>2 DEF Batch, BatchOf, nr
<1>4. IsPatch(x) /\ Key(x) = a /\ x.nr = nr
  BY <1>2, <1>3 DEF IsPatch, Key
<1>5. \A i \in 1 .. n : /\ p[i].nr \in Nat /\ p[i].anchor \in Nat
                        /\ p[i].index = i /\ p[i].id = <<v, p[i].anchor, p[i].nr>>
                        /\ IsPatch(p[i]) => p[i].anchor < i
  BY <1>1, BatchFields DEF WellFormed
<1>6. ASSUME NEW i \in 1 .. n PROVE p[i].id # x.id
  <2>1. SUFFICES ASSUME p[i].id = x.id PROVE FALSE
    OBVIOUS
  <2>2. p[i].anchor = a /\ p[i].nr = nr
    BY <1>3, <1>5, <2>1
  <2>3. IsPatch(p[i])
    BY <1>2, <2>2 DEF IsPatch
  <2> QED
    BY <1>2, <2>2, <2>3
<1>7. ASSUME NEW i \in 1 .. n PROVE Before(p[i], x) \/ Before(x, p[i])
  <2>1. CASE IsPatch(p[i])
    <3>1. Key(p[i]) = p[i].anchor
      BY <2>1 DEF Key
    <3> QED
      BY <1>1, <1>2, <1>4, <1>5, <2>1, <3>1 DEF Before
  <2>2. CASE ~IsPatch(p[i])
    <3>1. Key(p[i]) = i /\ p[i].nr = 0
      BY <1>5, <2>2 DEF Key, IsPatch
    <3> QED
      BY <1>1, <1>2, <1>4, <3>1 DEF Before
  <2> QED
    BY <2>1, <2>2
<1>8. Before(p[a], x)
  <2>1. CASE IsPatch(p[a])
    <3>1. Key(p[a]) < a
      BY <1>5, <2>1 DEF Key
    <3> QED
      BY <1>4, <3>1 DEF Before
  <2>2. CASE ~IsPatch(p[a])
    <3>1. Key(p[a]) = a /\ p[a].nr = 0
      BY <1>5, <2>2 DEF Key, IsPatch
    <3> QED
      BY <1>2, <1>4, <3>1 DEF Before
  <2> QED
    BY <2>1, <2>2
<1>9. \A i, j \in 1 .. n : i < j => Before(p[i], p[j])
  BY DEF WellFormed
<1>10. PICK k \in 1 .. n + 1 :
          \A i \in 1 .. n : IF i < k THEN Before(p[i], x) ELSE Before(x, p[i])
  BY <1>1, <1>3, <1>7, <1>9, PlaceExists
<1>11. a < k
  <2>1. SUFFICES ASSUME ~(a < k) PROVE FALSE
    OBVIOUS
  <2>2. Before(x, p[a])
    BY <1>10, <2>1
  <2>3. p[a] \in BatchOf(v, tasks)
    BY <1>1, BatchFields
  <2> QED
    BY <1>3, <1>8, <2>2, <2>3, BeforeIsStrict
<1>12. k \in a + 1 .. n + 1
  BY <1>1, <1>11
<1>13. x.id = <<v, x.anchor, x.nr>> /\ x.anchor = a /\ x.tasks = new
  BY <1>3
<1>14. \E l \in a + 1 .. n + 1 :
          \A i \in 1 .. n : IF i < l THEN Before(p[i], x) ELSE Before(x, p[i])
  BY <1>10, <1>12
<1> QED
  BY <1>3, <1>4, <1>6, <1>13, <1>14

\* Plan q came from p by changes behind place m that gave the tasks of new a
\* batch there.
Grown(p, q, m, new, v, tasks) ==
    /\ WellFormed(q, v, tasks)
    /\ \E f \in [1 .. Len(p) -> 1 .. Len(q)] :
          /\ \A i, j \in 1 .. Len(p) : i < j => f[i] < f[j]
          /\ \A i \in 1 .. Len(p) :
                /\ q[f[i]].id = p[i].id
                /\ p[i].tasks \subseteq q[f[i]].tasks
                /\ i <= m => f[i] = i /\ q[i].tasks = p[i].tasks
    /\ \A t \in new : \E j \in 1 .. Len(q) : m < j /\ t \in q[j].tasks

\* The position of a batch id is the place of its batch.
LEMMA PositionIsPlace ==
    ASSUME NEW v, NEW tasks, NEW p, WellFormed(p, v, tasks),
           NEW a \in 1 .. Len(p)
    PROVE  Position(p, p[a].id) = a
<1>1. p \in Seq(BatchOf(v, tasks))
  BY DEF WellFormed
<1>2. ASSUME NEW i \in 1 .. Len(p), p[i].id = p[a].id PROVE i = a
  <2>1. ~(i < a) /\ ~(a < i)
    BY <1>2 DEF WellFormed
  <2> QED
    BY <1>1, <2>1
<1> QED
  BY <1>2 DEF Position

\* insert_patch_batch_after_batch, if the schema accepts the plan.
LEMMA PatchGrows ==
    ASSUME NEW v \in Nat, NEW tasks, NEW p, WellFormed(p, v, tasks),
           NEW a \in 1 .. Len(p), NEW m \in 1 .. a, NEW new \in SUBSET tasks,
           NEW q, q = PatchAfter(p, p[a].id, new), q # Refused
    PROVE  Grown(p, q, m, new, v, tasks)
<1> DEFINE n == Len(p)
           x == Batch(v, a, NextNr(p, a), new)
<1>1. /\ p \in Seq(BatchOf(v, tasks)) /\ n \in Nat
      /\ p[a].index = a /\ p[a].id[1] = v
  BY DEF WellFormed
<1>2. q = Normalized(Append(p, x))
  BY <1>1, PositionIsPlace DEF PatchAfter
<1>3. /\ x \in BatchOf(v, tasks) /\ x.id = <<v, x.anchor, x.nr>>
      /\ IsPatch(x) /\ x.anchor = a /\ x.tasks = new
      /\ \A i \in 1 .. n : p[i].id # x.id
      /\ \E k \in a + 1 .. n + 1 :
            \A i \in 1 .. n :
               IF i < k THEN Before(p[i], x) ELSE Before(x, p[i])
  BY PatchFits
<1> HIDE DEF x
<1>4. PICK k \in a + 1 .. n + 1 :
         \A i \in 1 .. n : IF i < k THEN Before(p[i], x) ELSE Before(x, p[i])
  BY <1>3
<1>5. k \in 1 .. n + 1 /\ a < k
  BY <1>1, <1>4
<1>6. \A i, j \in 1 .. n : i < j => Before(p[i], p[j])
  BY DEF WellFormed
<1> DEFINE r == Inserted(p, k, x)
<1>7. Sorted(Append(p, x)) = r
  BY <1>1, <1>3, <1>4, <1>5, <1>6, SortingInserts
<1>8. /\ q = Reindexed(r) /\ Accepted(Reindexed(r))
  BY <1>2, <1>7 DEF Normalized
<1>9. \A i \in 1 .. n : p[i] \in BatchOf(v, tasks)
  BY <1>1, BatchFields
<1>10. /\ r \in Seq(BatchOf(v, tasks)) /\ Len(r) = n + 1 /\ r[k] = x
       /\ \A i \in 1 .. n : /\ Shifted(i, k) \in 1 .. n + 1 /\ Shifted(i, k) # k
                            /\ r[Shifted(i, k)] = p[i]
       /\ \A j \in 1 .. n + 1 : j = k \/ \E i \in 1 .. n : j = Shifted(i, k)
  <2>1. r \in [1 .. n + 1 -> BatchOf(v, tasks)]
    <3>1. ASSUME NEW at \in 1 .. n + 1 PROVE r[at] \in BatchOf(v, tasks)
      <4>1. CASE at < k
        BY <1>1, <1>5, <1>9, <4>1 DEF Inserted
      <4>2. CASE at = k
        BY <1>3, <4>2 DEF Inserted
      <4>3. CASE k < at
        <5>1. at - 1 \in 1 .. n
          BY <1>1, <1>5, <4>3
        <5> QED
          BY <1>5, <1>9, <4>3, <5>1 DEF Inserted
      <4> QED
        BY <1>5, <4>1, <4>2, <4>3
    <3> QED
      BY <3>1 DEF Inserted
  <2>2. r \in Seq(BatchOf(v, tasks)) /\ Len(r) = n + 1
    BY <1>1, <2>1
  <2>3. r[k] = x
    BY <1>5 DEF Inserted
  <2>4. ASSUME NEW i \in 1 .. n
        PROVE  Shifted(i, k) \in 1 .. n + 1 /\ Shifted(i, k) # k /\ r[Shifted(i, k)] = p[i]
    <3>1. CASE i < k
      BY <1>1, <1>5, <3>1 DEF Shifted, Inserted
    <3>2. CASE ~(i < k)
      <4>1. Shifted(i, k) = i + 1 /\ i + 1 \in 1 .. n + 1 /\ ~(i + 1 < k) /\ i + 1 # k
        BY <1>1, <1>5, <3>2 DEF Shifted
      <4>2. i + 1 - 1 = i
        BY <1>1
      <4> QED
        BY <4>1, <4>2 DEF Inserted
    <3> QED
      BY <3>1, <3>2
  <2>5. ASSUME NEW j \in 1 .. n + 1, j # k PROVE \E i \in 1 .. n : j = Shifted(i, k)
    <3>1. CASE j < k
      <4>1. j \in 1 .. n /\ j = Shifted(j, k)
        BY <1>1, <1>5, <3>1 DEF Shifted
      <4> QED
        BY <4>1
    <3>2. CASE k < j
      <4>1. j - 1 \in 1 .. n /\ j = Shifted(j - 1, k)
        BY <1>1, <1>5, <3>2 DEF Shifted
      <4> QED
        BY <4>1
    <3> QED
      BY <1>5, <2>5, <3>1, <3>2
  <2> QED
    BY <2>2, <2>3, <2>4, <2>5
<1> HIDE DEF r
<1>11. \A i, j \in 1 .. n : Shifted(i, k) < Shifted(j, k) <=> i < j
  BY <1>1, <1>5 DEF Shifted
<1>12. \A i \in 1 .. n : /\ Shifted(i, k) < k <=> i < k
                         /\ Shifted(i, k) >= i
                         /\ i <= a => Shifted(i, k) = i
  BY <1>1, <1>5 DEF Shifted
<1>13. \A i, j \in 1 .. Len(r) : i < j => Before(r[i], r[j]) /\ r[i].id # r[j].id
  <2>1. SUFFICES ASSUME NEW i \in 1 .. n + 1, NEW j \in 1 .. n + 1, i < j
                 PROVE  Before(r[i], r[j]) /\ r[i].id # r[j].id
    BY <1>10
  <2>2. CASE i = k
    <3>1. PICK w \in 1 .. n : j = Shifted(w, k)
      BY <1>10, <2>1, <2>2
    <3>2. r[j] = p[w] /\ r[i] = x
      BY <1>10, <2>2, <3>1
    <3>3. ~(j < k) /\ (Shifted(w, k) < k <=> w < k)
      BY <1>1, <1>5, <1>12, <2>1, <2>2
    <3>4. ~(w < k)
      BY <3>1, <3>3
    <3> QED
      BY <1>3, <1>4, <3>2, <3>4
  <2>3. CASE j = k
    <3>0. i # k /\ i \in 1 .. n + 1
      BY <1>1, <1>5, <2>1, <2>3
    <3>1. PICK u \in 1 .. n : i = Shifted(u, k)
      BY <1>10, <3>0
    <3>2. r[i] = p[u] /\ r[j] = x
      BY <1>10, <2>3, <3>1
    <3>3. i < k /\ (Shifted(u, k) < k <=> u < k)
      BY <1>12, <2>1, <2>3
    <3>4. u < k
      BY <3>1, <3>3
    <3> QED
      BY <1>3, <1>4, <3>2, <3>4
  <2>4. CASE i # k /\ j # k
    <3>1. PICK u \in 1 .. n : i = Shifted(u, k)
      BY <1>10, <2>4
    <3>2. PICK w \in 1 .. n : j = Shifted(w, k)
      BY <1>10, <2>4
    <3>3. u < w /\ r[i] = p[u] /\ r[j] = p[w]
      BY <1>10, <1>11, <2>1, <3>1, <3>2
    <3> QED
      BY <3>3 DEF WellFormed
  <2> QED
    BY <2>2, <2>3, <2>4
<1>14. ASSUME NEW i \in 1 .. Len(r)
       PROVE  /\ r[i].id = <<v, r[i].anchor, r[i].nr>>
              /\ IsPatch(r[i]) => r[i].anchor < i
  <2>1. CASE i = k
    BY <1>3, <1>5, <1>10, <2>1
  <2>2. CASE i # k
    <3>1. PICK u \in 1 .. n : i = Shifted(u, k)
      BY <1>10, <2>2
    <3>2. r[i] = p[u] /\ i >= u
      BY <1>10, <1>12, <3>1
    <3>3. /\ p[u].id = <<v, p[u].anchor, p[u].nr>>
          /\ IsPatch(p[u]) => p[u].anchor < u
      BY DEF WellFormed
    <3>4. p[u].anchor \in Nat /\ i \in Nat
      BY <1>1, BatchFields
    <3> QED
      BY <3>2, <3>3, <3>4
  <2> QED
    BY <2>1, <2>2
<1>15. \A i, j \in 1 .. Len(r) : i < j => Before(q[i], q[j])
  BY <1>8, <1>10, <1>13, <1>14, RenumberingKeepsOrder
<1>16. /\ Len(q) = n + 1 /\ q \in Seq(BatchOf(v, tasks))
       /\ \A i \in 1 .. n + 1 :
             /\ q[i].index = i /\ q[i].id = r[i].id /\ q[i].anchor = r[i].anchor
             /\ q[i].nr = r[i].nr /\ q[i].tasks = r[i].tasks
  BY <1>8, <1>10, ReindexedFields
<1>17. WellFormed(q, v, tasks)
  <2>1. ASSUME NEW i \in 1 .. n + 1
        PROVE  /\ q[i].id = <<v, q[i].anchor, q[i].nr>>
               /\ IsPatch(q[i]) => q[i].anchor < i
    BY <1>10, <1>14, <1>16 DEF IsPatch
  <2>2. \A i, j \in 1 .. n + 1 : i < j => Before(q[i], q[j]) /\ q[i].id # q[j].id
    BY <1>10, <1>13, <1>15, <1>16
  <2> QED
    BY <1>16, <2>1, <2>2 DEF WellFormed
<1>18. \A t \in new : \E j \in 1 .. Len(q) : m < j /\ t \in q[j].tasks
  <2>1. q[k].tasks = new /\ m < k
    BY <1>3, <1>5, <1>10, <1>16
  <2> QED
    BY <1>5, <1>16, <2>1
<1>19. \E f \in [1 .. n -> 1 .. Len(q)] :
          /\ \A i, j \in 1 .. n : i < j => f[i] < f[j]
          /\ \A i \in 1 .. n : /\ q[f[i]].id = p[i].id
                               /\ p[i].tasks \subseteq q[f[i]].tasks
                               /\ i <= m => f[i] = i /\ q[i].tasks = p[i].tasks
  <2> DEFINE f == [i \in 1 .. n |-> Shifted(i, k)]
  <2>1. f \in [1 .. n -> 1 .. Len(q)]
    BY <1>10, <1>16
  <2>2. \A i, j \in 1 .. n : i < j => f[i] < f[j]
    BY <1>11
  <2>3. ASSUME NEW i \in 1 .. n
        PROVE  /\ q[f[i]].id = p[i].id /\ q[f[i]].tasks = p[i].tasks
               /\ i <= m => f[i] = i
    <3>1. f[i] = Shifted(i, k)
      OBVIOUS
    <3>2. i <= m => i <= a
      BY <1>1
    <3> QED
      BY <1>10, <1>12, <1>16, <3>1, <3>2
  <2> HIDE DEF f
  <2> QED
    BY <2>1, <2>2, <2>3
<1> QED
  BY <1>17, <1>18, <1>19 DEF Grown

----------------------------------------------------------------------------
(* A proposal for new work is compiled into a plan. *)

\* A plan that stays as it is has grown by no task.
LEMMA GrownByNothing ==
    ASSUME NEW v, NEW tasks, NEW p, WellFormed(p, v, tasks),
           NEW m \in 1 .. Len(p)
    PROVE  Grown(p, p, m, {}, v, tasks)
<1> DEFINE f == [i \in 1 .. Len(p) |-> i]
<1>1. f \in [1 .. Len(p) -> 1 .. Len(p)] /\ \A i \in 1 .. Len(p) : f[i] = i
  OBVIOUS
<1> HIDE DEF f
<1>2. \A i, j \in 1 .. Len(p) : i < j => f[i] < f[j]
  BY <1>1
<1>3. \A i \in 1 .. Len(p) : /\ p[f[i]].id = p[i].id
                             /\ p[i].tasks \subseteq p[f[i]].tasks
                             /\ i <= m => f[i] = i /\ p[i].tasks = p[i].tasks
  BY <1>1
<1> QED
  BY <1>1, <1>2, <1>3 DEF Grown

\* Two changes behind the same place make one.
LEMMA GrownTwice ==
    ASSUME NEW v, NEW tasks, NEW p, NEW q, NEW r, NEW S, NEW T,
           p \in Seq(BatchOf(v, tasks)), WellFormed(r, v, tasks),
           NEW m \in 1 .. Len(p), Grown(p, q, m, S, v, tasks),
           Grown(q, r, m, T, v, tasks)
    PROVE  Grown(p, r, m, S \cup T, v, tasks)
<1>1. PICK f \in [1 .. Len(p) -> 1 .. Len(q)] :
         /\ \A i, j \in 1 .. Len(p) : i < j => f[i] < f[j]
         /\ \A i \in 1 .. Len(p) :
               /\ q[f[i]].id = p[i].id
               /\ p[i].tasks \subseteq q[f[i]].tasks
               /\ i <= m => f[i] = i /\ q[i].tasks = p[i].tasks
  BY DEF Grown
<1>2. PICK g \in [1 .. Len(q) -> 1 .. Len(r)] :
         /\ \A i, j \in 1 .. Len(q) : i < j => g[i] < g[j]
         /\ \A i \in 1 .. Len(q) :
               /\ r[g[i]].id = q[i].id
               /\ q[i].tasks \subseteq r[g[i]].tasks
               /\ i <= m => g[i] = i /\ r[i].tasks = q[i].tasks
  BY DEF Grown
<1>3. m \in 1 .. Len(q) /\ m <= m
  BY <1>1
<1> DEFINE h == [i \in 1 .. Len(p) |-> g[f[i]]]
<1>4. \A i \in 1 .. Len(p) : f[i] \in 1 .. Len(q) /\ h[i] = g[f[i]]
  BY <1>1
<1>5. h \in [1 .. Len(p) -> 1 .. Len(r)]
  BY <1>2, <1>4
<1> HIDE DEF h
<1>6. \A i, j \in 1 .. Len(p) : i < j => h[i] < h[j]
  BY <1>1, <1>2, <1>4
<1>7. ASSUME NEW i \in 1 .. Len(p)
      PROVE  /\ r[h[i]].id = p[i].id
             /\ p[i].tasks \subseteq r[h[i]].tasks
             /\ i <= m => h[i] = i /\ r[i].tasks = p[i].tasks
  <2>1. r[h[i]].id = q[f[i]].id /\ q[f[i]].tasks \subseteq r[h[i]].tasks
    BY <1>2, <1>4
  <2>2. q[f[i]].id = p[i].id /\ p[i].tasks \subseteq q[f[i]].tasks
    BY <1>1
  <2>3. ASSUME i <= m PROVE h[i] = i /\ r[i].tasks = p[i].tasks
    <3>1. f[i] = i /\ q[i].tasks = p[i].tasks /\ i \in 1 .. Len(q)
      BY <1>1, <1>4, <2>3
    <3>2. g[i] = i /\ r[i].tasks = q[i].tasks
      BY <1>2, <2>3, <3>1
    <3> QED
      BY <1>4, <3>1, <3>2
  <2> QED
    BY <2>1, <2>2, <2>3
<1>8. ASSUME NEW t \in S \cup T PROVE \E j \in 1 .. Len(r) : m < j /\ t \in r[j].tasks
  <2>1. CASE t \in T
    BY <2>1 DEF Grown
  <2>2. CASE t \in S
    <3>1. PICK j \in 1 .. Len(q) : m < j /\ t \in q[j].tasks
      BY <2>2 DEF Grown
    <3>2. g[m] = m /\ g[m] < g[j] /\ g[j] \in 1 .. Len(r) /\ t \in r[g[j]].tasks
      BY <1>2, <1>3, <3>1
    <3> QED
      BY <3>2
  <2> QED
    BY <2>1, <2>2
<1>9. \E e \in [1 .. Len(p) -> 1 .. Len(r)] :
         /\ \A i, j \in 1 .. Len(p) : i < j => e[i] < e[j]
         /\ \A i \in 1 .. Len(p) :
               /\ r[e[i]].id = p[i].id
               /\ p[i].tasks \subseteq r[e[i]].tasks
               /\ i <= m => e[i] = i /\ r[i].tasks = p[i].tasks
  BY <1>5, <1>6, <1>7
<1> QED
  BY <1>8, <1>9 DEF Grown

\* The batches up to m are where they were.
LEMMA GrownKeepsPrefix ==
    ASSUME NEW v, NEW tasks, NEW p, NEW q, NEW m, NEW new,
           Grown(p, q, m, new, v, tasks),
           NEW i \in 1 .. Len(p), i <= m
    PROVE  i \in 1 .. Len(q) /\ q[i].id = p[i].id /\ q[i].tasks = p[i].tasks
  BY DEF Grown

\* _attach_cluster_to_existing_batch.
LEMMA AttachGrows ==
    ASSUME NEW v, NEW tasks, NEW p, WellFormed(p, v, tasks),
           NEW m \in 1 .. Len(p), NEW new \in SUBSET tasks,
           NEW q, q = AttachAfter(p, p[m].id, new), q # Refused
    PROVE  Grown(p, q, m, new, v, tasks)
<1> DEFINE n == Len(p)
<1>1. p \in Seq(BatchOf(v, tasks)) /\ n \in Nat /\ m + 1 \in Nat
  BY DEF WellFormed
<1>2. m + 1 \in 1 .. n /\ q = [p EXCEPT ![m + 1].tasks = @ \cup new]
  <2>1. q = IF m + 1 > n THEN Refused ELSE [p EXCEPT ![m + 1].tasks = @ \cup new]
    BY PositionIsPlace DEF AttachAfter
  <2> QED
    BY <1>1, <2>1
<1> DEFINE b == [p[m + 1] EXCEPT !.tasks = @ \cup new]
<1>3. /\ b \in BatchOf(v, tasks) /\ b.index = p[m + 1].index /\ b.id = p[m + 1].id
      /\ b.anchor = p[m + 1].anchor /\ b.nr = p[m + 1].nr
      /\ b.tasks = p[m + 1].tasks \cup new
  <2>1. p[m + 1] \in BatchOf(v, tasks)
    BY <1>1, <1>2, BatchFields
  <2> QED
    BY <2>1 DEF BatchOf
<1>4. q = [p EXCEPT ![m + 1] = b]
  BY <1>2
<1> HIDE DEF b
<1>5. q \in Seq(BatchOf(v, tasks)) /\ Len(q) = n
  BY <1>1, <1>2, <1>3, <1>4
<1>6. ASSUME NEW i \in 1 .. n
      PROVE  /\ q[i].index = p[i].index /\ q[i].id = p[i].id
             /\ q[i].anchor = p[i].anchor /\ q[i].nr = p[i].nr
             /\ p[i].tasks \subseteq q[i].tasks
             /\ i # m + 1 => q[i].tasks = p[i].tasks
  <2>1. CASE i = m + 1
    BY <1>1, <1>3, <1>4, <2>1
  <2>2. CASE i # m + 1
    <3>1. q[i] = p[i]
      BY <1>1, <1>4, <2>2
    <3> QED
      BY <3>1
  <2> QED
    BY <2>1, <2>2
<1>7. \A i \in 1 .. n : IsPatch(q[i]) = IsPatch(p[i]) /\ Key(q[i]) = Key(p[i])
  BY <1>6 DEF IsPatch, Key
<1>8. \A i, j \in 1 .. n : Before(q[i], q[j]) <=> Before(p[i], p[j])
  BY <1>6, <1>7 DEF Before
<1>9. WellFormed(q, v, tasks)
  <2>1. \A i \in 1 .. n : /\ p[i].index = i
                          /\ p[i].id = <<v, p[i].anchor, p[i].nr>>
                          /\ IsPatch(p[i]) => p[i].anchor < i
    BY DEF WellFormed
  <2>2. \A i, j \in 1 .. n : i < j => Before(p[i], p[j]) /\ p[i].id # p[j].id
    BY DEF WellFormed
  <2>3. \A i \in 1 .. n : /\ q[i].index = i
                          /\ q[i].id = <<v, q[i].anchor, q[i].nr>>
                          /\ IsPatch(q[i]) => q[i].anchor < i
    BY <1>6, <1>7, <2>1
  <2>4. \A i, j \in 1 .. n : i < j => Before(q[i], q[j]) /\ q[i].id # q[j].id
    BY <1>6, <1>8, <2>2
  <2> QED
    BY <1>5, <2>3, <2>4 DEF WellFormed
<1>10. \A t \in new : \E j \in 1 .. Len(q) : m < j /\ t \in q[j].tasks
  <2>1. q[m + 1].tasks = p[m + 1].tasks \cup new
    BY <1>1, <1>2, <1>3, <1>4
  <2>2. m + 1 \in 1 .. Len(q) /\ m < m + 1
    BY <1>2, <1>5
  <2> QED
    BY <2>1, <2>2
<1>11. \E f \in [1 .. n -> 1 .. Len(q)] :
          /\ \A i, j \in 1 .. n : i < j => f[i] < f[j]
          /\ \A i \in 1 .. n : /\ q[f[i]].id = p[i].id
                               /\ p[i].tasks \subseteq q[f[i]].tasks
                               /\ i <= m => f[i] = i /\ q[i].tasks = p[i].tasks
  <2> DEFINE f == [i \in 1 .. n |-> i]
  <2>1. f \in [1 .. n -> 1 .. Len(q)] /\ \A i \in 1 .. n : f[i] = i
    BY <1>5
  <2> HIDE DEF f
  <2>2. \A i, j \in 1 .. n : i < j => f[i] < f[j]
    BY <2>1
  <2>3. \A i \in 1 .. n : i <= m => i # m + 1
    BY <1>1
  <2>4. \A i \in 1 .. n : /\ q[f[i]].id = p[i].id
                          /\ p[i].tasks \subseteq q[f[i]].tasks
                          /\ i <= m => f[i] = i /\ q[i].tasks = p[i].tasks
    BY <1>6, <2>1, <2>3
  <2> QED
    BY <2>1, <2>2, <2>4
<1> QED
  BY <1>9, <1>10, <1>11 DEF Grown

\* _compile_cluster.
LEMMA PlaceGrows ==
    ASSUME NEW v \in Nat, NEW tasks, NEW p, WellFormed(p, v, tasks),
           NEW m \in 1 .. Len(p), NEW cluster, cluster.tasks \in SUBSET tasks,
           cluster.placement \in Placements,
           NEW q, q = Place(p, cluster, p[m].id), q # Refused
    PROVE  Grown(p, q, m, cluster.tasks, v, tasks)
<1>1. p # Refused
  BY DEF Refused
<1>2. CASE cluster.placement = "before_next_useful_progress"
  <2>1. q = PatchAfter(p, p[m].id, cluster.tasks)
    BY <1>1, <1>2 DEF Place
  <2>2. m \in 1 .. m
    OBVIOUS
  <2> QED
    BY <2>1, <2>2, PatchGrows
<1>3. CASE cluster.placement = "before_first_consumer_batch"
  <2>1. q = AttachAfter(p, p[m].id, cluster.tasks)
    BY <1>1, <1>3 DEF Place
  <2> QED
    BY <2>1, AttachGrows
<1>4. CASE cluster.placement = "after_current_tail"
  <2>1. Last(p) = p[Len(p)]
    BY DEF Last
  <2>2. q = PatchAfter(p, p[Len(p)].id, cluster.tasks)
    BY <1>1, <1>4, <2>1 DEF Place
  <2>3. Len(p) \in 1 .. Len(p) /\ m \in 1 .. Len(p)
    OBVIOUS
  <2> QED
    BY <2>2, <2>3, PatchGrows
<1> QED
  BY <1>2, <1>3, <1>4 DEF Placements

\* A proposal is one cluster or two.
LEMMA CompiledByPlacing ==
    ASSUME NEW p, NEW proposal, NEW id
    PROVE  /\ Len(proposal) = 1 => Compiled(p, proposal, id) = Place(p, proposal[1], id)
           /\ Len(proposal) = 2 =>
                 Compiled(p, proposal, id)
                 = Place(Place(p, proposal[1], id), proposal[2], id)
<1> DEFINE Placed(f) == f = [n \in 0 .. Len(proposal) |->
                               IF n = 0 THEN p ELSE Place(f[n - 1], proposal[n], id)]
           one == Place(p, proposal[1], id)
           two == Place(one, proposal[2], id)
           g   == [n \in 0 .. Len(proposal) |->
                     IF n = 0 THEN p ELSE IF n = 1 THEN one ELSE two]
           placed == CHOOSE f : Placed(f)
<1>1. Compiled(p, proposal, id) = placed[Len(proposal)]
  BY DEF Compiled
<1>2. ASSUME Len(proposal) \in {1, 2} PROVE Placed(placed)
  <2>1. \A n \in 0 .. Len(proposal) : n = 0 \/ n = 1 \/ n = 2
    <3>1. CASE Len(proposal) = 1
      BY <3>1
    <3>2. CASE Len(proposal) = 2
      BY <3>2
    <3> QED
      BY <1>2, <3>1, <3>2
  <2>2. ASSUME NEW n \in 0 .. Len(proposal)
        PROVE  g[n] = IF n = 0 THEN p ELSE Place(g[n - 1], proposal[n], id)
    <3>1. CASE n = 0
      BY <3>1
    <3>2. CASE n = 1
      <4>1. g[n - 1] = p /\ g[n] = one
        BY <1>2, <3>2
      <4> QED
        BY <3>2, <4>1
    <3>3. CASE n = 2
      <4>1. g[n - 1] = one /\ g[n] = two
        BY <1>2, <3>3
      <4> QED
        BY <3>3, <4>1
    <3> QED
      BY <2>1, <3>1, <3>2, <3>3
  <2>3. Placed(g)
    <3>1. g = [n \in 0 .. Len(proposal) |-> g[n]]
      OBVIOUS
    <3> HIDE DEF g
    <3> QED
      BY <2>2, <3>1
  <2> HIDE DEF g, Placed
  <2> QED
    BY <2>3
<1>3. ASSUME Len(proposal) \in {1, 2}
      PROVE  /\ placed[0] = p /\ placed[1] = Place(p, proposal[1], id)
             /\ Len(proposal) = 2 => placed[2] = Place(placed[1], proposal[2], id)
  <2>1. placed = [n \in 0 .. Len(proposal) |->
                    IF n = 0 THEN p ELSE Place(placed[n - 1], proposal[n], id)]
    <3> HIDE DEF placed
    <3> QED
      BY <1>2, <1>3
  <2> HIDE DEF placed
  <2>2. placed[0] = p
    BY <1>3, <2>1
  <2>3. placed[1] = Place(placed[0], proposal[1], id)
    BY <1>3, <2>1
  <2>4. Len(proposal) = 2 => placed[2] = Place(placed[1], proposal[2], id)
    BY <2>1
  <2> QED
    BY <2>2, <2>3, <2>4
<1> HIDE DEF placed
<1> QED
  BY <1>1, <1>3

\* compile_recovery_assignment_plan.
LEMMA CompiledGrows ==
    ASSUME NEW v \in Nat, NEW tasks, NEW p, WellFormed(p, v, tasks),
           NEW m \in 1 .. Len(p), NEW new \in SUBSET tasks,
           NEW proposal \in Proposals(new),
           NEW q, q = Compiled(p, proposal, p[m].id), q # Refused
    PROVE  Grown(p, q, m, new, v, tasks)
<1>0. p \in Seq(BatchOf(v, tasks))
  BY DEF WellFormed
<1>1. \/ \E c \in Placements : proposal = <<[tasks |-> new, placement |-> c]>>
      \/ \E S \in SUBSET new : \E c, d \in Placements :
            proposal = <<[tasks |-> S, placement |-> c], [tasks |-> new \ S, placement |-> d]>>
  BY DEF Proposals
<1>2. CASE \E c \in Placements : proposal = <<[tasks |-> new, placement |-> c]>>
  <2>1. PICK c \in Placements : proposal = <<[tasks |-> new, placement |-> c]>>
    BY <1>2
  <2> DEFINE cluster == proposal[1]
  <2>2. Len(proposal) = 1 /\ cluster.tasks = new /\ cluster.placement \in Placements
    BY <2>1
  <2>3. q = Place(p, cluster, p[m].id)
    BY <2>2, CompiledByPlacing
  <2> HIDE DEF cluster
  <2> QED
    BY <2>2, <2>3, PlaceGrows
<1>3. CASE \E S \in SUBSET new : \E c, d \in Placements :
             proposal = <<[tasks |-> S, placement |-> c], [tasks |-> new \ S, placement |-> d]>>
  <2>1. PICK S \in SUBSET new : \E c, d \in Placements :
           proposal = <<[tasks |-> S, placement |-> c], [tasks |-> new \ S, placement |-> d]>>
    BY <1>3
  <2>2. PICK c \in Placements, d \in Placements :
           proposal = <<[tasks |-> S, placement |-> c], [tasks |-> new \ S, placement |-> d]>>
    BY <2>1
  <2> DEFINE one == proposal[1]
             two == proposal[2]
             r   == Place(p, one, p[m].id)
  <2>3. /\ Len(proposal) = 2
        /\ one.tasks = S /\ one.placement \in Placements
        /\ two.tasks = new \ S /\ two.placement \in Placements
    BY <2>2
  <2>4. q = Place(r, two, p[m].id)
    BY <2>3, CompiledByPlacing
  <2> HIDE DEF one, two, r
  <2>5. r # Refused
    <3>1. r = Refused => Place(r, two, p[m].id) = Refused
      BY DEF Place
    <3> QED
      BY <2>4, <3>1
  <2>6. Grown(p, r, m, S, v, tasks)
    BY <2>3, <2>5, PlaceGrows DEF r
  <2>7. m \in 1 .. Len(r) /\ r[m].id = p[m].id
    <3>1. m <= m
      OBVIOUS
    <3> QED
      BY <2>6, <3>1, GrownKeepsPrefix
  <2>8. WellFormed(r, v, tasks)
    BY <2>6 DEF Grown
  <2>9. q = Place(r, two, r[m].id) /\ two.tasks \in SUBSET tasks
    BY <2>3, <2>4, <2>7
  <2>10. Grown(r, q, m, two.tasks, v, tasks)
    BY <2>3, <2>7, <2>8, <2>9, PlaceGrows
  <2>11. WellFormed(q, v, tasks)
    BY <2>10 DEF Grown
  <2>12. Grown(p, q, m, S \cup two.tasks, v, tasks)
    BY <1>0, <2>6, <2>10, <2>11, GrownTwice
  <2>13. S \cup two.tasks = new
    BY <2>3
  <2> QED
    BY <2>12, <2>13
<1> QED
  BY <1>1, <1>2, <1>3

\* The sequencer's plan.
LEMMA NewPlanIsWellFormed ==
    ASSUME NEW v \in Nat, NEW tasks, NEW n \in Nat,
           NEW sets \in [1 .. n -> SUBSET tasks]
    PROVE  /\ WellFormed(NewPlan(v, sets), v, tasks)
           /\ Len(NewPlan(v, sets)) = n
           /\ \A i \in 1 .. n : NewPlan(v, sets)[i].tasks = sets[i]
<1> DEFINE p == NewPlan(v, sets)
<1>1. Len(sets) = n
  OBVIOUS
<1>2. ASSUME NEW i \in 1 .. n
      PROVE  /\ p[i] = [id |-> <<v, i, 0>>, index |-> i, anchor |-> i, nr |-> 0,
                        tasks |-> sets[i]]
             /\ p[i] \in BatchOf(v, tasks)
  BY <1>1 DEF NewPlan, Batch, BatchOf
<1>3. p = [i \in 1 .. n |-> p[i]]
  BY <1>1 DEF NewPlan
<1> HIDE DEF p
<1>4. p \in Seq(BatchOf(v, tasks)) /\ Len(p) = n
  BY <1>2, <1>3
<1>5. \A i \in 1 .. n : /\ p[i].index = i /\ p[i].id = <<v, i, 0>>
                        /\ p[i].anchor = i /\ p[i].nr = 0 /\ p[i].tasks = sets[i]
  <2>1. TAKE i \in 1 .. n
  <2>2. p[i] = [id |-> <<v, i, 0>>, index |-> i, anchor |-> i, nr |-> 0,
                tasks |-> sets[i]]
    BY <1>2
  <2> QED
    BY <2>2
<1>6. \A i \in 1 .. n : ~IsPatch(p[i]) /\ Key(p[i]) = i
  BY <1>5 DEF IsPatch, Key
<1>7. \A i, j \in 1 .. n : i < j => Before(p[i], p[j]) /\ p[i].id # p[j].id
  BY <1>5, <1>6 DEF Before
<1>8. WellFormed(p, v, tasks)
  BY <1>4, <1>5, <1>6, <1>7 DEF WellFormed
<1> QED
  BY <1>4, <1>5, <1>8 DEF p

----------------------------------------------------------------------------
(* Plans of the stage. *)

\* The tasks that have a row.
Live == Tasks \ With("absent")

\* Rows that are added leave a plan well formed.
LEMMA WellFormedForMore ==
    ASSUME NEW v, NEW S, NEW T, NEW p, WellFormed(p, v, S), S \subseteq T
    PROVE  WellFormed(p, v, T)
<1>1. BatchOf(v, S) \subseteq BatchOf(v, T)
  BY DEF BatchOf
<1>2. p \in Seq(BatchOf(v, S)) => p \in Seq(BatchOf(v, T))
  <2>1. SUFFICES ASSUME p \in Seq(BatchOf(v, S))
                 PROVE  p \in Seq(BatchOf(v, T))
    OBVIOUS
  <2>2. p \in [1 .. Len(p) -> BatchOf(v, S)] /\ Len(p) \in Nat
    BY <2>1
  <2> HIDE DEF BatchOf
  <2>3. p \in [1 .. Len(p) -> BatchOf(v, T)]
    BY <1>1, <2>2
  <2> QED
    BY <2>2, <2>3
<1> QED
  BY <1>2 DEF WellFormed

\* So is the empty sequence, which stands for no plan.
LEMMA NoPlanIsWellFormed ==
    ASSUME NEW v, NEW S
    PROVE  WellFormed(<<>>, v, S)
  BY DEF WellFormed

\* What the plan of a reachable state is.
LEMMA PlanFacts ==
    ASSUME TypeOK, PlanOK
    PROVE  /\ version \in Nat /\ Len(plan) \in Nat
           /\ plan \in Seq(BatchOf(version, Live))
           /\ \A i \in 1 .. Len(plan) :
                 /\ plan[i] \in BatchOf(version, Live)
                 /\ plan[i].tasks \subseteq Live
                 /\ plan[i].id \in Nat \X Nat \X Nat /\ plan[i].id[1] = version
           /\ \A i, j \in 1 .. Len(plan) : plan[i].id = plan[j].id => i = j
<1>1. WellFormed(plan, version, Live) /\ version \in Nat
  BY DEF PlanOK, TypeOK, Live
<1>2. plan \in Seq(BatchOf(version, Live)) /\ Len(plan) \in Nat
  BY <1>1 DEF WellFormed
<1>3. ASSUME NEW i \in 1 .. Len(plan)
      PROVE  /\ plan[i] \in BatchOf(version, Live)
             /\ plan[i].tasks \subseteq Live
             /\ plan[i].id \in Nat \X Nat \X Nat /\ plan[i].id[1] = version
  <2>1. /\ plan[i] \in BatchOf(version, Live) /\ plan[i].tasks \in SUBSET Live
        /\ plan[i].anchor \in Nat /\ plan[i].nr \in Nat
    BY <1>2, BatchFields
  <2>2. plan[i].id = <<version, plan[i].anchor, plan[i].nr>>
    BY <1>1 DEF WellFormed
  <2> QED
    BY <1>1, <2>1, <2>2
<1>4. ASSUME NEW i \in 1 .. Len(plan), NEW j \in 1 .. Len(plan), plan[i].id = plan[j].id
      PROVE  i = j
  <2>1. ~(i < j) /\ ~(j < i)
    BY <1>1, <1>4 DEF WellFormed
  <2> QED
    BY <1>2, <2>1
<1> QED
  BY <1>1, <1>2, <1>3, <1>4

----------------------------------------------------------------------------
(* The evaluation of a batch. *)

\* The five ways an evaluation ends.  An exception leaves the plan as it is.
Fails == /\ pc' = "done" /\ outcome' # "closed"
         /\ UNCHANGED <<plan, pos, processed, created>>

\* A review ends the workflow.
Ends == /\ pc' = "done" /\ outcome' = "review" /\ UNCHANGED <<plan, pos>>

\* The stage is closed after its last batch, with every pending task planned.
Closing == /\ pc' = "done" /\ outcome' = "closed" /\ UNCHANGED <<plan, pos>>
           /\ With("pending") \subseteq Planned(plan) /\ IsFinal /\ created = {}

\* A replan discards the plan.
Discards == plan' = <<>> /\ pos' = 1 /\ pc' = "iterate" /\ UNCHANGED outcome

\* Otherwise the plan has grown behind the batch by the tasks created now.
Grows == /\ Grown(plan, plan', pos, created, version, Live)
         /\ UNCHANGED outcome
         /\ \/ pc' = "take" /\ pos' = pos + 1
            \/ pc' = "iterate" /\ pos' = pos

\* The batch counts as processed unless an exception was raised.
Judged == /\ processed' = processed \cup {Current.id} /\ created' = {}
          /\ Ends \/ Closing \/ Discards \/ Grows

\* An exception leaves the plan, the position and the iteration.
LEMMA FailFails ==
    ASSUME NEW how, how # "closed", Fail(how)
    PROVE  Fails /\ UNCHANGED iteration
  BY DEF Fail, Fails, End

\* What the resolution of the table promises of an intent.
LEMMA Resolved ==
    ASSUME NEW s, NEW new \in BOOLEAN, NEW old, NEW final \in BOOLEAN
    PROVE  /\ Resolve(s, new, old, final).type \in
                 {"manual_review", "close", "replan", "assign", "continue", "resequence"}
           /\ Resolve(s, new, old, final).type = "close" => final /\ ~new
           /\ Resolve(s, new, old, final).type = "continue" => ~new
<1> DEFINE i == Resolve(s, new, old, final)
<1>1. \/ i = ManualReview \/ i = Replan \/ i = Intent("resequence", FALSE, TRUE)
      \/ i = Intent("assign", TRUE, final)
      \/ i = Intent("close", FALSE, FALSE) /\ Closes(s, new, final)
      \/ i = Intent("continue", TRUE, FALSE) /\ Continues(s, new)
  BY Zenon DEF Resolve
<1> HIDE DEF i
<1>2. i \in {ManualReview, Replan, Intent("resequence", FALSE, TRUE), Intent("assign", TRUE, final)}
      => i.type \in {"manual_review", "replan", "resequence", "assign"}
  BY DEF ManualReview, Replan, Intent
<1>3. i = Intent("close", FALSE, FALSE) => i.type = "close"
  BY DEF Intent
<1>4. i = Intent("continue", TRUE, FALSE) => i.type = "continue"
  BY DEF Intent
<1>5. Closes(s, new, final) => final /\ ~new
  BY DEF Closes
<1>6. Continues(s, new) => ~new
  BY DEF Continues
<1>7. CASE i \in {ManualReview, Replan, Intent("resequence", FALSE, TRUE),
                Intent("assign", TRUE, final)}
  BY <1>2, <1>7 DEF i
<1>8. CASE i = Intent("close", FALSE, FALSE) /\ Closes(s, new, final)
  BY <1>3, <1>5, <1>8 DEF i
<1>9. CASE i = Intent("continue", TRUE, FALSE) /\ Continues(s, new)
  BY <1>4, <1>6, <1>9 DEF i
<1> QED
  BY <1>1, <1>7, <1>8, <1>9

\* A result is what was intended, or a review when the limit of the
\* finalization guard is reached.
LEMMA ResultFollowsIntent ==
    ASSUME NEW intent, NEW final, NEW count, NEW max
    PROVE  Result(intent, final, count, max).type \in {intent.type, "manual_review"}
  BY DEF Result

\* An intent whose plan was refused or has grown behind the batch concludes in
\* one of the five ways.
LEMMA Concluded ==
    ASSUME NEW s, NEW intent, NEW new, Conclude(s, intent, new),
           intent.type \in {"manual_review", "close", "replan", "assign", "continue",
                            "resequence"},
           intent.type \in {"assign", "continue", "resequence"} /\ new # Refused =>
              Grown(plan, new, pos, created, version, Live),
           intent.type = "close" => new = plan /\ IsFinal /\ created = {}
    PROVE  Fails \/ Judged
<1> DEFINE r == Result(intent, IsFinal, finalizations, MaxFinalizations)
<1>1. r.type \in {intent.type, "manual_review"}
  BY ResultFollowsIntent
<1>2. CASE new = Refused
  <2>1. Fail("refused_plan")
    BY <1>2 DEF Conclude
  <2> QED
    BY <2>1, FailFails
<1>3. CASE new # Refused /\ r.type = "close" /\ Unassigned(new) # {}
  <2>1. Fail("unassigned")
    BY <1>3 DEF Conclude
  <2> QED
    BY <2>1, FailFails
<1>4. CASE new # Refused /\ ~(r.type = "close" /\ Unassigned(new) # {})
  <2>1. IF Rejects(s, r, new # plan) THEN Fail("refused_result") ELSE Proceed(r, new)
    BY <1>4 DEF Conclude
  <2>2. CASE Fail("refused_result")
    BY <2>2, FailFails
  <2>3. CASE Proceed(r, new)
    <3> HIDE DEF r
    <3>1. processed' = processed \cup {Current.id} /\ created' = {}
      BY <2>3 DEF Proceed
    <3>2. CASE r.type = "manual_review"
      <4>1. End("review") /\ UNCHANGED <<plan, pos>>
        BY <2>3, <3>2 DEF Proceed
      <4> QED
        BY <3>1, <4>1 DEF Judged, Ends, End
    <3>3. CASE r.type = "close"
      <4>1. End("closed") /\ UNCHANGED <<plan, pos>>
        BY <2>3, <3>3 DEF Proceed
      <4>2. new = plan /\ IsFinal /\ created = {}
        BY <1>1, <3>3
      <4>3. With("pending") \subseteq Planned(plan)
        BY <1>4, <3>3, <4>2 DEF Unassigned
      <4> QED
        BY <3>1, <4>1, <4>2, <4>3 DEF Judged, Closing, End
    <3>4. CASE r.type = "replan"
      BY <2>3, <3>1, <3>4 DEF Proceed, Judged, Discards
    <3>5. CASE r.type \in {"assign", "continue"}
      <4>1. plan' = new /\ pos' = pos + 1 /\ pc' = "take" /\ UNCHANGED outcome
        BY <2>3, <3>5 DEF Proceed
      <4>2. Grown(plan, new, pos, created, version, Live)
        BY <1>1, <1>4, <3>5
      <4> QED
        BY <3>1, <4>1, <4>2 DEF Judged, Grows
    <3>6. CASE r.type = "resequence"
      <4>1. plan' = new /\ pos' = pos /\ pc' = "iterate" /\ UNCHANGED outcome
        BY <2>3, <3>6 DEF Proceed
      <4>2. Grown(plan, new, pos, created, version, Live)
        BY <1>1, <1>4, <3>6
      <4> QED
        BY <3>1, <4>1, <4>2 DEF Judged, Grows
    <3> QED
      BY <1>1, <3>2, <3>3, <3>4, <3>5, <3>6
  <2> QED
    BY <2>1, <2>2, <2>3
<1> QED
  BY <1>2, <1>3, <1>4

\* The evaluation of a batch ends in one of the five ways, whatever the models
\* answer.
LEMMA Evaluated ==
    ASSUME StageInv, Evaluate
    PROVE  /\ pc = "judge" /\ todo = {}
           /\ UNCHANGED <<status, version, completed, todo, leftOut>>
           /\ Fails \/ Judged
<1>1. /\ pc = "judge" /\ todo = {}
      /\ UNCHANGED <<status, version, completed, todo, leftOut>>
  BY DEF Evaluate
<1>2. /\ pos \in 1 .. Len(plan) /\ created \in SUBSET Live /\ version \in Nat
      /\ WellFormed(plan, version, Live) /\ plan # Refused
  <2>1. pos \in Nat \ {0} /\ pos <= Len(plan) /\ Len(plan) \in Nat /\ version \in Nat
    BY <1>1, PlanFacts DEF StageInv, TypeOK, PositionOK
  <2>2. created \subseteq Tasks /\ created \cap With("absent") = {}
    BY DEF StageInv, TypeOK, BatchOK
  <2>3. WellFormed(plan, version, Live)
    BY DEF StageInv, PlanOK, Live
  <2> QED
    BY <2>1, <2>2, <2>3 DEF Live, Refused
<1>3. CASE EvaluationFails
  BY <1>1, <1>3, FailFails DEF EvaluationFails
<1>4. ASSUME NEW v \in Verdicts, Mutate(v, v.intent) PROVE Fails \/ Judged
  <2>1. PICK s \in Evaluations :
           v.intent = Resolve(s, created # {}, OtherWork, IsFinal)
    BY DEF Verdicts
  <2>2. /\ v.intent.type \in {"manual_review", "close", "replan", "assign", "continue",
                              "resequence"}
        /\ v.intent.type = "close" => IsFinal /\ created = {}
        /\ v.intent.type = "continue" => created = {}
    BY <2>1, Resolved DEF IsFinal
  <2>3. created = {} => Grown(plan, plan, pos, created, version, Live)
    BY <1>2, GrownByNothing
  <2>4. CASE v.intent.type = "assign"
    <3>1. Assign(v, v.intent)
      BY <1>4, <2>4 DEF Mutate
    <3>2. CASE Unaskable \/ AssignmentFails
      BY <3>2, FailFails DEF Unaskable, AssignmentFails
    <3>3. CASE Escalated(v)
      <4>1. Conclude(v, Replan, plan) /\ Replan.type = "replan"
        BY <3>3 DEF Escalated, Replan, Intent
      <4> QED
        BY <4>1, Concluded
    <3>4. ASSUME NEW proposal \in Proposals(created),
                 IF Unplaceable(proposal) THEN Fail("unplaceable")
                 ELSE Conclude(v, v.intent, Compiled(plan, proposal, Current.id))
          PROVE  Fails \/ Judged
      <4>1. CASE Fail("unplaceable")
        BY <4>1, FailFails
      <4>2. CASE Conclude(v, v.intent, Compiled(plan, proposal, Current.id))
        <5> DEFINE q == Compiled(plan, proposal, Current.id)
        <5>1. q # Refused => Grown(plan, q, pos, created, version, Live)
          BY <1>2, CompiledGrows DEF Current
        <5> HIDE DEF q
        <5>2. Conclude(v, v.intent, q)
          BY <4>2 DEF q
        <5> QED
          BY <2>2, <2>4, <5>1, <5>2, Concluded
      <4> QED
        BY <3>4, <4>1, <4>2
    <3> QED
      BY <3>1, <3>2, <3>3, <3>4 DEF Assign
  <2>5. CASE v.intent.type = "resequence"
    <3> DEFINE q == IF created = {} THEN plan ELSE PatchAfter(plan, Current.id, created)
    <3>1. Conclude(v, v.intent, q)
      BY <1>4, <2>5 DEF Mutate, Resequence
    <3>2. q # Refused => Grown(plan, q, pos, created, version, Live)
      <4>1. CASE created = {}
        BY <2>3, <4>1
      <4>2. CASE created # {}
        <5>1. pos \in 1 .. pos /\ q = PatchAfter(plan, plan[pos].id, created)
          BY <1>2, <4>2 DEF Current
        <5> QED
          BY <1>2, <5>1, PatchGrows
      <4> QED
        BY <4>1, <4>2
    <3> HIDE DEF q
    <3> QED
      BY <2>2, <2>5, <3>1, <3>2, Concluded
  <2>6. CASE v.intent.type \notin {"assign", "resequence"}
    <3>1. Conclude(v, v.intent, plan)
      BY <1>4, <2>6 DEF Mutate
    <3> QED
      BY <2>2, <2>3, <2>6, <3>1, Concluded
  <2> QED
    BY <2>4, <2>5, <2>6
<1> QED
  BY <1>1, <1>3, <1>4 DEF Evaluate

----------------------------------------------------------------------------
(* The invariant. *)

\* A project that enters its execution has the invariant.
LEMMA StageInvInit == Init => StageInv
<1> SUFFICES ASSUME Init PROVE StageInv
  OBVIOUS
<1>0. /\ MaxTasks \in Nat \ {0} /\ Original \in Nat \ {0} /\ Original <= MaxTasks
  BY StageAssumption
<1>1. TypeOK
  BY DEF Init, TypeOK, Statuses, Tasks
<1>2. RowsInOrder
  <2>1. With("absent") = Original + 1 .. MaxTasks
    BY <1>0 DEF Init, With, Tasks
  <2> QED
    BY <1>0, <2>1 DEF RowsInOrder
<1>3. PlanOK
  <2>1. plan = <<>> /\ Done = {}
    BY DEF Init, Done
  <2>2. WellFormed(plan, version, Tasks \ With("absent"))
    BY <2>1, NoPlanIsWellFormed
  <2>3. Len(plan) = 0
    BY <2>1
  <2> QED
    BY <2>1, <2>2, <2>3 DEF PlanOK
<1>4. PositionOK /\ WorkIsCovered /\ WorkAhead /\ ClosedIsComplete
  BY DEF Init, PositionOK, WorkIsCovered, WorkAhead, ClosedIsComplete
<1>5. BatchOK
  BY DEF Init, BatchOK
<1> QED
  BY <1>1, <1>2, <1>3, <1>4, <1>5 DEF StageInv, Init

\* A plan that does not change is kept, unless its tasks become pending again.
LEMMA PlanKept ==
    ASSUME PlanOK, WorkAhead, UNCHANGED <<plan, version>>, Done' = Done,
           With("absent")' \subseteq With("absent"),
           With("pending")' \subseteq With("pending") \cup With("absent")
    PROVE  PlanOK' /\ WorkAhead'
<1>1. WellFormed(plan, version, Live) /\ Live \subseteq Tasks \ With("absent")'
  BY DEF PlanOK, Live
<1>2. WellFormed(plan, version, Tasks \ With("absent")')
  BY <1>1, WellFormedForMore
<1>3. ASSUME NEW i \in 1 .. Len(plan), plan[i].id \in Done
      PROVE  plan[i].tasks \cap With("pending")' = {}
  <2>1. plan[i].tasks \cap With("pending") = {}
    BY <1>3 DEF PlanOK, IsDone
  <2>2. plan[i].tasks \in SUBSET Live
    <3>1. plan \in Seq(BatchOf(version, Live))
      BY <1>1 DEF WellFormed
    <3> QED
      BY <3>1, BatchFields
  <2> QED
    BY <2>1, <2>2 DEF Live
<1>4. PlanOK'
  BY <1>2, <1>3 DEF PlanOK, IsDone, BatchIds
<1>5. WorkAhead'
  BY DEF WorkAhead
<1> QED
  BY <1>4, <1>5

\* The workflow stops and leaves everything as it is.
LEMMA EndKeeps ==
    ASSUME StageInv, pc' = "done", outcome' # "closed",
           UNCHANGED <<status, plan, version, pos, completed, processed, created, leftOut>>,
           iteration' \in Nat, todo' \subseteq todo \/ UNCHANGED todo
    PROVE  StageInv'
<1>1. TypeOK'
  BY DEF StageInv, TypeOK
<1>2. RowsInOrder'
  BY DEF StageInv, RowsInOrder, With
<1>3. PlanOK' /\ WorkAhead'
  BY PlanKept DEF StageInv, With, Done
<1>4. PositionOK' /\ WorkIsCovered' /\ ClosedIsComplete'
  BY DEF PositionOK, WorkIsCovered, ClosedIsComplete
<1>5. BatchOK'
  BY DEF StageInv, BatchOK, With
<1> QED
  BY <1>1, <1>2, <1>3, <1>4, <1>5 DEF StageInv

\* The sequencer makes a plan of a new version, none of it done.
LEMMA SequenceStep ==
    ASSUME StageInv, Sequence
    PROVE  StageInv'
<1>1. CASE SequencingFails
  <2>1. pc' = "done" /\ outcome' # "closed"
    BY <1>1 DEF SequencingFails, End
  <2> QED
    BY <1>1, <2>1, EndKeeps DEF Sequence, SequencingFails, StageInv, TypeOK
<1>2. ASSUME NEW sets \in SequencerAnswers,
             /\ plan' = NewPlan(version + 1, sets)
             /\ version' = version + 1 /\ pos' = 1 /\ processed' = {}
             /\ leftOut' = Candidates \ Planned(plan')
             /\ pc' = "take" /\ UNCHANGED outcome
      PROVE  StageInv'
  <2>1. /\ UNCHANGED <<status, completed, todo, created, iteration>> /\ pc = "sequence"
        /\ version \in Nat /\ version + 1 \in Nat /\ outcome = "none" /\ created = {}
        /\ MaxBatches \in Nat
    BY StageAssumption DEF Sequence, StageInv, TypeOK, BatchOK
  <2>2. PICK n \in 1 .. MaxBatches : sets \in [1 .. n -> SUBSET Candidates \ {{}}]
    BY DEF SequencerAnswers
  <2>3. n \in Nat /\ sets \in [1 .. n -> SUBSET Candidates]
    BY <2>1, <2>2
  <2>4. /\ WellFormed(plan', version + 1, Candidates) /\ Len(plan') = n
        /\ \A i \in 1 .. n : plan'[i].tasks = sets[i]
    BY <1>2, <2>1, <2>3, NewPlanIsWellFormed
  <2>5. With("absent")' = With("absent") /\ With("pending")' = With("pending")
    BY <2>1 DEF With
  <2>6. Candidates = With("pending") /\ Candidates \subseteq Tasks \ With("absent")
    BY DEF Candidates, With
  <2>7. WellFormed(plan', version', (Tasks \ With("absent"))')
    BY <1>2, <2>4, <2>5, <2>6, WellFormedForMore DEF Tasks
  <2>8. \A d \in Done' : d \in Done /\ d[1] <= version /\ d[1] \in Nat
    <3>1. Done' = completed /\ completed \subseteq Done
      BY <1>2, <2>1 DEF Done
    <3>2. \A d \in completed : d[1] \in Nat
      BY DEF StageInv, TypeOK
    <3>3. \A d \in Done : d[1] <= version
      BY DEF StageInv, PlanOK
    <3> HIDE DEF Done
    <3> QED
      BY <3>1, <3>2, <3>3
  <2>9. \A i \in 1 .. n : plan'[i].id[1] = version + 1
    BY <2>4 DEF WellFormed
  <2>10. \A i \in 1 .. n : plan'[i].id \notin Done'
    BY <2>1, <2>8, <2>9
  <2>11. PlanOK' /\ WorkAhead'
    <3>1. \A d \in Done' : /\ d[1] <= version'
                           /\ plan' # <<>> /\ d[1] = version' => d \in BatchIds'
      BY <1>2, <2>1, <2>8
    <3> QED
      BY <2>4, <2>7, <2>10, <3>1 DEF PlanOK, WorkAhead, IsDone
  <2>12. TypeOK'
    BY <1>2, <2>1 DEF StageInv, TypeOK, Candidates, With
  <2>13. RowsInOrder'
    BY <2>5 DEF StageInv, RowsInOrder
  <2>14. PositionOK'
    BY <1>2, <2>4 DEF PositionOK
  <2>15. BatchOK'
    BY <1>2, <2>1, <2>5 DEF StageInv, BatchOK
  <2>16. WorkIsCovered'
    <3>1. ASSUME NEW t \in With("pending"), t \notin leftOut'
          PROVE  \E i \in 1 .. Len(plan') : t \in plan'[i].tasks
      BY <1>2, <2>6, <3>1 DEF Planned
    <3> QED
      BY <2>4, <2>5, <2>10, <3>1 DEF WorkIsCovered, IsDone
  <2>17. ClosedIsComplete' /\ outcome' = "none"
    BY <1>2, <2>1 DEF ClosedIsComplete
  <2> QED
    BY <2>11, <2>12, <2>13, <2>14, <2>15, <2>16, <2>17 DEF StageInv
<1> QED
  BY <1>1, <1>2 DEF Sequence

\* Taking a batch skips the executed ones at the beginning and no other.
LEMMA TakeBatchStep ==
    ASSUME StageInv, TakeBatch
    PROVE  StageInv'
<1>1. /\ pc = "take" /\ outcome = "none" /\ created = {}
      /\ UNCHANGED <<status, plan, version, completed, processed, created, iteration, leftOut>>
      /\ Len(plan) \in Nat /\ pos \in Nat \ {0}
  BY PlanFacts DEF TakeBatch, StageInv, BatchOK, TypeOK
<1>2. With("absent")' = With("absent") /\ With("pending")' = With("pending") /\ Done' = Done
  BY <1>1 DEF With, Done
<1>3. PlanOK' /\ WorkAhead' /\ RowsInOrder'
  BY <1>1, <1>2, PlanKept DEF StageInv, RowsInOrder
<1>4. ASSUME pc' \in {"take", "run", "iterate"} PROVE WorkIsCovered'
  <2>1. \A i : IsDone(i)' <=> IsDone(i)
    BY <1>1, <1>2 DEF IsDone
  <2> QED
    BY <1>1, <1>2, <2>1 DEF StageInv, WorkIsCovered
<1>5. \A i : IsDone(i)' <=> IsDone(i)
  BY <1>1, <1>2 DEF IsDone
<1>6. CASE pos > Len(plan) /\ pc' = "iterate" /\ UNCHANGED <<pos, todo, outcome>>
  <2>1. TypeOK' /\ PositionOK' /\ ClosedIsComplete'
    BY <1>1, <1>6 DEF StageInv, TypeOK, PositionOK, ClosedIsComplete
  <2>2. BatchOK'
    BY <1>1, <1>2, <1>6 DEF StageInv, BatchOK
  <2> QED
    BY <1>1, <1>3, <1>4, <1>6, <2>1, <2>2 DEF StageInv
<1>7. CASE /\ pos <= Len(plan) /\ Current.id \in completed
           /\ pos' = pos + 1 /\ UNCHANGED <<todo, pc, outcome>>
  <2>1. IsDone(pos)
    BY <1>7 DEF IsDone, Current, Done
  <2>2. PositionOK'
    <3>1. ASSUME NEW i \in 1 .. Len(plan), i < pos + 1 PROVE IsDone(i)
      <4>1. i < pos \/ i = pos
        BY <1>1, <3>1
      <4> QED
        BY <1>1, <2>1, <4>1 DEF StageInv, PositionOK
    <3> QED
      BY <1>1, <1>5, <1>7, <3>1 DEF PositionOK
  <2>3. TypeOK' /\ ClosedIsComplete'
    BY <1>1, <1>7 DEF StageInv, TypeOK, ClosedIsComplete
  <2>4. BatchOK'
    BY <1>1, <1>2, <1>7 DEF StageInv, BatchOK
  <2> QED
    BY <1>1, <1>3, <1>4, <1>7, <2>2, <2>3, <2>4 DEF StageInv
<1>8. CASE End("reprocessed") /\ UNCHANGED <<pos, todo>>
  <2>1. pc' = "done" /\ outcome' # "closed"
    BY <1>8 DEF End
  <2> QED
    BY <1>1, <1>8, <2>1, EndKeeps DEF StageInv, TypeOK
<1>9. CASE /\ pos <= Len(plan) /\ Current.id \notin completed \cup processed
           /\ todo' = Current.tasks /\ pc' = "run" /\ UNCHANGED <<pos, outcome>>
  <2>1. pos \in 1 .. Len(plan)
    BY <1>1, <1>9
  <2>2. Current.tasks \subseteq Live
    BY <2>1, PlanFacts DEF StageInv, Current
  <2>3. ~IsDone(pos)
    BY <1>9 DEF IsDone, Current, Done
  <2>4. PositionOK'
    BY <1>1, <1>5, <1>9, <2>3 DEF StageInv, PositionOK
  <2>5. TypeOK'
    BY <1>1, <1>9, <2>2 DEF StageInv, TypeOK, Live
  <2>6. BatchOK'
    <3>1. (todo' \cup created') \cap With("absent")' = {}
      BY <1>1, <1>2, <1>9, <2>2 DEF Live
    <3> QED
      BY <1>1, <1>9, <3>1 DEF BatchOK, Current
  <2>7. ClosedIsComplete'
    BY <1>1, <1>9 DEF ClosedIsComplete
  <2> QED
    BY <1>1, <1>3, <1>4, <1>9, <2>4, <2>5, <2>6, <2>7 DEF StageInv
<1> QED
  BY <1>6, <1>7, <1>8, <1>9 DEF TakeBatch

----------------------------------------------------------------------------
(* Executing a batch and recovering from it. *)

\* While the plan and what is done stay, work is covered if nothing planned
\* becomes pending again and what else does was created now.
LEMMA CoverKept ==
    ASSUME StageInv, UNCHANGED <<plan, leftOut>>, Done' = Done, plan # <<>>,
           pc \in {"take", "run", "judge", "iterate"},
           With("pending")' \ created' \subseteq With("pending") \ created
    PROVE  WorkIsCovered'
<1>1. \A t \in With("pending") \ (leftOut \cup created) :
         \E i \in 1 .. Len(plan) : t \in plan[i].tasks /\ plan[i].id \notin Done
  BY DEF StageInv, WorkIsCovered, IsDone
<1>2. With("pending")' \ (leftOut' \cup created') \subseteq With("pending") \ (leftOut \cup created)
  OBVIOUS
<1>3. \A t \in With("pending")' \ (leftOut' \cup created') :
         \E i \in 1 .. Len(plan) : t \in plan[i].tasks /\ plan[i].id \notin Done
  BY <1>1, <1>2
<1> QED
  BY <1>3 DEF WorkIsCovered, IsDone

\* A task that was executed is pending no more.
LEMMA RunTaskStep ==
    ASSUME StageInv, NEW t \in Tasks, RunTask(t)
    PROVE  StageInv'
<1>1. /\ pc = "run" /\ t \in todo
      /\ UNCHANGED <<plan, version, pos, completed, processed, created, iteration, leftOut>>
  BY DEF RunTask
<1>2. CASE status[t] # "pending"
  <2>1. pc' = "done" /\ outcome' # "closed" /\ UNCHANGED <<status, todo>>
    BY <1>2 DEF RunTask, End
  <2> QED
    BY <1>1, <2>1, EndKeeps DEF StageInv, TypeOK
<1>3. CASE status[t] = "pending"
  <2>1. PICK s \in {"completed", "troubled", "review"} :
           status' = [status EXCEPT ![t] = s]
    BY <1>3 DEF RunTask
  <2>2. todo' = todo \ {t} /\ UNCHANGED <<pc, outcome>>
    BY <1>3 DEF RunTask
  <2>3. TypeOK'
    BY <1>1, <2>1, <2>2 DEF StageInv, TypeOK, Statuses
  <2>4. /\ With("absent")' = With("absent")
        /\ With("pending")' = With("pending") \ {t}
    BY <1>3, <2>1 DEF StageInv, TypeOK, With
  <2>5. Done' = Done
    BY <1>1 DEF Done
  <2>6. PlanOK' /\ WorkAhead' /\ RowsInOrder'
    BY <1>1, <2>4, <2>5, PlanKept DEF StageInv, RowsInOrder
  <2>7. PositionOK'
    BY <1>1, <2>2 DEF StageInv, PositionOK, IsDone, Done
  <2>8. BatchOK'
    <3>1. /\ todo \subseteq Current.tasks /\ Current.tasks \cap With("pending") \subseteq todo
          /\ (todo \cup created) \cap With("absent") = {} /\ created = {} /\ Current' = Current
      BY <1>1 DEF StageInv, BatchOK, Current
    <3>2. /\ todo' \subseteq Current'.tasks /\ Current'.tasks \cap With("pending")' \subseteq todo'
          /\ (todo' \cup created') \cap With("absent")' = {} /\ created' = {}
      BY <1>1, <2>2, <2>4, <3>1
    <3> QED
      BY <1>1, <2>2, <3>2 DEF BatchOK
  <2>9. plan # <<>>
    BY <1>1, PlanFacts DEF StageInv, PositionOK, TypeOK
  <2>10. WorkIsCovered'
    BY <1>1, <2>4, <2>5, <2>9, CoverKept
  <2>11. outcome' = "none" /\ ClosedIsComplete'
    BY <1>1, <2>2 DEF StageInv, ClosedIsComplete
  <2> QED
    BY <2>3, <2>6, <2>7, <2>8, <2>10, <2>11 DEF StageInv
<1> QED
  BY <1>2, <1>3

\* When all its tasks are executed, a batch has nothing pending.
LEMMA FinishBatchStep ==
    ASSUME StageInv, FinishBatch
    PROVE  StageInv'
<1>1. /\ pc = "run" /\ todo = {}
      /\ UNCHANGED <<status, plan, version, pos, completed, processed, created,
                     iteration, leftOut>>
  BY DEF FinishBatch
<1>2. CASE Current.tasks \cap With("review") # {}
  <2>1. pc' = "done" /\ outcome' # "closed" /\ UNCHANGED todo
    BY <1>2 DEF FinishBatch, End
  <2> QED
    BY <1>1, <2>1, EndKeeps DEF StageInv, TypeOK
<1>3. CASE Current.tasks \cap With("review") = {}
  <2>1. todo' = Troubled /\ pc' = "judge" /\ UNCHANGED outcome
    BY <1>3 DEF FinishBatch
  <2>2. With("absent")' = With("absent") /\ With("pending")' = With("pending") /\ Done' = Done
    BY <1>1 DEF With, Done
  <2>3. TypeOK'
    BY <1>1, <2>1 DEF StageInv, TypeOK, Troubled, With
  <2>4. PlanOK' /\ WorkAhead' /\ RowsInOrder'
    BY <1>1, <2>2, PlanKept DEF StageInv, RowsInOrder
  <2>5. PositionOK'
    BY <1>1, <2>1 DEF StageInv, PositionOK, IsDone, Done
  <2>6. BatchOK'
    <3>1. Troubled \cap With("absent") = {}
      BY DEF Troubled, With
    <3>2. Current.tasks \cap With("pending") = {} /\ created \cap With("absent") = {}
      BY <1>1 DEF StageInv, BatchOK
    <3> QED
      BY <1>1, <2>1, <2>2, <3>1, <3>2 DEF BatchOK, Current
  <2>7. plan # <<>>
    BY <1>1, PlanFacts DEF StageInv, PositionOK, TypeOK
  <2>8. WorkIsCovered'
    BY <1>1, <2>2, <2>7, CoverKept
  <2>9. outcome' = "none" /\ ClosedIsComplete'
    BY <1>1, <2>1 DEF StageInv, ClosedIsComplete
  <2> QED
    BY <2>3, <2>4, <2>5, <2>6, <2>8, <2>9 DEF StageInv
<1> QED
  BY <1>2, <1>3

\* The rows of a recovery are new ones.
LEMMA Materialised ==
    ASSUME StageInv, NEW t \in todo, NEW n \in 0 .. MaxCreated, Materialise(t, n)
    PROVE  \E new \in SUBSET With("absent") :
              /\ created' = created \cup new
              /\ status' \in [Tasks -> Statuses]
              /\ With("absent")' = With("absent") \ new
              /\ With("pending")' \subseteq With("pending") \cup new
              /\ RowsInOrder'
<1>1. PICK m \in 0 .. MaxTasks : With("absent") = m + 1 .. MaxTasks
  BY DEF StageInv, RowsInOrder
<1>2. MaxTasks \in Nat /\ m \in Nat /\ m <= MaxTasks /\ n \in Nat
  BY <1>1, StageAssumption
<1>3. Cardinality(With("absent")) = MaxTasks - m
  <2>1. m + 1 \in Int /\ MaxTasks \in Int
    BY <1>2
  <2>2. Cardinality(m + 1 .. MaxTasks) = IF m + 1 > MaxTasks THEN 0 ELSE MaxTasks - (m + 1) + 1
    BY <2>1, FS_Interval, Zenon
  <2>3. CASE m + 1 > MaxTasks
    BY <1>1, <1>2, <2>2, <2>3
  <2>4. CASE ~(m + 1 > MaxTasks)
    BY <1>1, <1>2, <2>2, <2>4
  <2> QED
    BY <2>3, <2>4
<1> DEFINE new == m + 1 .. m + n
<1>4. MaxTasks - Cardinality(With("absent")) = m
  BY <1>2, <1>3
<1>5. /\ m + n <= MaxTasks
      /\ status' = [u \in Tasks |->
            CASE u \in new          -> "pending"
              [] u = t /\ new # {}  -> "replaced"
              [] OTHER              -> status[u]]
      /\ created' = created \cup new
  BY <1>4 DEF Materialise
<1>6. new \in SUBSET With("absent")
  BY <1>1, <1>2, <1>5
<1>7. t \in Tasks /\ t \notin With("absent")
  BY DEF StageInv, TypeOK, BatchOK
<1>8. t \notin new
  BY <1>6, <1>7
<1> HIDE DEF new
<1>9. ASSUME NEW u \in Tasks
      PROVE  /\ u \in new => status'[u] = "pending"
             /\ u \notin new => status'[u] \in {"replaced", status[u]}
             /\ u \notin new /\ u # t => status'[u] = status[u]
             /\ u = t => status'[u] \in {"replaced", status[u]}
  <2>1. CASE u \in new
    BY <1>5, <1>8, <2>1
  <2>2. CASE u \notin new
    BY <1>5, <2>2
  <2> QED
    BY <2>1, <2>2
<1>10. status' \in [Tasks -> Statuses]
  <2>1. \A u \in Tasks : status'[u] \in Statuses
    BY <1>9 DEF Statuses, StageInv, TypeOK
  <2> QED
    BY <1>5, <2>1
<1>11. With("absent")' = With("absent") \ new
  <2>1. ASSUME NEW u \in Tasks
        PROVE  status'[u] = "absent" <=> status[u] = "absent" /\ u \notin new
    BY <1>7, <1>9 DEF With
  <2> QED
    BY <2>1 DEF With
<1>12. With("pending")' \subseteq With("pending") \cup new
  <2>1. ASSUME NEW u \in Tasks, status'[u] = "pending"
        PROVE  status[u] = "pending" \/ u \in new
    BY <1>9, <2>1
  <2> QED
    BY <2>1 DEF With
<1>13. RowsInOrder'
  <2>1. With("absent")' = (m + n) + 1 .. MaxTasks
    <3>1. m + n <= MaxTasks
      BY <1>5
    <3>2. (m + 1 .. MaxTasks) \ (m + 1 .. m + n) = m + n + 1 .. MaxTasks
      BY <1>2, <3>1
    <3> QED
      BY <1>1, <1>11, <3>2 DEF new
  <2>2. m + n \in 0 .. MaxTasks
    BY <1>2, <1>5
  <2> QED
    BY <2>1, <2>2 DEF RowsInOrder
<1> QED
  BY <1>5, <1>6, <1>10, <1>11, <1>12, <1>13

\* Recovery makes new tasks pending and nothing planned pending again.
LEMMA RecoverStep ==
    ASSUME StageInv, NEW t \in Tasks, Recover(t)
    PROVE  StageInv'
<1>1. /\ pc = "judge" /\ t \in todo
      /\ UNCHANGED <<plan, version, pos, completed, processed, iteration, leftOut>>
  BY DEF Recover
<1>2. CASE RecoveryFails
  <2>1. pc' = "done" /\ outcome' # "closed" /\ UNCHANGED <<status, todo, created>>
    BY <1>2 DEF RecoveryFails, End
  <2> QED
    BY <1>1, <2>1, EndKeeps DEF StageInv, TypeOK
<1>3. ASSUME NEW n \in 0 .. MaxCreated, Materialise(t, n),
             todo' = todo \ {t}, UNCHANGED <<pc, outcome>>
      PROVE  StageInv'
  <2>1. PICK new \in SUBSET With("absent") :
           /\ created' = created \cup new
           /\ status' \in [Tasks -> Statuses]
           /\ With("absent")' = With("absent") \ new
           /\ With("pending")' \subseteq With("pending") \cup new
           /\ RowsInOrder'
    BY <1>1, <1>3, Materialised
  <2>2. new \subseteq Tasks /\ new \cap With("pending") = {}
    BY <2>1 DEF With
  <2>3. Done' = Done
    BY <1>1 DEF Done
  <2>4. TypeOK'
    BY <1>1, <1>3, <2>1, <2>2 DEF StageInv, TypeOK
  <2>5. PlanOK' /\ WorkAhead'
    BY <1>1, <2>1, <2>3, PlanKept DEF StageInv
  <2>6. PositionOK'
    BY <1>1, <1>3 DEF StageInv, PositionOK, IsDone, Done
  <2>7. BatchOK'
    <3>1. /\ Current.tasks \cap With("pending") = {}
          /\ (todo \cup created) \cap With("absent") = {} /\ Current' = Current
      BY <1>1 DEF StageInv, BatchOK, Current
    <3>2. Current.tasks \subseteq Live
      <4>1. pos \in 1 .. Len(plan)
        BY <1>1, PlanFacts DEF StageInv, PositionOK, TypeOK
      <4> QED
        BY <4>1, PlanFacts DEF StageInv, Current
    <3>3. Current'.tasks \cap With("pending")' = {}
      BY <2>1, <3>1, <3>2 DEF Live
    <3>4. (todo' \cup created') \cap With("absent")' = {}
      BY <1>3, <2>1, <3>1
    <3> QED
      BY <1>1, <1>3, <3>3, <3>4 DEF BatchOK
  <2>8. plan # <<>>
    BY <1>1, PlanFacts DEF StageInv, PositionOK, TypeOK
  <2>9. With("pending")' \ created' \subseteq With("pending") \ created
    BY <2>1
  <2>10. WorkIsCovered'
    BY <1>1, <2>3, <2>8, <2>9, CoverKept
  <2>11. outcome' = "none" /\ ClosedIsComplete'
    BY <1>1, <1>3 DEF StageInv, ClosedIsComplete
  <2> QED
    BY <2>1, <2>4, <2>5, <2>6, <2>7, <2>10, <2>11 DEF StageInv
<1> QED
  BY <1>2, <1>3 DEF Recover

\* The next iteration starts at the front of the plan it is given.
LEMMA NextIterationStep ==
    ASSUME StageInv, NextIteration
    PROVE  StageInv'
<1>1. /\ pc = "iterate" /\ outcome = "none" /\ created = {}
      /\ completed' = completed \cup processed /\ processed' = {} /\ pos' = 1
      /\ UNCHANGED <<status, plan, version, todo, created, leftOut>>
  BY DEF NextIteration, StageInv, BatchOK
<1>2. With("absent")' = With("absent") /\ With("pending")' = With("pending") /\ Done' = Done
  BY <1>1 DEF With, Done
<1>3. PlanOK' /\ WorkAhead' /\ RowsInOrder'
  BY <1>1, <1>2, PlanKept DEF StageInv, RowsInOrder
<1>4. /\ iteration' \in Nat
      /\ \/ pc' = "done" /\ outcome' = "review"
         \/ pc' = "sequence" /\ UNCHANGED outcome
         \/ pc' = "take" /\ UNCHANGED outcome
  <2>1. iteration \in Nat /\ MaxIterations \in Nat /\ iteration + 1 \in Nat
    BY StageAssumption DEF StageInv, TypeOK
  <2>2. CASE iteration = MaxIterations
    <3>1. ~(iteration < MaxIterations)
      BY <2>1, <2>2
    <3> QED
      BY <2>1, <2>2, <3>1 DEF NextIteration, End
  <2>3. CASE iteration < MaxIterations /\ plan = <<>>
    <3>1. iteration # MaxIterations
      BY <2>1, <2>3
    <3> QED
      BY <2>1, <2>3, <3>1 DEF NextIteration, End
  <2>4. CASE iteration < MaxIterations /\ plan # <<>> /\ BatchIds \subseteq completed'
    <3>1. iteration # MaxIterations
      BY <2>1, <2>4
    <3> QED
      BY <2>1, <2>4, <3>1 DEF NextIteration, End
  <2>5. CASE /\ iteration # MaxIterations
             /\ ~(iteration < MaxIterations /\ plan = <<>>)
             /\ ~(iteration < MaxIterations /\ plan # <<>> /\ BatchIds \subseteq completed')
    BY <2>1, <2>5 DEF NextIteration, End
  <2> QED
    BY <2>1, <2>2, <2>3, <2>4, <2>5
<1>5. TypeOK'
  BY <1>1, <1>4 DEF StageInv, TypeOK
<1>6. PositionOK'
  <2>1. \A i \in 1 .. Len(plan) : ~(i < 1)
    OBVIOUS
  <2> QED
    BY <1>1, <1>4, <2>1 DEF PositionOK
<1>7. BatchOK'
  BY <1>1, <1>2, <1>4 DEF StageInv, BatchOK
<1>8. WorkIsCovered'
  <2>1. CASE plan = <<>>
    BY <1>1, <2>1 DEF WorkIsCovered
  <2>2. CASE plan # <<>>
    BY <1>1, <1>2, <2>2, CoverKept
  <2> QED
    BY <2>1, <2>2
<1>9. ClosedIsComplete' /\ (pc' # "done" => outcome' = "none")
  BY <1>1, <1>4 DEF ClosedIsComplete
<1> QED
  BY <1>3, <1>5, <1>6, <1>7, <1>8, <1>9 DEF StageInv

\* A workflow started again has no plan and nothing done.
LEMMA NextWorkflowStep ==
    ASSUME StageInv, NextWorkflow
    PROVE  StageInv'
<1>1. /\ status' = [t \in Tasks |->
                      IF status[t] = "review" THEN "pending" ELSE status[t]]
      /\ plan' = <<>> /\ pos' = 1
      /\ completed' = {} /\ processed' = {} /\ todo' = {} /\ created' = {}
      /\ iteration' = 1 /\ leftOut' = {} /\ version' = version
      /\ pc' = "sequence" /\ outcome' = "none"
  BY DEF NextWorkflow
<1>2. TypeOK'
  <2>1. status' \in [Tasks -> Statuses]
    BY <1>1 DEF StageInv, TypeOK, Statuses
  <2> QED
    BY <1>1, <2>1 DEF StageInv, TypeOK
<1>3. With("absent")' = With("absent")
  BY <1>1 DEF StageInv, TypeOK, With
<1>4. PlanOK' /\ WorkAhead'
  <2>1. Done' = {} /\ Len(plan') = 0
    BY <1>1 DEF Done
  <2>2. WellFormed(plan', version', (Tasks \ With("absent"))')
    BY <1>1, NoPlanIsWellFormed
  <2> QED
    BY <2>1, <2>2 DEF PlanOK, WorkAhead
<1>5. RowsInOrder' /\ BatchOK' /\ PositionOK' /\ WorkIsCovered' /\ ClosedIsComplete'
  BY <1>1, <1>3 DEF StageInv, RowsInOrder, BatchOK, PositionOK, WorkIsCovered, ClosedIsComplete
<1> QED
  BY <1>1, <1>2, <1>4, <1>5 DEF StageInv

----------------------------------------------------------------------------
(* The evaluation, and what the invariant is for. *)

\* The batch that is judged is done now, and the plan grew behind it.
LEMMA Advanced ==
    ASSUME StageInv, pc = "judge", NEW S, Grown(plan, plan', pos, S, version, Live),
           Done' = Done \cup {Current.id}, UNCHANGED <<status, version>>
    PROVE  /\ PlanOK' /\ WorkAhead'
           /\ \A i \in 1 .. Len(plan') : IsDone(i)' <=> i <= pos
<1>1. /\ pos \in 1 .. Len(plan) /\ pos \in Nat /\ ~IsDone(pos)
      /\ \A i \in 1 .. Len(plan) : i < pos => IsDone(i)
      /\ Current.tasks \cap With("pending") = {}
  BY PlanFacts DEF StageInv, PositionOK, TypeOK, BatchOK
<1>2. PICK f \in [1 .. Len(plan) -> 1 .. Len(plan')] :
         /\ \A i, j \in 1 .. Len(plan) : i < j => f[i] < f[j]
         /\ \A i \in 1 .. Len(plan) :
               /\ plan'[f[i]].id = plan[i].id
               /\ plan[i].tasks \subseteq plan'[f[i]].tasks
               /\ i <= pos => f[i] = i /\ plan'[i].tasks = plan[i].tasks
  BY DEF Grown
<1>3. WellFormed(plan', version, Live)
  BY DEF Grown
<1>4. /\ Len(plan') \in Nat /\ \A i \in 1 .. Len(plan') : plan'[i].id[1] = version
      /\ \A i, j \in 1 .. Len(plan') : plan'[i].id = plan'[j].id => i = j
  <2>1. Len(plan') \in Nat
    BY <1>3 DEF WellFormed
  <2>2. \A i \in 1 .. Len(plan') : plan'[i].id[1] = version
    BY <1>3 DEF WellFormed
  <2>3. ASSUME NEW i \in 1 .. Len(plan'), NEW j \in 1 .. Len(plan'), plan'[i].id = plan'[j].id
        PROVE  i = j
    <3>1. ~(i < j) /\ ~(j < i)
      BY <1>3, <2>3 DEF WellFormed
    <3> QED
      BY <2>1, <3>1
  <2> QED
    BY <2>1, <2>2, <2>3
<1>5. With("absent")' = With("absent") /\ With("pending")' = With("pending")
  BY DEF With
<1>6. \A i \in 1 .. pos : /\ i \in 1 .. Len(plan) /\ i \in 1 .. Len(plan')
                          /\ plan'[i].id = plan[i].id /\ plan'[i].tasks = plan[i].tasks
  <2>1. TAKE i \in 1 .. pos
  <2>2. i \in 1 .. Len(plan) /\ i <= pos
    BY <1>1
  <2> QED
    BY <1>2, <2>2
<1>7. \A l \in 1 .. Len(plan) : IsDone(l) => l < pos
  <2>1. SUFFICES ASSUME NEW l \in 1 .. Len(plan), IsDone(l), ~(l < pos) PROVE FALSE
    OBVIOUS
  <2>2. l = pos \/ pos < l
    BY <1>1, <2>1
  <2>3. pos < l => IsDone(pos)
    BY <1>1, <2>1 DEF StageInv, WorkAhead, IsDone
  <2> QED
    BY <1>1, <2>1, <2>2, <2>3
<1>8. \A d \in Done : /\ d[1] <= version
                      /\ d[1] = version => \E l \in 1 .. Len(plan) : d = plan[l].id
  <2>1. plan # <<>>
    BY <1>1
  <2> QED
    BY <2>1 DEF StageInv, PlanOK, BatchIds
<1>9. ASSUME NEW i \in 1 .. Len(plan') PROVE plan'[i].id \in Done' <=> i <= pos
  <2>1. ASSUME i <= pos PROVE plan'[i].id \in Done'
    <3>1. i \in 1 .. pos
      BY <2>1
    <3>2. i \in 1 .. Len(plan) /\ plan'[i].id = plan[i].id
      BY <1>6, <3>1
    <3>3. CASE i < pos
      BY <1>1, <3>2, <3>3 DEF IsDone
    <3>4. CASE i = pos
      BY <3>2, <3>4 DEF Current
    <3> QED
      BY <1>1, <2>1, <3>3, <3>4
  <2>2. ASSUME plan'[i].id \in Done' PROVE i <= pos
    <3>1. CASE plan'[i].id = Current.id
      <4>1. pos \in 1 .. pos
        BY <1>1
      <4>2. pos \in 1 .. Len(plan') /\ plan'[pos].id = plan[pos].id
        BY <1>6, <4>1
      <4>3. i = pos
        BY <1>4, <3>1, <4>2 DEF Current
      <4> QED
        BY <1>1, <4>3
    <3>2. CASE plan'[i].id \in Done
      <4>1. PICK l \in 1 .. Len(plan) : plan'[i].id = plan[l].id
        BY <1>4, <1>8, <3>2
      <4>2. l < pos
        BY <1>7, <3>2, <4>1 DEF IsDone
      <4>3. l \in 1 .. pos
        BY <1>1, <4>2
      <4>4. i = l
        BY <1>4, <1>6, <4>1, <4>3
      <4> QED
        BY <1>1, <4>2, <4>4
    <3> QED
      BY <2>2, <3>1, <3>2
  <2> QED
    BY <2>1, <2>2
<1>10. WorkAhead'
  <2>1. ASSUME NEW i \in 1 .. Len(plan'), NEW j \in 1 .. Len(plan'), i < j, j <= pos
        PROVE  i <= pos
    BY <1>1, <2>1
  <2> QED
    BY <1>9, <2>1 DEF WorkAhead
<1>11. PlanOK'
  <2>1. WellFormed(plan', version', (Tasks \ With("absent"))')
    BY <1>3, <1>5 DEF Live, Tasks
  <2>2. ASSUME NEW d \in Done' PROVE d[1] <= version /\ (d[1] = version => d \in BatchIds')
    <3>1. CASE d \in Done
      <4>1. ASSUME d[1] = version PROVE d \in BatchIds'
        <5>1. PICK l \in 1 .. Len(plan) : d = plan[l].id
          BY <1>8, <3>1, <4>1
        <5>2. f[l] \in 1 .. Len(plan') /\ plan'[f[l]].id = d
          BY <1>2, <5>1
        <5> QED
          BY <5>2 DEF BatchIds
      <4> QED
        BY <1>8, <3>1, <4>1
    <3>2. CASE d = Current.id
      <4>1. pos \in 1 .. pos
        BY <1>1
      <4>2. pos \in 1 .. Len(plan') /\ plan'[pos].id = d
        BY <1>6, <3>2, <4>1 DEF Current
      <4>3. d[1] = version /\ version \in Nat
        BY <1>4, <4>2 DEF StageInv, TypeOK
      <4> QED
        BY <4>2, <4>3 DEF BatchIds
    <3> QED
      BY <3>1, <3>2
  <2>3. ASSUME NEW i \in 1 .. Len(plan'), plan'[i].id \in Done'
        PROVE  plan'[i].tasks \cap With("pending")' = {}
    <3>1. i \in 1 .. pos
      BY <1>1, <1>4, <1>9, <2>3
    <3>2. i \in 1 .. Len(plan) /\ plan'[i].tasks = plan[i].tasks
      BY <1>6, <3>1
    <3>3. CASE i = pos
      BY <1>1, <1>5, <3>2, <3>3 DEF Current
    <3>4. CASE i # pos
      <4>1. IsDone(i)
        BY <1>1, <3>1, <3>2, <3>4
      <4> QED
        BY <1>5, <3>2, <4>1 DEF StageInv, PlanOK
    <3> QED
      BY <3>3, <3>4
  <2> QED
    BY <2>1, <2>2, <2>3 DEF PlanOK, IsDone
<1> QED
  BY <1>9, <1>10, <1>11 DEF IsDone

\* The evaluation of a batch and the change of the plan it leads to.
LEMMA EvaluateStep ==
    ASSUME StageInv, Evaluate
    PROVE  StageInv'
<1>1. /\ pc = "judge" /\ todo = {} /\ outcome = "none"
      /\ UNCHANGED <<status, version, completed, todo, leftOut>>
      /\ Fails \/ Judged
  BY Evaluated DEF StageInv
<1>2. iteration' \in Nat
  <2>1. iteration \in Nat
    BY DEF StageInv, TypeOK
  <2> QED
    BY <2>1 DEF Evaluate, EvaluationFails, Mutate, Assign, Unaskable, AssignmentFails,
               Escalated, Resequence, Conclude, Fail, Proceed
<1>3. CASE Fails
  BY <1>1, <1>2, <1>3, EndKeeps DEF Fails
<1>4. CASE Judged
  <2>1. processed' = processed \cup {Current.id} /\ created' = {}
    BY <1>4 DEF Judged
  <2>2. Done' = Done \cup {Current.id}
    BY <1>1, <2>1 DEF Done
  <2>3. With("absent")' = With("absent") /\ With("pending")' = With("pending")
    BY <1>1 DEF With
  <2>4. RowsInOrder'
    BY <2>3 DEF StageInv, RowsInOrder
  <2>5. pos \in 1 .. Len(plan) /\ pos \in Nat /\ pos + 1 \in Nat \ {0}
    BY <1>1, PlanFacts DEF StageInv, PositionOK, TypeOK
  <2>6. pos' \in Nat \ {0} /\ pc' \in {"done", "take", "iterate"}
    BY <1>4, <2>5 DEF Judged, Ends, Closing, Discards, Grows
  <2>7. TypeOK'
    <3>1. Current.id \in Nat \X Nat \X Nat
      BY <2>5, PlanFacts DEF StageInv, Current
    <3> QED
      BY <1>1, <1>2, <2>1, <2>6, <3>1 DEF StageInv, TypeOK
  <2>8. BatchOK'
    BY <1>1, <2>1, <2>3, <2>6 DEF StageInv, BatchOK
  <2>9. WellFormed(plan, version, Live)
    BY DEF StageInv, PlanOK, Live
  <2>10. CASE Ends \/ Closing
    <3>1. pc' = "done" /\ plan' = plan
      BY <2>10 DEF Ends, Closing
    <3>2. Grown(plan, plan', pos, {}, version, Live)
      BY <2>5, <2>9, <3>1, GrownByNothing
    <3>3. PlanOK' /\ WorkAhead'
      BY <1>1, <2>2, <3>2, Advanced
    <3>4. PositionOK' /\ WorkIsCovered'
      BY <3>1 DEF PositionOK, WorkIsCovered
    <3>5. ClosedIsComplete'
      <4>1. CASE Ends
        BY <4>1 DEF Ends, ClosedIsComplete
      <4>2. CASE Closing
        <5>1. ASSUME NEW t \in With("pending") PROVE FALSE
          <6>1. PICK i \in 1 .. Len(plan) : t \in plan[i].tasks
            BY <4>2, <5>1 DEF Closing, Planned
          <6>2. i < pos \/ i = pos
            BY <2>5, <4>2 DEF Closing, IsFinal
          <6>3. Current.tasks \cap With("pending") = {}
            BY <1>1 DEF StageInv, BatchOK
          <6>4. i # pos
            BY <6>1, <6>3 DEF Current
          <6>5. IsDone(i)
            BY <1>1, <6>2, <6>4 DEF StageInv, PositionOK
          <6> QED
            BY <6>1, <6>5 DEF StageInv, PlanOK
        <5> QED
          BY <2>3, <5>1 DEF ClosedIsComplete
      <4> QED
        BY <2>10, <4>1, <4>2
    <3> QED
      BY <2>4, <2>7, <2>8, <3>1, <3>3, <3>4, <3>5 DEF StageInv
  <2>11. CASE Discards
    <3>1. plan' = <<>> /\ pc' = "iterate" /\ outcome' = "none"
      BY <1>1, <2>11 DEF Discards
    <3>2. WellFormed(plan', version', (Tasks \ With("absent"))')
      BY <3>1, NoPlanIsWellFormed
    <3>3. \A d \in Done' : d[1] <= version'
      <4>1. Current.id[1] = version /\ version \in Nat
        BY <2>5, PlanFacts DEF StageInv, Current
      <4>2. \A d \in Done : d[1] <= version
        BY DEF StageInv, PlanOK
      <4> QED
        BY <1>1, <2>2, <4>1, <4>2
    <3>4. Len(plan') = 0
      BY <3>1
    <3>5. PlanOK' /\ WorkAhead'
      BY <3>1, <3>2, <3>3, <3>4 DEF PlanOK, WorkAhead
    <3>6. PositionOK' /\ WorkIsCovered' /\ ClosedIsComplete'
      BY <3>1 DEF PositionOK, WorkIsCovered, ClosedIsComplete
    <3> QED
      BY <2>4, <2>7, <2>8, <3>1, <3>5, <3>6 DEF StageInv
  <2>12. CASE Grows
    <3>1. /\ Grown(plan, plan', pos, created, version, Live) /\ outcome' = "none"
          /\ \/ pc' = "take" /\ pos' = pos + 1
             \/ pc' = "iterate" /\ pos' = pos
      BY <1>1, <2>12 DEF Grows
    <3>2. /\ PlanOK' /\ WorkAhead'
          /\ \A i \in 1 .. Len(plan') : IsDone(i)' <=> i <= pos
      BY <1>1, <2>2, <3>1, Advanced
    <3>3. PositionOK'
      <4>1. ASSUME NEW i \in 1 .. Len(plan'), i < pos + 1 PROVE i <= pos
        BY <2>5, <4>1
      <4> QED
        BY <3>1, <3>2, <4>1 DEF PositionOK
    <3>4. WorkIsCovered'
      <4>1. ASSUME NEW t \in With("pending") \ leftOut
            PROVE  \E j \in 1 .. Len(plan') : t \in plan'[j].tasks /\ ~(j <= pos)
        <5>1. CASE t \in created
          <6>1. PICK j \in 1 .. Len(plan') : pos < j /\ t \in plan'[j].tasks
            BY <3>1, <5>1 DEF Grown
          <6> QED
            BY <2>5, <6>1
        <5>2. CASE t \notin created
          <6>1. plan # <<>>
            BY <2>5
          <6>2. PICK i \in 1 .. Len(plan) : t \in plan[i].tasks /\ ~IsDone(i)
            BY <1>1, <4>1, <5>2, <6>1 DEF StageInv, WorkIsCovered
          <6>3. ~(i < pos)
            BY <1>1, <6>2 DEF StageInv, PositionOK
          <6>4. i # pos
            BY <1>1, <4>1, <6>2 DEF StageInv, BatchOK, Current
          <6>5. pos < i
            BY <2>5, <6>3, <6>4
          <6>6. PICK f \in [1 .. Len(plan) -> 1 .. Len(plan')] :
                   /\ \A k, l \in 1 .. Len(plan) : k < l => f[k] < f[l]
                   /\ \A k \in 1 .. Len(plan) :
                         /\ plan[k].tasks \subseteq plan'[f[k]].tasks
                         /\ k <= pos => f[k] = k
            BY <3>1 DEF Grown
          <6>7. f[pos] = pos /\ f[pos] < f[i] /\ f[i] \in 1 .. Len(plan')
                /\ t \in plan'[f[i]].tasks
            BY <2>5, <6>2, <6>5, <6>6
          <6>8. ~(f[i] <= pos)
            BY <2>5, <6>7
          <6> QED
            BY <6>7, <6>8
        <5> QED
          BY <5>1, <5>2
      <4> QED
        BY <1>1, <2>1, <2>3, <3>2, <4>1 DEF WorkIsCovered
    <3>5. ClosedIsComplete'
      BY <3>1 DEF ClosedIsComplete
    <3> QED
      BY <2>4, <2>7, <2>8, <3>1, <3>2, <3>3, <3>4, <3>5 DEF StageInv
  <2> QED
    BY <1>4, <2>10, <2>11, <2>12 DEF Judged
<1> QED
  BY <1>1, <1>3, <1>4

\* Every step of the stage keeps the invariant.
LEMMA StageInvStep == StageInv /\ [Next]_vars => StageInv'
<1> SUFFICES ASSUME StageInv, [Next]_vars PROVE StageInv'
  OBVIOUS
<1>1. CASE Pause
  <2>1. pc' = "done" /\ outcome' # "closed"
    BY <1>1 DEF Pause, End
  <2> QED
    BY <1>1, <2>1, EndKeeps DEF Pause, StageInv, TypeOK
<1>2. CASE UNCHANGED vars
  <2>1. /\ TypeOK' /\ RowsInOrder' /\ PositionOK' /\ BatchOK' /\ WorkIsCovered'
        /\ WorkAhead' /\ ClosedIsComplete' /\ (pc' # "done" => outcome' = "none")
    BY <1>2 DEF vars, StageInv, TypeOK, RowsInOrder, PositionOK, BatchOK, WorkIsCovered,
                WorkAhead, ClosedIsComplete, With, Done, IsDone, Current
  <2>2. PlanOK'
    BY <1>2, PlanKept DEF vars, StageInv, With, Done
  <2> QED
    BY <2>1, <2>2 DEF StageInv
<1>3. CASE \E t \in Tasks : RunTask(t) \/ Recover(t)
  BY <1>3, RunTaskStep, RecoverStep
<1> QED
  BY <1>1, <1>2, <1>3, SequenceStep, TakeBatchStep, FinishBatchStep, EvaluateStep,
     NextIterationStep, NextWorkflowStep DEF Next

\* The inductive invariant of the stage: the plan is well formed, its executed
\* batches are its first ones and have nothing pending, and what is pending is
\* planned, left out by the sequencer or created by the recovery under way.
THEOREM StageInvariance == Spec => []StageInv
<1> QED
  BY StageInvInit, StageInvStep, PTL DEF Spec

\* No work is lost between two batches: what is pending, and was not left out by
\* the sequencer, is in a batch that is still to be executed.
THEOREM NoWorkIsLost == Spec => []PlanCoversWork
<1>1. StageInv => PlanCoversWork
  <2> SUFFICES ASSUME StageInv, pc \in {"take", "iterate"}, plan # <<>>,
                      NEW t \in With("pending") \ leftOut
               PROVE  \E i \in 1 .. Len(plan) : t \in plan[i].tasks /\ plan[i].id \notin Done
    BY DEF PlanCoversWork
  <2>1. created = {}
    BY DEF StageInv, BatchOK
  <2> QED
    BY <2>1 DEF StageInv, WorkIsCovered, IsDone
<1> QED
  BY <1>1, StageInvariance, PTL

\* A patch or a cluster is never placed before a batch that was executed.
THEOREM WorkStaysAhead == Spec => []WorkAhead
<1>1. StageInv => WorkAhead
  BY DEF StageInv
<1> QED
  BY <1>1, StageInvariance, PTL

\* A stage that the evaluation closed has no pending task, planned or not.
THEOREM NothingIsLeftOpen == Spec => []ClosedIsComplete
<1>1. StageInv => ClosedIsComplete
  BY DEF StageInv
<1> QED
  BY <1>1, StageInvariance, PTL

\* Batches keep their places in a plan that stays or grows.
LEMMA PlanStep ==
    ASSUME StageInv, [Next]_vars
    PROVE  \/ plan' = plan \/ plan' = <<>> \/ version' # version
           \/ \E S : Grown(plan, plan', pos, S, version, Live)
<1>1. CASE Sequence
  <2>1. version \in Nat
    BY DEF StageInv, TypeOK
  <2>2. version + 1 # version
    BY <2>1
  <2> QED
    BY <1>1, <2>2 DEF Sequence, SequencingFails
<1>2. CASE Evaluate
  <2>1. Fails \/ Judged
    BY <1>2, Evaluated
  <2> QED
    BY <2>1 DEF Fails, Judged, Ends, Closing, Discards, Grows
<1>3. CASE TakeBatch \/ Pause \/ FinishBatch \/ NextIteration \/ NextWorkflow \/ UNCHANGED vars
  BY <1>3 DEF TakeBatch, Pause, FinishBatch, NextIteration, NextWorkflow, vars
<1>4. CASE \E t \in Tasks : RunTask(t) \/ Recover(t)
  BY <1>4 DEF RunTask, Recover
<1> QED
  BY <1>1, <1>2, <1>3, <1>4 DEF Next

\* A mutation of the live plan loses no batch, swaps no two and takes no task
\* from one; the batches up to the current one it leaves as they are.
THEOREM BatchesKeepTheirPlaces == Spec => MutationsKeepThePlan
<1> DEFINE Kept == \E f \in [1 .. Len(plan) -> 1 .. Len(plan')] :
                      /\ \A i, j \in 1 .. Len(plan) : i < j => f[i] < f[j]
                      /\ \A i \in 1 .. Len(plan) :
                            /\ plan'[f[i]].id = plan[i].id
                            /\ plan[i].tasks \subseteq plan'[f[i]].tasks
                            /\ i <= pos => plan'[f[i]].tasks = plan[i].tasks
           Step == version' = version /\ plan # <<>> /\ plan' # <<>> => Kept
<1>1. ASSUME StageInv, [Next]_vars PROVE Step
  <2>1. CASE plan' = plan
    <3> DEFINE f == [i \in 1 .. Len(plan) |-> i]
    <3>1. f \in [1 .. Len(plan) -> 1 .. Len(plan')] /\ \A i \in 1 .. Len(plan) : f[i] = i
      BY <2>1
    <3> HIDE DEF f
    <3>2. \A i, j \in 1 .. Len(plan) : i < j => f[i] < f[j]
      BY <3>1
    <3>3. \A i \in 1 .. Len(plan) :
             /\ plan'[f[i]].id = plan[i].id
             /\ plan[i].tasks \subseteq plan'[f[i]].tasks
             /\ i <= pos => plan'[f[i]].tasks = plan[i].tasks
      BY <2>1, <3>1
    <3> QED
      BY <3>1, <3>2, <3>3
  <2>2. ASSUME NEW S, Grown(plan, plan', pos, S, version, Live) PROVE Kept
    <3>1. PICK f \in [1 .. Len(plan) -> 1 .. Len(plan')] :
             /\ \A i, j \in 1 .. Len(plan) : i < j => f[i] < f[j]
             /\ \A i \in 1 .. Len(plan) :
                   /\ plan'[f[i]].id = plan[i].id
                   /\ plan[i].tasks \subseteq plan'[f[i]].tasks
                   /\ i <= pos => f[i] = i /\ plan'[i].tasks = plan[i].tasks
      BY <2>2 DEF Grown
    <3>2. \A i \in 1 .. Len(plan) : i <= pos => plan'[f[i]].tasks = plan[i].tasks
      BY <3>1
    <3> QED
      BY <3>1, <3>2
  <2> HIDE DEF Kept
  <2> QED
    BY <1>1, <2>1, <2>2, PlanStep
<1>2. StageInv /\ [Next]_vars => [Step]_vars
  BY <1>1
<1>3. MutationsKeepThePlan <=> [][Step]_vars
  BY DEF MutationsKeepThePlan
<1> HIDE DEF Step
<1> QED
  BY <1>2, <1>3, StageInvariance, PTL DEF Spec
=============================================================================
