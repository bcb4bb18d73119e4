-------------------------- MODULE FileSystemProofs --------------------------
(***************************************************************************)
(* Proofs about FileSystem for every number of inodes, sectors, directs    *)
(* and slots, under the commands of an orderly client.                     *)
(*                                                                         *)
(* The inductive invariant SoundInv says of the image that each inode in   *)
(* use holds blocks of its own, that files are filled from the left, that  *)
(* directories hold one block and free inodes none that counts             *)
(* (BlocksSound), and that the directories make a tree (TreeOn).           *)
(* A command is followed through the helpers it calls:  Resized says what  *)
(* file_resize may do to the image,  Removed what file_delete and          *)
(* dir_delete take off it,  Added what mk and mkdir add;  each keeps the   *)
(* image sound for reasons of its own.                                     *)
(*                                                                         *)
(* The last sections are about images that are only partly in memory, the  *)
(* rest being on a disk: FileServerProofs rests on them.                   *)
(***************************************************************************)
EXTENDS FileSystem, FiniteSetTheorems, SequenceTheorems, WellFoundedInduction, TLAPS

----------------------------------------------------------------------------
(* Numbers *)

(* Induction on the natural numbers, for a set: the sets 0..n whose n is missing would *)
(* have no smallest one.                                                                *)
LEMMA SetInduction ==
    ASSUME NEW S, 0 \in S, \A n \in Nat : n \in S => n + 1 \in S
    PROVE  Nat \subseteq S
<1> SUFFICES ASSUME NEW z \in Nat, z \notin S PROVE FALSE
    OBVIOUS
<1> DEFINE Missing == {0..n : n \in Nat \ S}
<1>1. Missing \subseteq FiniteSubsetsOf(Nat) /\ Missing # {}
    <2>1. \A n \in Nat : IsFiniteSet(0..n) /\ 0..n \subseteq Nat
        BY FS_Interval
    <2>2. QED
        BY <2>1 DEF FiniteSubsetsOf
<1>2. PICK U \in Missing : \A V \in Missing : <<V, U>> \notin StrictSubsetOrdering(Nat)
    <2> HIDE DEF Missing
    <2>1. QED
        BY <1>1, FS_StrictSubsetOrderingWellFounded, WFMin
<1>3. PICK x \in Nat \ S : U = 0..x
    BY <1>2
<1>4. x # 0 /\ x - 1 \in Nat
    OBVIOUS
<1>5. x - 1 \notin S
    <2>1. x - 1 \in S => (x - 1) + 1 \in S
        BY <1>4
    <2>2. QED
        BY <2>1, <1>4
<1>6. 0..x - 1 \in Missing
    BY <1>4, <1>5
<1>7. /\ 0..x - 1 \subseteq 0..x /\ 0..x \subseteq Nat
      /\ x \in 0..x /\ x \notin 0..x - 1
    BY <1>4
<1>8. <<0..x - 1, 0..x>> \in StrictSubsetOrdering(Nat)
    BY <1>7 DEF StrictSubsetOrdering
<1>9. QED
    BY <1>2, <1>3, <1>6, <1>8

(* A set of natural numbers has a smallest element. *)
LEMMA LeastElement ==
    ASSUME NEW S \in SUBSET Nat, S # {}
    PROVE  Min(S) \in S /\ \A y \in S : Min(S) <= y
<1> DEFINE Above == {n \in Nat : \A x \in 0..n : x \notin S}
<1>1. PICK s \in S : TRUE
    OBVIOUS
<1>2. \E x \in S : \A y \in S : x <= y
    <2>1. SUFFICES ASSUME \A x \in S : \E y \in S : ~(x <= y) PROVE FALSE
        OBVIOUS
    <2>2. 0 \in Above
        BY <2>1
    <2>3. ASSUME NEW n \in Nat, n \in Above PROVE n + 1 \in Above
        <3>1. n + 1 \notin S
            <4>1. SUFFICES ASSUME n + 1 \in S PROVE FALSE
                OBVIOUS
            <4>2. PICK y \in S : ~(n + 1 <= y)
                BY <2>1, <4>1
            <4>3. y \in 0..n
                BY <4>2
            <4>4. QED
                BY <2>3, <4>3
        <3>2. \A x \in 0..n + 1 : x \in 0..n \/ x = n + 1
            OBVIOUS
        <3>3. QED
            BY <2>3, <3>1, <3>2
    <2>4. Nat \subseteq Above
        <3> HIDE DEF Above
        <3>1. QED
            BY <2>2, <2>3, SetInduction
    <2>5. s \in Above /\ s \in 0..s
        BY <2>4
    <2>6. QED
        BY <2>5
<1>3. QED
    BY <1>2 DEF Min

(* The smaller and the larger of two numbers. *)
LEMMA MinMaxOfTwo ==
    ASSUME NEW a \in Int, NEW b \in Int
    PROVE  /\ Min({a, b}) = IF a <= b THEN a ELSE b
           /\ Max({a, b}) = IF a <= b THEN b ELSE a
<1>1. \E x \in {a, b} : \A y \in {a, b} : x <= y
    OBVIOUS
<1>2. \E x \in {a, b} : \A y \in {a, b} : x >= y
    OBVIOUS
<1>3. Min({a, b}) \in {a, b} /\ \A y \in {a, b} : Min({a, b}) <= y
    BY <1>1 DEF Min
<1>4. Max({a, b}) \in {a, b} /\ \A y \in {a, b} : Max({a, b}) >= y
    BY <1>2 DEF Max
<1>5. QED
    BY <1>3, <1>4

(* Counting the elements of a finite set up to one of them. *)
LEMMA RankProperties ==
    ASSUME NEW S \in SUBSET Int, IsFiniteSet(S)
    PROVE  /\ \A x \in Int : IsFiniteSet({y \in S : y <= x})
           /\ \A x \in Int : Cardinality({y \in S : y <= x}) \in 0..Cardinality(S)
           /\ \A x \in S : Cardinality({y \in S : y <= x}) >= 1
           /\ \A x \in Int, z \in S : x < z => Cardinality({y \in S : y <= x}) < Cardinality({y \in S : y <= z})
<1> DEFINE UpTo(x) == {y \in S : y <= x}
<1>1. Cardinality(S) \in Nat
    BY FS_CardinalityType
<1>2. ASSUME NEW x \in Int
      PROVE  IsFiniteSet(UpTo(x)) /\ Cardinality(UpTo(x)) \in Nat /\ Cardinality(UpTo(x)) <= Cardinality(S)
    <2>1. UpTo(x) \in SUBSET S
        OBVIOUS
    <2>2. QED
        BY <2>1, FS_Subset, FS_CardinalityType
<1>3. ASSUME NEW x \in S PROVE Cardinality(UpTo(x)) >= 1
    <2>1. x \in UpTo(x) /\ x \in Int
        OBVIOUS
    <2>2. Cardinality(UpTo(x)) # 0
        BY <1>2, <2>1, FS_EmptySet
    <2>3. QED
        BY <1>2, <2>1, <2>2
<1>4. ASSUME NEW x \in Int, NEW z \in S, x < z PROVE Cardinality(UpTo(x)) < Cardinality(UpTo(z))
    <2>1. UpTo(x) \in SUBSET UpTo(z) /\ z \in UpTo(z) /\ z \notin UpTo(x) /\ z \in Int
        <3>1. \A y \in S : y \in Int /\ (y <= x => y <= z)
            BY <1>4
        <3>2. ~(z <= x) /\ z <= z /\ z \in Int
            BY <1>4
        <3>3. QED
            BY <3>1, <3>2
    <2>2. Cardinality(UpTo(x)) <= Cardinality(UpTo(z)) /\ Cardinality(UpTo(x)) # Cardinality(UpTo(z))
        <3>1. IsFiniteSet(UpTo(z))
            BY <1>2, <2>1
        <3> HIDE DEF UpTo
        <3>2. QED
            BY <2>1, <3>1, FS_Subset
    <2>3. QED
        BY <1>2, <2>1, <2>2
<1>5. QED
    BY <1>1, <1>2, <1>3, <1>4

Different(q) == \A a, b \in 1..Len(q) : q[a] = q[b] => a = b

(* Every number up to that of its elements is the rank of one of them. *)
LEMMA RankReaches ==
    ASSUME NEW free \in SUBSET Int, IsFiniteSet(free), NEW r \in 1..Cardinality(free)
    PROVE  \E x \in free : Cardinality({y \in free : y <= x}) = r
<1> DEFINE Rank(x) == Cardinality({y \in free : y <= x})
           size == Cardinality(free)
           rank == [x \in free |-> Rank(x)]
<1>1. /\ size \in Nat /\ IsFiniteSet(1..size) /\ Cardinality(1..size) = size
    BY FS_CardinalityType, FS_Interval
<1>2. rank \in [free -> 1..size]
    BY <1>1, RankProperties
<1>3. \A x, z \in free : rank[x] = rank[z] => x = z
    <2>1. \A x \in free : Rank(x) \in Int
        BY <1>1, RankProperties
    <2>2. \A x, z \in free : x < z => Rank(x) < Rank(z)
        BY RankProperties
    <2>3. \A x, z \in free : Rank(x) = Rank(z) => x = z
        <3> HIDE DEF Rank
        <3>1. QED
            BY <2>1, <2>2
    <2>4. QED
        BY <2>3
<1>4. rank \in Injection(free, 1..size)
    <2> HIDE DEF rank
    <2>1. QED
        BY <1>2, <1>3 DEF Injection, IsInjective
<1>5. rank \in Surjection(free, 1..size)
    <2> HIDE DEF rank, size
    <2>1. QED
        BY <1>1, <1>4, FS_Injection DEF size
<1>6. PICK x \in free : rank[x] = r
    BY <1>5 DEF Surjection
<1>7. QED
    BY <1>6

(* bitmap_check hands out different free positions, as many as it is asked for. *)
LEMMA FirstFitProperties ==
    ASSUME NEW free \in SUBSET Int, IsFiniteSet(free), NEW n \in Nat, n <= Cardinality(free)
    PROVE  /\ FirstFit(free, n) \in Seq(free)
           /\ Len(FirstFit(free, n)) = n
           /\ Different(FirstFit(free, n))
<1> DEFINE Rank(x) == Cardinality({y \in free : y <= x})
<1>1. \A r \in 1..n : r \in 1..Cardinality(free)
    BY FS_CardinalityType
<1>2. ASSUME NEW r \in 1..n PROVE \E x \in free : Rank(x) = r
    BY <1>1, RankReaches
<1> DEFINE q == [r \in 1..n |-> CHOOSE x \in free : Rank(x) = r]
<1>3. \A r \in 1..n : q[r] \in free /\ Rank(q[r]) = r
    <2> HIDE DEF Rank
    <2>1. QED
        BY <1>2
<1>4. FirstFit(free, n) = q
    BY DEF FirstFit
<1>5. q \in Seq(free) /\ Len(q) = n
    <2>1. q \in [1..n -> free]
        BY <1>3
    <2> HIDE DEF q
    <2>2. QED
        BY <2>1, IsASeq, LenProperties
<1>6. QED
    <2> HIDE DEF q, Rank
    <2>1. QED
        BY <1>3, <1>4, <1>5 DEF Different

----------------------------------------------------------------------------
(* The places of a file *)

\* Filled from the left.
Dense(s) == \A k \in Used(s) : 0..k \subseteq Used(s)

Holes(s) == DOMAIN s \ Used(s)

Slot == Blocks \cup {None}

(* The number that stands for no block. *)
LEMMA NoneIsNoBlock == None \notin Blocks /\ None \in Slot
BY FileSystemAssumption DEF Blocks, None, RootBlock, Slot

(* Finite sets of places. *)
LEMMA PlacesFinite ==
    ASSUME NEW N \in Nat, NEW s \in [0..N - 1 -> Slot]
    PROVE  /\ IsFiniteSet(Used(s)) /\ IsFiniteSet(Holes(s))
           /\ Used(s) \in SUBSET (0..N - 1) /\ Holes(s) \in SUBSET (0..N - 1)
           /\ Cardinality(Used(s)) \in 0..N /\ Cardinality(Holes(s)) = N - Cardinality(Used(s))
<1>1. IsFiniteSet(0..N - 1) /\ Cardinality(0..N - 1) = N
    BY FS_Interval
<1>2. Used(s) \in SUBSET (0..N - 1) /\ Holes(s) \in SUBSET (0..N - 1)
    BY DEF Used, Holes
<1>3. /\ IsFiniteSet(Used(s)) /\ IsFiniteSet(Holes(s))
      /\ Cardinality(Used(s)) \in Nat /\ Cardinality(Holes(s)) \in Nat
      /\ Cardinality(Used(s)) <= N
    BY <1>1, <1>2, FS_Subset, FS_CardinalityType
<1>4. Used(s) \cup Holes(s) = 0..N - 1 /\ Used(s) \cap Holes(s) = {}
    BY DEF Used, Holes
<1>5. N = Cardinality(Used(s)) + Cardinality(Holes(s)) - Cardinality({})
    <2> HIDE DEF Used, Holes
    <2>1. QED
        BY <1>1, <1>3, <1>4, FS_Union
<1>6. QED
    BY <1>2, <1>3, <1>5, FS_EmptySet

\* t is s with some of its empty places taken by elements of q.
Filled(N, s, t, q) ==
    /\ t \in [0..N - 1 -> Slot]
    /\ \A j \in 0..N - 1 : s[j] # None => t[j] = s[j]
    /\ \A j \in 0..N - 1 : s[j] = None /\ t[j] # None => \E a \in 1..Len(q) : t[j] = q[a]
    /\ \A j, l \in 0..N - 1 : s[j] = None /\ s[l] = None /\ t[j] # None /\ t[j] = t[l] => j = l
    /\ Dense(s) => Dense(t)

(* file_resize puts different blocks into different empty places, from the left, and leaves *)
(* the used ones alone.                                                                     *)
LEMMA FillHolesProperties ==
    ASSUME NEW N \in Nat, NEW s \in [0..N - 1 -> Slot],
           NEW q \in Seq(Blocks), Different(q)
    PROVE  /\ Filled(N, s, FillHoles(s, q), q)
           /\ Len(q) >= N - Cardinality(Used(s)) => \A j \in 0..N - 1 : FillHoles(s, q)[j] # None
           /\ Used(s) = {} => \A j \in 0..N - 1 : j < Len(q) => FillHoles(s, q)[j] # None
<1> DEFINE H == Holes(s)
           Rank(j) == Cardinality({h \in H : h <= j})
           t == FillHoles(s, q)
<1>1. /\ Len(q) \in Nat /\ \A a \in 1..Len(q) : q[a] \in Blocks
      /\ DOMAIN s = 0..N - 1 /\ \A j \in 0..N - 1 : j \in Int
    OBVIOUS
<1>2. H \in SUBSET Int /\ IsFiniteSet(H) /\ Cardinality(H) = N - Cardinality(Used(s)) /\ Cardinality(H) \in Nat
    <2>1. /\ IsFiniteSet(Holes(s)) /\ Holes(s) \in SUBSET (0..N - 1)
          /\ Cardinality(Holes(s)) = N - Cardinality(Used(s))
        <3>1. s \in [0..N - 1 -> Slot]
            OBVIOUS
        <3>2. QED
            BY <3>1, PlacesFinite
    <2>2. QED
        BY <2>1, FS_CardinalityType
<1>3. \A j \in 0..N - 1 : j \in H <=> s[j] = None
    BY DEF Holes, Used
<1>4. \A j \in 0..N - 1 : {h \in 0..j : s[h] = None} = {h \in H : h <= j}
    BY DEF Holes, Used
<1>5. /\ \A j \in 0..N - 1 : Rank(j) \in Nat /\ Rank(j) <= Cardinality(H)
      /\ \A j \in H : Rank(j) >= 1
      /\ \A j \in Int, l \in H : j < l => Rank(j) < Rank(l)
    <2> HIDE DEF H
    <2>1. QED
        BY <1>2, RankProperties
<1>6. t = [j \in 0..N - 1 |-> IF s[j] = None /\ Rank(j) <= Len(q) THEN q[Rank(j)] ELSE s[j]]
    BY <1>1, <1>4 DEF FillHoles
<1> HIDE DEF t, H, Rank
<1>7. \A j \in 0..N - 1 : /\ s[j] # None => t[j] = s[j]
                          /\ s[j] = None /\ Rank(j) <= Len(q) => t[j] = q[Rank(j)]
                          /\ s[j] = None /\ ~(Rank(j) <= Len(q)) => t[j] = None
    BY <1>6
<1>8. \A j \in 0..N - 1 : s[j] = None /\ Rank(j) <= Len(q) => Rank(j) \in 1..Len(q)
    BY <1>1, <1>3, <1>5
<1>9. ASSUME NEW j \in 0..N - 1
      PROVE  /\ t[j] \in Slot
             /\ t[j] # None <=> s[j] # None \/ Rank(j) <= Len(q)
    BY <1>1, <1>7, <1>8, NoneIsNoBlock DEF Slot
<1>10. t \in [0..N - 1 -> Slot]
    BY <1>6, <1>9
<1>11. ASSUME NEW j \in 0..N - 1, NEW l \in 0..N - 1, s[j] = None, s[l] = None, t[j] # None, t[j] = t[l]
       PROVE  j = l
    <2>1. Rank(j) <= Len(q) /\ Rank(l) <= Len(q)
        BY <1>9, <1>11
    <2>2. Rank(j) = Rank(l)
        BY <1>7, <1>8, <1>11, <2>1 DEF Different
    <2>3. ~(j < l) /\ ~(l < j)
        <3>1. j \in H /\ l \in H /\ j \in Int /\ l \in Int
            BY <1>1, <1>3, <1>11
        <3>2. (j < l => Rank(j) < Rank(l)) /\ (l < j => Rank(l) < Rank(j))
            BY <1>5, <3>1
        <3>3. Rank(j) \in Nat /\ Rank(l) \in Nat
            BY <1>5
        <3>4. QED
            BY <2>2, <3>2, <3>3
    <2>4. QED
        BY <1>1, <2>3
<1>12. ASSUME Dense(s) PROVE Dense(t)
    <2>1. SUFFICES ASSUME NEW k \in Used(t), NEW j \in 0..k PROVE j \in Used(t)
        BY DEF Dense
    <2>2. k \in 0..N - 1 /\ t[k] # None /\ j \in 0..N - 1 /\ DOMAIN t = 0..N - 1
        BY <1>6 DEF Used
    <2>3. CASE s[k] # None
        <3>1. k \in Used(s)
            BY <1>1, <2>2, <2>3 DEF Used
        <3>2. s[j] # None
            BY <1>12, <3>1 DEF Dense, Used
        <3>3. QED
            BY <1>9, <2>2, <3>2 DEF Used
    <2>4. CASE s[k] = None
        <3>1. Rank(k) <= Len(q) /\ k \in H
            BY <1>3, <1>9, <2>2, <2>4
        <3>2. j = k \/ j < k
            BY <2>2
        <3>3. Rank(j) <= Rank(k)
            BY <1>1, <1>5, <2>2, <3>1, <3>2
        <3>4. Rank(j) <= Len(q)
            BY <1>1, <1>5, <2>2, <3>1, <3>3
        <3>5. QED
            BY <1>9, <2>2, <3>4 DEF Used
    <2>5. QED
        BY <2>3, <2>4
<1>13. ASSUME Len(q) >= N - Cardinality(Used(s)), NEW j \in 0..N - 1 PROVE t[j] # None
    <2>1. Rank(j) <= Len(q)
        BY <1>1, <1>2, <1>5, <1>13
    <2>2. QED
        BY <1>9, <2>1
<1>14. ASSUME Used(s) = {}, NEW j \in 0..N - 1, j < Len(q) PROVE t[j] # None
    <2>1. {h \in H : h <= j} = 0..j
        BY <1>3, <1>14 DEF Used, Holes, H
    <2>2. Rank(j) = j + 1
        <3>1. Cardinality(0..j) = j + 1
            BY FS_Interval
        <3>2. QED
            BY <2>1, <3>1 DEF Rank
    <2>3. QED
        BY <1>1, <1>9, <1>14, <2>2
<1>15. QED
    <2>1. \A j \in 0..N - 1 : s[j] = None /\ t[j] # None => \E a \in 1..Len(q) : t[j] = q[a]
        BY <1>7, <1>8, <1>9
    <2>2. QED
        BY <1>7, <1>10, <1>11, <1>12, <1>13, <1>14, <2>1 DEF t, Filled

(* If they are no more than the empty places, all of them get one. *)
LEMMA FillHolesPlaces ==
    ASSUME NEW N \in Nat, NEW s \in [0..N - 1 -> Slot], NEW q \in Seq(Blocks),
           Len(q) <= N - Cardinality(Used(s)), NEW a \in 1..Len(q)
    PROVE  \E j \in 0..N - 1 : FillHoles(s, q)[j] = q[a]
<1> DEFINE H == Holes(s)
           Rank(j) == Cardinality({h \in H : h <= j})
<1>1. H \in SUBSET (0..N - 1) /\ IsFiniteSet(H) /\ Cardinality(H) = N - Cardinality(Used(s))
    BY PlacesFinite
<1>2. Cardinality(H) \in Nat /\ Len(q) \in Nat /\ a \in Nat
    BY <1>1, FS_CardinalityType
<1>3. PICK j \in H : Rank(j) = a
    <2>1. a \in 1..Cardinality(H) /\ H \in SUBSET Int
        BY <1>1, <1>2
    <2> HIDE DEF H
    <2>2. QED
        BY <1>1, <2>1, RankReaches
<1>4. j \in 0..N - 1 /\ s[j] = None /\ {h \in 0..j : s[h] = None} = {h \in H : h <= j}
    BY <1>1 DEF Holes, Used
<1>5. FillHoles(s, q)[j] = IF s[j] = None /\ Rank(j) <= Len(q) THEN q[Rank(j)] ELSE s[j]
    BY <1>4 DEF FillHoles
<1>6. QED
    <2> HIDE DEF Rank
    <2>1. QED
        BY <1>2, <1>3, <1>4, <1>5

\* t is s without some of its blocks.
Emptied(N, s, t) ==
    /\ t \in [0..N - 1 -> Slot]
    /\ \A j \in 0..N - 1 : t[j] \in {s[j], None}
    /\ Dense(s) => Dense(t)

(* file_resize takes blocks from the right, as many as it is asked for. *)
LEMMA DropTopProperties ==
    ASSUME NEW N \in Nat, NEW s \in [0..N - 1 -> Slot], NEW n \in Nat
    PROVE  /\ Emptied(N, s, DropTop(s, n))
           /\ n = 0 => DropTop(s, n) = s
           /\ n >= Cardinality(Used(s)) => \A j \in 0..N - 1 : DropTop(s, n)[j] = None
<1> DEFINE Above(j) == {h \in Used(s) : h >= j}
           t == DropTop(s, n)
<1>1. DOMAIN s = 0..N - 1 /\ \A j \in 0..N - 1 : j \in Int
    OBVIOUS
<1>2. IsFiniteSet(Used(s)) /\ Used(s) \in SUBSET (0..N - 1) /\ Cardinality(Used(s)) \in Nat
    BY PlacesFinite, FS_CardinalityType
<1>3. ASSUME NEW j \in 0..N - 1
      PROVE  /\ IsFiniteSet(Above(j)) /\ Cardinality(Above(j)) \in Nat
             /\ Cardinality(Above(j)) <= Cardinality(Used(s))
             /\ j \in Used(s) => Cardinality(Above(j)) # 0
    <2>1. Above(j) \in SUBSET Used(s) /\ (j \in Used(s) => j \in Above(j))
        BY <1>1
    <2>2. /\ IsFiniteSet(Above(j)) /\ Cardinality(Above(j)) \in Nat
          /\ Cardinality(Above(j)) <= Cardinality(Used(s))
        BY <1>2, <2>1, FS_Subset, FS_CardinalityType
    <2>3. QED
        BY <2>1, <2>2, FS_EmptySet
<1>4. ASSUME NEW j \in 0..N - 1, NEW k \in 0..N - 1, j <= k
      PROVE  Cardinality(Above(k)) <= Cardinality(Above(j))
    <2>1. Above(k) \in SUBSET Above(j)
        BY <1>1, <1>2, <1>4
    <2>2. QED
        BY <1>3, <2>1, FS_Subset
<1>5. t = [j \in 0..N - 1 |-> IF Cardinality(Above(j)) <= n THEN None ELSE s[j]]
    BY <1>1 DEF DropTop
<1> HIDE DEF t, Above
<1>6. \A j \in 0..N - 1 : /\ t[j] \in {s[j], None} /\ t[j] \in Slot
                          /\ Cardinality(Above(j)) <= n => t[j] = None
                          /\ ~(Cardinality(Above(j)) <= n) => t[j] = s[j]
    BY <1>5, NoneIsNoBlock
<1>7. ASSUME Dense(s) PROVE Dense(t)
    <2>1. SUFFICES ASSUME NEW k \in Used(t), NEW j \in 0..k PROVE j \in Used(t)
        BY DEF Dense
    <2>2. k \in 0..N - 1 /\ t[k] # None /\ j \in 0..N - 1 /\ DOMAIN t = 0..N - 1 /\ j <= k
        BY <1>5 DEF Used
    <2>3. ~(Cardinality(Above(k)) <= n) /\ s[k] # None
        BY <1>6, <2>2
    <2>4. s[j] # None
        <3>1. k \in Used(s)
            BY <1>1, <2>2, <2>3 DEF Used
        <3>2. QED
            BY <1>7, <3>1 DEF Dense, Used
    <2>5. ~(Cardinality(Above(j)) <= n)
        BY <1>3, <1>4, <2>2, <2>3
    <2>6. QED
        BY <1>6, <2>2, <2>4, <2>5 DEF Used
<1>8. ASSUME n = 0 PROVE t = s
    <2>1. ASSUME NEW j \in 0..N - 1 PROVE t[j] = s[j]
        <3>1. CASE s[j] # None
            <4>1. j \in Used(s)
                BY <1>1, <3>1 DEF Used
            <4>2. QED
                BY <1>3, <1>6, <1>8, <4>1
        <3>2. CASE s[j] = None
            BY <1>6, <3>2
        <3>3. QED
            BY <3>1, <3>2
    <2>2. QED
        BY <1>5, <2>1
<1>9. ASSUME n >= Cardinality(Used(s)), NEW j \in 0..N - 1 PROVE t[j] = None
    BY <1>2, <1>3, <1>6, <1>9
<1>10. t \in [0..N - 1 -> Slot]
    BY <1>5, <1>6
<1>11. QED
    BY <1>6, <1>7, <1>8, <1>9, <1>10 DEF t, Emptied

----------------------------------------------------------------------------
(* Images *)

Entry == [name : Names \cup {".", ".."}, loc : Inodes]

Inode == [type : {File, Directory}, direct : [0..INODE_DIRECT_NUM - 1 -> Slot], indirect : Slot]

Sector == {Data, [kind |-> "unread"]} \cup {Index(s) : s \in [0..INDEX_NUM - 1 -> Slot]} \cup {Dir(c) : c \in Seq(Entry)}

Image == [inode_bitmap : [Inodes -> BOOLEAN], data_bitmap : [Blocks -> BOOLEAN],
          inode : [Inodes -> Inode], sector : [Blocks -> Sector]]

\* Where an inode can hold the number of a block.
Places == ({"direct"} \X (0..INODE_DIRECT_NUM - 1)) \cup ({"slot"} \X (0..INDEX_NUM - 1))
          \cup {<<"indirect", 0>>}

\* The block that inode i holds in place p, if any.
At(mem, i, p) == CASE p[1] = "direct" -> mem.inode[i].direct[p[2]]
                   [] p[1] = "slot"   -> Slots(mem, i)[p[2]]
                   [] OTHER           -> mem.inode[i].indirect

\* The directs and the slots of i are filled from the left, and there is an index block only
\* behind full directs.
DenseFile(mem, i) ==
    /\ Dense(mem.inode[i].direct) /\ Dense(Slots(mem, i))
    /\ mem.inode[i].indirect # None
         => /\ \A k \in 0..INODE_DIRECT_NUM - 1 : mem.inode[i].direct[k] # None
            /\ mem.sector[mem.inode[i].indirect].kind = "index"

\* Inode i holds no block twice, and none that is marked free.
HoldsOnce(mem, i) ==
    /\ \A p, r \in Places : At(mem, i, p) # None /\ At(mem, i, p) = At(mem, i, r) => p = r
    /\ \A p \in Places : At(mem, i, p) # None => mem.data_bitmap[At(mem, i, p)]

\* new is mem but for inode i, which took blocks that were free and gave up blocks of its own.
Resized(mem, new, i) ==
    /\ new \in Image
    /\ new.inode_bitmap = mem.inode_bitmap
    /\ \A j \in Inodes \ {i} : new.inode[j] = mem.inode[j]
    /\ new.inode[i].type = mem.inode[i].type
    /\ HoldsOnce(new, i) /\ DenseFile(new, i)
    /\ \A p \in Places : At(new, i, p) # None
         => ~mem.data_bitmap[At(new, i, p)] \/ \E r \in Places : At(mem, i, r) = At(new, i, p)
    /\ \A b \in Blocks : mem.data_bitmap[b] /\ (\A r \in Places : At(mem, i, r) # b)
         => new.data_bitmap[b] /\ new.sector[b] = mem.sector[b]

\* A block marked in new is one of inode i, or was marked before and is not one it gave up.
Accounts(mem, new, i) ==
    \A b \in Blocks : new.data_bitmap[b]
        => \/ \E p \in Places : At(new, i, p) = b
           \/ mem.data_bitmap[b] /\ \A r \in Places : At(mem, i, r) # b

(* What an image is made of. *)
LEMMA ImageTyped ==
    ASSUME NEW mem \in Image, NEW i \in Inodes
    PROVE  /\ mem.inode_bitmap \in [Inodes -> BOOLEAN] /\ mem.data_bitmap \in [Blocks -> BOOLEAN]
           /\ mem.inode \in [Inodes -> Inode] /\ mem.sector \in [Blocks -> Sector]
           /\ mem.inode[i].direct \in [0..INODE_DIRECT_NUM - 1 -> Slot]
           /\ mem.inode[i].indirect \in Slot /\ mem.inode[i].type \in {File, Directory}
           /\ Slots(mem, i) \in [0..INDEX_NUM - 1 -> Slot]
           /\ mem = [inode_bitmap |-> mem.inode_bitmap, data_bitmap |-> mem.data_bitmap,
                     inode |-> mem.inode, sector |-> mem.sector]
<1>1. /\ mem.inode_bitmap \in [Inodes -> BOOLEAN] /\ mem.data_bitmap \in [Blocks -> BOOLEAN]
      /\ mem.inode \in [Inodes -> Inode] /\ mem.sector \in [Blocks -> Sector]
      /\ mem = [inode_bitmap |-> mem.inode_bitmap, data_bitmap |-> mem.data_bitmap,
                inode |-> mem.inode, sector |-> mem.sector]
    BY DEF Image
<1>2. mem.inode[i] \in Inode
    BY <1>1
<1>3. /\ mem.inode[i].direct \in [0..INODE_DIRECT_NUM - 1 -> Slot]
      /\ mem.inode[i].indirect \in Slot /\ mem.inode[i].type \in {File, Directory}
    BY <1>2 DEF Inode
<1>4. NoSlots \in [0..INDEX_NUM - 1 -> Slot]
    BY DEF NoSlots, Slot
<1>5. ASSUME NEW b \in Blocks, mem.sector[b].kind = "index"
      PROVE  mem.sector[b].slot \in [0..INDEX_NUM - 1 -> Slot]
    <2>1. mem.sector[b] \in Sector
        BY <1>1
    <2>2. QED
        BY <1>5, <2>1 DEF Sector, Data, Index, Dir
<1>6. Slots(mem, i) \in [0..INDEX_NUM - 1 -> Slot]
    BY <1>3, <1>4, <1>5 DEF Slots, Slot
<1>7. QED
    BY <1>1, <1>3, <1>6

(* Giving one value to a set of bits, or of sectors. *)
LEMMA MarkedTyped ==
    ASSUME NEW X, NEW V, NEW f \in [X -> V], NEW S, NEW v \in V
    PROVE  Marked(f, S, v) \in [X -> V]
BY DEF Marked

Assigned(mem, bits, i, d, x, content) ==
    [mem EXCEPT !.data_bitmap = bits, !.inode[i].direct = d, !.inode[i].indirect = x, !.sector = content]

WithPlaces(ino, i, d, x) == [ino EXCEPT ![i].direct = d, ![i].indirect = x]

(* Assigning to the directs and the index block of an inode. *)
LEMMA WithPlacesProperties ==
    ASSUME NEW ino \in [Inodes -> Inode], NEW i \in Inodes,
           NEW d \in [0..INODE_DIRECT_NUM - 1 -> Slot], NEW x \in Slot
    PROVE  /\ WithPlaces(ino, i, d, x) \in [Inodes -> Inode]
           /\ WithPlaces(ino, i, d, x)[i].type = ino[i].type
           /\ WithPlaces(ino, i, d, x)[i].direct = d
           /\ WithPlaces(ino, i, d, x)[i].indirect = x
           /\ \A j \in Inodes \ {i} : WithPlaces(ino, i, d, x)[j] = ino[j]
<1> DEFINE new == WithPlaces(ino, i, d, x)
<1>1. new[i] = [type |-> ino[i].type, direct |-> d, indirect |-> x]
    <2>1. new[i] = [ino[i] EXCEPT !.direct = d, !.indirect = x]
        BY DEF WithPlaces
    <2>2. ino[i] \in Inode
        OBVIOUS
    <2>3. QED
        BY <2>1, <2>2 DEF Inode
<1>2. \A j \in Inodes \ {i} : new[j] = ino[j]
    BY DEF WithPlaces
<1>3. new[i] \in Inode
    <2>1. ino[i] \in Inode
        OBVIOUS
    <2>2. QED
        BY <1>1, <2>1 DEF Inode
<1>4. new \in [Inodes -> Inode]
    <2>1. new = [j \in Inodes |-> new[j]]
        BY DEF WithPlaces
    <2>2. QED
        BY <1>2, <1>3, <2>1
<1>5. QED
    BY <1>1, <1>2, <1>4

(* Assigning to several members of an image. *)
LEMMA AssignedMembers ==
    ASSUME NEW mem \in Image, NEW i \in Inodes, NEW bits, NEW d, NEW x, NEW content
    PROVE  /\ Assigned(mem, bits, i, d, x, content).inode_bitmap = mem.inode_bitmap
           /\ Assigned(mem, bits, i, d, x, content).data_bitmap = bits
           /\ Assigned(mem, bits, i, d, x, content).sector = content
           /\ Assigned(mem, bits, i, d, x, content).inode = WithPlaces(mem.inode, i, d, x)
           /\ Assigned(mem, bits, i, d, x, content)
                = [inode_bitmap |-> mem.inode_bitmap, data_bitmap |-> bits,
                   inode |-> WithPlaces(mem.inode, i, d, x), sector |-> content]
<1> DEFINE new == Assigned(mem, bits, i, d, x, content)
           DB  == [Blocks -> BOOLEAN]
           SE  == [Blocks -> Sector]
           IB  == [Inodes -> BOOLEAN]
           IN1 == [Inodes -> Inode]
           ino == WithPlaces(mem.inode, i, d, x)
<1>1. mem \in [inode_bitmap : IB, data_bitmap : DB, inode : IN1, sector : SE]
    BY DEF Image
<1>2. IN1 = [Inodes -> Inode]
    OBVIOUS
<1> HIDE DEF DB, SE, IB, IN1
<1>3. new = [mem EXCEPT !.data_bitmap = bits, !.inode = ino, !.sector = content]
    BY <1>1, <1>2 DEF WithPlaces, Assigned
<1> HIDE DEF new, ino
<1>4. /\ new.inode_bitmap = mem.inode_bitmap /\ new.data_bitmap = bits /\ new.sector = content
      /\ new.inode = ino
    BY <1>1, <1>3
<1>5. new \in [inode_bitmap : IB, data_bitmap : {bits}, inode : {ino}, sector : {content}]
    BY <1>1, <1>3
<1>6. new = [inode_bitmap |-> new.inode_bitmap, data_bitmap |-> new.data_bitmap,
             inode |-> new.inode, sector |-> new.sector]
    BY <1>5
<1>7. QED
    BY <1>4, <1>6 DEF new, ino

(* The image remains one. *)
LEMMA AssignedTyped ==
    ASSUME NEW mem \in Image, NEW i \in Inodes, NEW bits \in [Blocks -> BOOLEAN],
           NEW d \in [0..INODE_DIRECT_NUM - 1 -> Slot], NEW x \in Slot, NEW content \in [Blocks -> Sector]
    PROVE  /\ Assigned(mem, bits, i, d, x, content) \in Image
           /\ Assigned(mem, bits, i, d, x, content).inode[i].type = mem.inode[i].type
           /\ Assigned(mem, bits, i, d, x, content).inode[i].direct = d
           /\ Assigned(mem, bits, i, d, x, content).inode[i].indirect = x
           /\ \A j \in Inodes \ {i} : Assigned(mem, bits, i, d, x, content).inode[j] = mem.inode[j]
<1> DEFINE new == Assigned(mem, bits, i, d, x, content)
           old == mem.inode
<1>1. mem.inode_bitmap \in [Inodes -> BOOLEAN] /\ old \in [Inodes -> Inode]
    BY DEF Image
<1>2. /\ WithPlaces(old, i, d, x) \in [Inodes -> Inode]
      /\ WithPlaces(old, i, d, x)[i].type = old[i].type
      /\ WithPlaces(old, i, d, x)[i].direct = d
      /\ WithPlaces(old, i, d, x)[i].indirect = x
      /\ \A j \in Inodes \ {i} : WithPlaces(old, i, d, x)[j] = old[j]
    <2> HIDE DEF old
    <2>1. QED
        BY <1>1, WithPlacesProperties
<1>3. /\ new.inode = WithPlaces(old, i, d, x)
      /\ new = [inode_bitmap |-> mem.inode_bitmap, data_bitmap |-> bits,
                inode |-> WithPlaces(old, i, d, x), sector |-> content]
    BY AssignedMembers
<1> DEFINE ino == WithPlaces(old, i, d, x)
           bit == mem.inode_bitmap
<1>4. new \in Image
    <2>1. new = [inode_bitmap |-> bit, data_bitmap |-> bits, inode |-> ino, sector |-> content]
        BY <1>3
    <2>2. bit \in [Inodes -> BOOLEAN] /\ ino \in [Inodes -> Inode]
        BY <1>1, <1>2
    <2> HIDE DEF bit, ino, new
    <2>3. QED
        BY <2>1, <2>2 DEF Image
<1>5. QED
    <2> HIDE DEF new
    <2>1. /\ new \in Image /\ new.inode[i].type = old[i].type /\ new.inode[i].direct = d
          /\ new.inode[i].indirect = x /\ \A j \in Inodes \ {i} : new.inode[j] = old[j]
        BY <1>2, <1>3, <1>4
    <2>2. QED
        BY <2>1 DEF new

(* What is read through the index block. *)
LEMMA SlotsOfIndex ==
    ASSUME NEW mem, NEW i, NEW x, NEW s, mem.inode[i].indirect = x, x # None, mem.sector[x] = Index(s)
    PROVE  Slots(mem, i) = s
BY DEF Slots, Index

(* The places one by one. *)
LEMMA AtDirect ==
    ASSUME NEW mem, NEW i, NEW k \in 0..INODE_DIRECT_NUM - 1
    PROVE  <<"direct", k>> \in Places /\ At(mem, i, <<"direct", k>>) = mem.inode[i].direct[k]
BY DEF Places, At

(* In the index block. *)
LEMMA AtSlot ==
    ASSUME NEW mem, NEW i, NEW k \in 0..INDEX_NUM - 1
    PROVE  <<"slot", k>> \in Places /\ At(mem, i, <<"slot", k>>) = Slots(mem, i)[k]
BY DEF Places, At

(* The index block itself. *)
LEMMA AtIndirect ==
    ASSUME NEW mem, NEW i
    PROVE  <<"indirect", 0>> \in Places /\ At(mem, i, <<"indirect", 0>>) = mem.inode[i].indirect
BY DEF Places, At

(* There are no other places. *)
LEMMA PlacesByKind ==
    ASSUME NEW p \in Places
    PROVE  \/ \E k \in 0..INODE_DIRECT_NUM - 1 : p = <<"direct", k>>
           \/ \E k \in 0..INDEX_NUM - 1 : p = <<"slot", k>>
           \/ p = <<"indirect", 0>>
BY DEF Places

(* A place holds a block or nothing. *)
LEMMA AtTyped ==
    ASSUME NEW mem \in Image, NEW i \in Inodes, NEW p \in Places
    PROVE  At(mem, i, p) \in Slot
<1>1. ASSUME NEW k \in 0..INODE_DIRECT_NUM - 1, p = <<"direct", k>> PROVE At(mem, i, p) \in Slot
    <2>1. At(mem, i, p) = mem.inode[i].direct[k]
        BY <1>1, AtDirect
    <2>2. mem.inode[i].direct \in [0..INODE_DIRECT_NUM - 1 -> Slot]
        BY ImageTyped
    <2>3. QED
        BY <2>1, <2>2
<1>2. ASSUME NEW k \in 0..INDEX_NUM - 1, p = <<"slot", k>> PROVE At(mem, i, p) \in Slot
    <2>1. At(mem, i, p) = Slots(mem, i)[k]
        BY <1>2, AtSlot
    <2>2. Slots(mem, i) \in [0..INDEX_NUM - 1 -> Slot]
        BY ImageTyped
    <2>3. QED
        BY <2>1, <2>2
<1>3. CASE p = <<"indirect", 0>>
    BY <1>3, AtIndirect, ImageTyped
<1>4. QED
    BY <1>1, <1>2, <1>3, PlacesByKind

(* Two images that agree on the places of an inode one by one agree on all of them. *)
LEMMA PlacesAgree ==
    ASSUME NEW mem, NEW new, NEW i, NEW j,
           \A k \in 0..INODE_DIRECT_NUM - 1 : new.inode[j].direct[k] \in {mem.inode[i].direct[k], None},
           \A k \in 0..INDEX_NUM - 1 : Slots(new, j)[k] \in {Slots(mem, i)[k], None},
           new.inode[j].indirect \in {mem.inode[i].indirect, None}
    PROVE  \A p \in Places : At(new, j, p) \in {At(mem, i, p), None}
<1> SUFFICES ASSUME NEW p \in Places PROVE At(new, j, p) \in {At(mem, i, p), None}
    OBVIOUS
<1>1. ASSUME NEW k \in 0..INODE_DIRECT_NUM - 1, p = <<"direct", k>> PROVE At(new, j, p) \in {At(mem, i, p), None}
    <2>1. At(new, j, p) = new.inode[j].direct[k] /\ At(mem, i, p) = mem.inode[i].direct[k]
        BY <1>1 DEF At
    <2>2. QED
        BY <2>1
<1>2. ASSUME NEW k \in 0..INDEX_NUM - 1, p = <<"slot", k>> PROVE At(new, j, p) \in {At(mem, i, p), None}
    <2>1. At(new, j, p) = Slots(new, j)[k] /\ At(mem, i, p) = Slots(mem, i)[k]
        BY <1>2, AtSlot
    <2>2. QED
        BY <2>1
<1>3. CASE p = <<"indirect", 0>>
    BY <1>3, AtIndirect
<1>4. QED
    BY <1>1, <1>2, <1>3, PlacesByKind

----------------------------------------------------------------------------
(* file_resize *)

(* Facts about the constants. *)
LEMMA ConstantsTyped ==
    /\ INODE_NUM \in Nat /\ INODE_NUM > 0 /\ INODE_DIRECT_NUM \in Nat /\ INODE_DIRECT_NUM > 0
    /\ INDEX_NUM \in Nat /\ INDEX_NUM > 0
    /\ None \notin Blocks /\ Blocks \in SUBSET Int /\ IsFiniteSet(Blocks) /\ RootBlock \in Blocks
    /\ 0 \in Inodes /\ Inodes \in SUBSET Int /\ IsFiniteSet(Inodes)
<1>1. /\ INODE_NUM \in Nat /\ INODE_NUM > 0 /\ INODE_DIRECT_NUM \in Nat /\ INODE_DIRECT_NUM > 0
      /\ INDEX_NUM \in Nat /\ INDEX_NUM > 0 /\ LAST_BLOCK \in Nat /\ LAST_BLOCK >= 7
    BY FileSystemAssumption DEF RootBlock
<1>2. /\ None \notin Blocks /\ Blocks \in SUBSET Int /\ RootBlock \in Blocks
      /\ 0 \in Inodes /\ Inodes \in SUBSET Int
    BY <1>1 DEF Blocks, Inodes, None, RootBlock
<1>3. IsFiniteSet(Blocks) /\ IsFiniteSet(Inodes)
    BY <1>1, FS_Interval DEF Blocks, Inodes, RootBlock
<1>4. QED
    BY <1>1, <1>2, <1>3

(* A file that gives up blocks marks exactly those free that it holds no longer. *)
LEMMA ShrinkResizes ==
    ASSUME NEW mem \in Image, NEW i \in Inodes, HoldsOnce(mem, i), DenseFile(mem, i),
           NEW n \in Nat
    PROVE  /\ Resized(mem, Shrink(mem, i, n), i)
           /\ Accounts(mem, Shrink(mem, i, n), i)
           /\ Shrink(mem, i, n).inode[i].direct = DirectLeft(mem, i, n)
           /\ Shrink(mem, i, n).inode[i].indirect = IF IndexGoes(mem, i, n) THEN None ELSE mem.inode[i].indirect
<1> DEFINE D    == mem.inode[i].direct
           S    == Slots(mem, i)
           x    == mem.inode[i].indirect
           used == Cardinality(Used(S))
           goes == IndexGoes(mem, i, n)
           DL   == DirectLeft(mem, i, n)
           SL   == SlotsLeft(mem, i, n)
           R    == Released(mem, i, n)
           y    == IF goes THEN None ELSE x
           bits == Marked(mem.data_bitmap, R, FALSE)
           cont == IF x = None THEN mem.sector ELSE [mem.sector EXCEPT ![x] = Index(SL)]
           new  == Shrink(mem, i, n)
<1>1. /\ D \in [0..INODE_DIRECT_NUM - 1 -> Slot] /\ S \in [0..INDEX_NUM - 1 -> Slot] /\ x \in Slot
      /\ mem.data_bitmap \in [Blocks -> BOOLEAN] /\ mem.sector \in [Blocks -> Sector]
      /\ mem.inode \in [Inodes -> Inode]
      /\ INODE_DIRECT_NUM \in Nat /\ INDEX_NUM \in Nat /\ None \notin Blocks
    BY ImageTyped, ConstantsTyped
<1>2. used \in Nat
    <2>1. used \in 0..INDEX_NUM
        BY <1>1, PlacesFinite
    <2>2. QED
        BY <1>1, <2>1
<1>3. Emptied(INDEX_NUM, S, SL) /\ (n > used => \A k \in 0..INDEX_NUM - 1 : SL[k] = None)
    <2> DEFINE less == Min({n, used})
    <2>1. less \in Nat /\ (n > used => less >= used)
        BY <1>2, MinMaxOfTwo
    <2>2. SL = DropTop(S, less)
        BY DEF SlotsLeft
    <2> HIDE DEF less, S
    <2>3. Emptied(INDEX_NUM, S, DropTop(S, less))
          /\ (less >= used => \A k \in 0..INDEX_NUM - 1 : DropTop(S, less)[k] = None)
        BY <1>1, <2>1, DropTopProperties
    <2> HIDE DEF SL, used
    <2>4. QED
        BY <2>1, <2>2, <2>3
<1>4. Emptied(INODE_DIRECT_NUM, D, DL) /\ (n <= used => DL = D)
    <2> DEFINE less == Max({0, n - used})
    <2>1. less \in Nat /\ (n <= used => less = 0)
        BY <1>2, MinMaxOfTwo
    <2>2. DL = DropTop(D, less)
        BY DEF DirectLeft
    <2> HIDE DEF less, D
    <2>3. Emptied(INODE_DIRECT_NUM, D, DropTop(D, less)) /\ (less = 0 => DropTop(D, less) = D)
        BY <1>1, <2>1, DropTopProperties
    <2> HIDE DEF DL, used
    <2>4. QED
        BY <2>1, <2>2, <2>3
<1>E. /\ SL \in [0..INDEX_NUM - 1 -> Slot] /\ \A k \in 0..INDEX_NUM - 1 : SL[k] \in {S[k], None}
      /\ DL \in [0..INODE_DIRECT_NUM - 1 -> Slot]
      /\ \A k \in 0..INODE_DIRECT_NUM - 1 : DL[k] \in {D[k], None}
      /\ Dense(SL) /\ Dense(DL)
    <2> HIDE DEF SL, DL
    <2>1. QED
        BY <1>3, <1>4 DEF Emptied, DenseFile
<1>5. goes <=> x # None /\ n > used
    BY DEF IndexGoes
<1>6. /\ new = Assigned(mem, bits, i, DL, y, cont)
      /\ new.inode_bitmap = mem.inode_bitmap /\ new.data_bitmap = bits
      /\ new.inode = WithPlaces(mem.inode, i, DL, y) /\ new.sector = cont
    <2>1. new = Assigned(mem, bits, i, DL, y, cont)
        BY DEF Shrink, Image, Assigned
    <2> HIDE DEF D, S, x, used, goes, DL, SL, R, y, bits, cont, new
    <2>2. QED
        BY <2>1, AssignedMembers
<1>R. R = (Range(S) \ Range(SL)) \cup (Range(D) \ Range(DL)) \cup (IF goes THEN {x} ELSE {})
    BY DEF Released
<1> HIDE DEF D, S, x, used, goes, DL, SL, R, new
<1>7. /\ y = IF goes THEN None ELSE x
      /\ y \in Slot
      /\ bits = Marked(mem.data_bitmap, R, FALSE) /\ bits \in [Blocks -> BOOLEAN]
      /\ cont = IF x = None THEN mem.sector ELSE [mem.sector EXCEPT ![x] = Index(SL)]
      /\ cont \in [Blocks -> Sector]
    <2>1. y \in Slot
        BY <1>1, NoneIsNoBlock
    <2>2. bits \in [Blocks -> BOOLEAN]
        BY <1>1, MarkedTyped
    <2>3. Index(SL) \in Sector
        BY <1>E DEF Sector
    <2>4. cont \in [Blocks -> Sector]
        BY <1>1, <2>3
    <2>5. QED
        BY <2>1, <2>2, <2>4
<1>B. \A b \in Blocks : new.data_bitmap[b] <=> b \notin R /\ mem.data_bitmap[b]
    BY <1>1, <1>6, <1>7 DEF Marked
<1> HIDE DEF y, bits, cont
<1>8. /\ new \in Image
      /\ new.inode[i].type = mem.inode[i].type /\ new.inode[i].direct = DL
      /\ new.inode[i].indirect = y
      /\ \A j \in Inodes \ {i} : new.inode[j] = mem.inode[j]
    <2> DEFINE a == Assigned(mem, bits, i, DL, y, cont)
    <2>1. /\ a \in Image
          /\ a.inode[i].type = mem.inode[i].type /\ a.inode[i].direct = DL
          /\ a.inode[i].indirect = y
          /\ \A j \in Inodes \ {i} : a.inode[j] = mem.inode[j]
        <3>1. /\ bits \in [Blocks -> BOOLEAN] /\ DL \in [0..INODE_DIRECT_NUM - 1 -> Slot]
              /\ y \in Slot /\ cont \in [Blocks -> Sector]
            BY <1>E, <1>7
        <3>2. QED
            BY <3>1, AssignedTyped
    <2>2. new = a
        BY <1>6
    <2> HIDE DEF a
    <2>3. QED
        BY <2>1, <2>2
<1>9. /\ Slots(new, i) = IF x = None \/ goes THEN NoSlots ELSE SL
      /\ x # None /\ ~goes => new.sector[x] = Index(SL)
    BY <1>1, <1>6, <1>7, <1>8 DEF Slots, Index, Slot
<1>10. x = None => S = NoSlots
    BY DEF Slots, x, S
<1>11. \A k \in 0..INDEX_NUM - 1 : Slots(new, i)[k] \in {S[k], None}
    BY <1>E, <1>9 DEF NoSlots
<1>12. \A p \in Places : At(new, i, p) \in {At(mem, i, p), None}
    <2>1. \A k \in 0..INODE_DIRECT_NUM - 1 : new.inode[i].direct[k] \in {mem.inode[i].direct[k], None}
        BY <1>E, <1>4, <1>8 DEF D
    <2>2. new.inode[i].indirect \in {mem.inode[i].indirect, None}
        BY <1>7, <1>8 DEF x
    <2>3. QED
        BY <1>11, <2>1, <2>2, PlacesAgree DEF S
<1>13. ASSUME NEW p \in Places, At(new, i, p) # None
       PROVE  At(new, i, p) = At(mem, i, p) /\ At(new, i, p) \in Blocks /\ At(new, i, p) \notin R
    <2>1. At(new, i, p) = At(mem, i, p) /\ At(new, i, p) \in Blocks
        BY <1>12, <1>13, AtTyped DEF Slot
    <2> DEFINE b == At(new, i, p)
    <2>2. \A r \in Places : At(mem, i, r) = b => r = p
        BY <1>13, <2>1 DEF HoldsOnce
    <2>3. SUFFICES ASSUME b \in R PROVE FALSE
        BY <2>1
    <2>4. CASE b \in Range(S) /\ b \notin Range(SL)
        <3>1. PICK k \in 0..INDEX_NUM - 1 : S[k] = b
            BY <1>1, <2>4 DEF Range
        <3>2. p = <<"slot", k>>
            BY <2>2, <3>1, AtSlot DEF S
        <3>3. b = Slots(new, i)[k]
            BY <3>2, AtSlot
        <3>4. Slots(new, i) = SL
            BY <1>9, <1>13, <3>3 DEF NoSlots
        <3>5. SL[k] \in Range(SL)
            BY <1>E DEF Range
        <3>6. QED
            BY <2>4, <3>3, <3>4, <3>5
    <2>5. CASE b \in Range(D) /\ b \notin Range(DL)
        <3>1. PICK k \in 0..INODE_DIRECT_NUM - 1 : D[k] = b
            BY <1>1, <2>5 DEF Range
        <3>2. p = <<"direct", k>>
            BY <2>2, <3>1, AtDirect DEF D
        <3>3. b = DL[k]
            BY <1>8, <3>2, AtDirect
        <3>4. QED
            BY <1>E, <1>4, <2>5, <3>3 DEF Range
    <2>6. CASE goes /\ b = x
        <3>1. p = <<"indirect", 0>>
            BY <2>2, <2>6, AtIndirect DEF x
        <3>2. QED
            BY <1>7, <1>8, <1>13, <2>6, <3>1, AtIndirect
    <2>7. QED
        BY <1>R, <2>3, <2>4, <2>5, <2>6
<1>14. HoldsOnce(new, i)
    <2>1. ASSUME NEW p \in Places, NEW r \in Places, At(new, i, p) # None, At(new, i, p) = At(new, i, r)
          PROVE  p = r
        BY <1>13, <2>1 DEF HoldsOnce
    <2>2. ASSUME NEW p \in Places, At(new, i, p) # None PROVE new.data_bitmap[At(new, i, p)]
        <3>1. mem.data_bitmap[At(new, i, p)]
            BY <1>13, <2>2 DEF HoldsOnce
        <3>2. QED
            BY <1>13, <1>B, <2>2, <3>1
    <2>3. QED
        BY <2>1, <2>2 DEF HoldsOnce
<1>15. DenseFile(new, i)
    <2>1. Dense(Slots(new, i))
        <3>1. Dense(NoSlots)
            BY DEF Dense, Used, NoSlots
        <3>2. QED
            BY <1>E, <1>9, <3>1
    <2>2. ASSUME new.inode[i].indirect # None
          PROVE  /\ \A k \in 0..INODE_DIRECT_NUM - 1 : new.inode[i].direct[k] # None
                 /\ new.sector[new.inode[i].indirect].kind = "index"
        <3>1. x # None /\ ~goes /\ new.inode[i].indirect = x
            BY <1>7, <1>8, <2>2
        <3>2. new.sector[x].kind = "index"
            BY <1>9, <3>1 DEF Index
        <3>3. DL = D
            <4>1. n <= used
                BY <1>2, <1>5, <3>1
            <4>2. QED
                BY <1>E, <1>4, <4>1
        <3>4. \A k \in 0..INODE_DIRECT_NUM - 1 : D[k] # None
            BY <3>1 DEF DenseFile, D, x
        <3>5. QED
            BY <1>8, <3>1, <3>2, <3>3, <3>4
    <2>3. QED
        BY <1>E, <1>4, <1>8, <2>1, <2>2 DEF DenseFile
<1>16. ASSUME NEW b \in Blocks, mem.data_bitmap[b], \A r \in Places : At(mem, i, r) # b
       PROVE  new.data_bitmap[b] /\ new.sector[b] = mem.sector[b]
    <2>1. b # x
        BY <1>16, AtIndirect DEF x
    <2>2. b \notin R
        <3>1. b \notin Range(S)
            <4>1. ASSUME NEW k \in 0..INDEX_NUM - 1 PROVE S[k] # b
                BY <1>16, AtSlot DEF S
            <4>2. QED
                BY <1>1, <4>1 DEF Range
        <3>2. b \notin Range(D)
            <4>1. ASSUME NEW k \in 0..INODE_DIRECT_NUM - 1 PROVE D[k] # b
                BY <1>16, AtDirect DEF D
            <4>2. QED
                BY <1>1, <4>1 DEF Range
        <3>3. QED
            BY <1>R, <2>1, <3>1, <3>2
    <2>3. new.data_bitmap[b]
        BY <1>16, <1>B, <2>2
    <2>4. new.sector[b] = mem.sector[b]
        BY <1>1, <1>6, <1>7, <2>1
    <2>5. QED
        BY <2>3, <2>4
<1>17. Resized(mem, new, i)
    BY <1>6, <1>8, <1>13, <1>14, <1>15, <1>16 DEF Resized
<1>18. Accounts(mem, new, i)
    <2> SUFFICES ASSUME NEW b \in Blocks, new.data_bitmap[b], NEW r \in Places, At(mem, i, r) = b
                 PROVE  \E p \in Places : At(new, i, p) = b
        BY <1>B DEF Accounts
    <2>1. b \notin R /\ b # None
        BY <1>B, ConstantsTyped
    <2>2. ASSUME NEW k \in 0..INODE_DIRECT_NUM - 1, r = <<"direct", k>>
          PROVE  \E p \in Places : At(new, i, p) = b
        <3>1. b = D[k]
            <4>1. At(mem, i, <<"direct", k>>) = D[k]
                BY DEF At, D
            <4>2. QED
                BY <2>2, <4>1
        <3>2. b \in Range(D)
            BY <1>1, <3>1 DEF Range
        <3>3. PICK l \in 0..INODE_DIRECT_NUM - 1 : DL[l] = b
            BY <1>E, <1>R, <2>1, <3>2 DEF Range
        <3>4. QED
            BY <1>8, <3>3, AtDirect
    <2>3. ASSUME NEW k \in 0..INDEX_NUM - 1, r = <<"slot", k>>
          PROVE  \E p \in Places : At(new, i, p) = b
        <3>1. b = S[k]
            <4>1. At(mem, i, <<"slot", k>>) = S[k]
                BY DEF At, S
            <4>2. QED
                BY <2>3, <4>1
        <3>2. b \in Range(S)
            BY <1>1, <3>1 DEF Range
        <3>3. PICK l \in 0..INDEX_NUM - 1 : SL[l] = b
            BY <1>E, <1>R, <2>1, <3>2 DEF Range
        <3>4. x # None /\ ~goes
            <4>1. x # None
                BY <1>10, <2>1, <3>1 DEF NoSlots
            <4>2. ~goes
                BY <1>3, <1>5, <2>1, <3>3
            <4>3. QED
                BY <4>1, <4>2
        <3>5. Slots(new, i) = SL
            BY <1>9, <3>4
        <3>6. QED
            BY <3>3, <3>5, AtSlot
    <2>4. ASSUME r = <<"indirect", 0>>
          PROVE  \E p \in Places : At(new, i, p) = b
        <3>1. b = x
            <4>1. At(mem, i, <<"indirect", 0>>) = x
                BY AtIndirect DEF x
            <4>2. QED
                BY <2>4, <4>1
        <3>2. new.inode[i].indirect = b
            BY <1>7, <1>8, <1>R, <2>1, <3>1
        <3>3. QED
            BY <3>2, AtIndirect
    <2>5. QED
        BY <2>2, <2>3, <2>4, PlacesByKind
<1>19. QED
    <2>1. new.inode[i].indirect = IF goes THEN None ELSE x
        BY <1>7, <1>8
    <2>2. QED
        BY <1>8, <1>17, <1>18, <2>1 DEF new, DL, goes, x

(* An inode that keeps what it has and takes blocks that were free. *)
LEMMA TakingResizes ==
    ASSUME NEW mem \in Image, NEW i \in Inodes, HoldsOnce(mem, i), NEW new \in Image,
           new.inode_bitmap = mem.inode_bitmap,
           \A j \in Inodes \ {i} : new.inode[j] = mem.inode[j],
           new.inode[i].type = mem.inode[i].type,
           \A p \in Places : At(mem, i, p) # None => At(new, i, p) = At(mem, i, p),
           \A p \in Places : At(mem, i, p) = None /\ At(new, i, p) # None
               => ~mem.data_bitmap[At(new, i, p)] /\ new.data_bitmap[At(new, i, p)],
           \A p, r \in Places : /\ At(mem, i, p) = None /\ At(mem, i, r) = None
                                /\ At(new, i, p) # None /\ At(new, i, p) = At(new, i, r)
                                => p = r,
           \A b \in Blocks : mem.data_bitmap[b] => new.data_bitmap[b],
           \A b \in Blocks : mem.data_bitmap[b] /\ (\A r \in Places : At(mem, i, r) # b)
               => new.sector[b] = mem.sector[b],
           DenseFile(new, i)
    PROVE  Resized(mem, new, i)
<1>1. \A p \in Places : At(mem, i, p) \in Slot /\ At(new, i, p) \in Slot
    BY AtTyped
<1>2. ASSUME NEW p \in Places, At(new, i, p) # None PROVE new.data_bitmap[At(new, i, p)]
    <2>1. CASE At(mem, i, p) = None
        BY <1>2, <2>1
    <2>2. CASE At(mem, i, p) # None
        <3>1. At(new, i, p) = At(mem, i, p) /\ At(mem, i, p) \in Blocks
            BY <1>1, <2>2 DEF Slot
        <3>2. mem.data_bitmap[At(mem, i, p)]
            BY <2>2 DEF HoldsOnce
        <3>3. QED
            BY <3>1, <3>2
    <2>3. QED
        BY <2>1, <2>2
<1>3. ASSUME NEW p \in Places, NEW r \in Places, At(mem, i, p) = None, At(mem, i, r) # None,
             At(new, i, p) # None
      PROVE  At(new, i, p) # At(new, i, r)
    <2>1. ~mem.data_bitmap[At(new, i, p)]
        BY <1>3
    <2>2. At(new, i, r) = At(mem, i, r) /\ mem.data_bitmap[At(mem, i, r)]
        BY <1>3 DEF HoldsOnce
    <2>3. QED
        BY <2>1, <2>2
<1>4. ASSUME NEW p \in Places, NEW r \in Places, At(new, i, p) # None, At(new, i, p) = At(new, i, r)
      PROVE  p = r
    <2>1. CASE At(mem, i, p) = None /\ At(mem, i, r) = None
        BY <1>4, <2>1
    <2>2. CASE At(mem, i, p) = None /\ At(mem, i, r) # None
        BY <1>3, <1>4, <2>2
    <2>3. CASE At(mem, i, p) # None /\ At(mem, i, r) = None
        BY <1>3, <1>4, <2>3
    <2>4. CASE At(mem, i, p) # None /\ At(mem, i, r) # None
        BY <1>4, <2>4 DEF HoldsOnce
    <2>5. QED
        BY <2>1, <2>2, <2>3, <2>4
<1>5. ASSUME NEW p \in Places, At(new, i, p) # None
      PROVE  ~mem.data_bitmap[At(new, i, p)] \/ \E r \in Places : At(mem, i, r) = At(new, i, p)
    BY <1>5
<1>6. HoldsOnce(new, i)
    BY <1>2, <1>4 DEF HoldsOnce
<1>7. QED
    BY <1>5, <1>6 DEF Resized

(* A stretch of a sequence of different blocks. *)
LEMMA Stretch ==
    ASSUME NEW S, NEW q \in Seq(S), Different(q),
           NEW f \in Nat \ {0}, NEW t \in Nat, f <= t + 1, t <= Len(q)
    PROVE  /\ SubSeq(q, f, t) \in Seq(S) /\ Len(SubSeq(q, f, t)) = t - f + 1
           /\ \A a \in 1..t - f + 1 : f + a - 1 \in 1..Len(q) /\ SubSeq(q, f, t)[a] = q[f + a - 1]
           /\ Different(SubSeq(q, f, t))
<1>1. Len(q) \in Nat /\ \A a \in 1..Len(q) : q[a] \in S
    BY ElementOfSeq, LenProperties
<1>2. \A a \in f..t : a \in 1..Len(q)
    BY <1>1
<1>3. /\ SubSeq(q, f, t) \in Seq(S) /\ Len(SubSeq(q, f, t)) = (IF f <= t THEN t - f + 1 ELSE 0)
      /\ \A a \in 1..t - f + 1 : SubSeq(q, f, t)[a] = q[f + a - 1]
    BY <1>1, <1>2, SubSeqProperties
<1>4. (IF f <= t THEN t - f + 1 ELSE 0) = t - f + 1
    OBVIOUS
<1>5. \A a \in 1..t - f + 1 : f + a - 1 \in 1..Len(q)
    BY <1>1
<1>6. \A a, b \in 1..t - f + 1 : f + a - 1 = f + b - 1 => a = b
    OBVIOUS
<1>7. QED
    BY <1>3, <1>4, <1>5, <1>6 DEF Different

(* Nothing to put in. *)
LEMMA FillHolesWithNothing ==
    ASSUME NEW N \in Nat, NEW s \in [0..N - 1 -> Slot]
    PROVE  FillHoles(s, <<>>) = s
<1> DEFINE t == FillHoles(s, <<>>)
<1>1. Filled(N, s, t, <<>>)
    <2>1. <<>> \in Seq(Blocks) /\ Different(<<>>)
        BY DEF Different
    <2>2. QED
        BY <2>1, FillHolesProperties
<1> HIDE DEF t
<1>2. ~ \E a \in 1..Len(<<>>) : TRUE
    OBVIOUS
<1>3. t \in [0..N - 1 -> Slot] /\ \A j \in 0..N - 1 : t[j] = s[j]
    BY <1>1, <1>2 DEF Filled
<1>4. t = s
    BY <1>3
<1>5. QED
    BY <1>4 DEF t

\* Different blocks that are free in mem and marked in bits.
Taken(mem, bits, q) ==
    q \in Seq(Blocks) /\ Different(q) /\ \A a \in 1..Len(q) : ~mem.data_bitmap[q[a]] /\ bits[q[a]]

\* Inode i can take the blocks q1 as directs and q2 as slots of the index block x, with bits
\* and cont as the bitmap and the sectors then.
MayTake(mem, i, q1, q2, x, bits, cont) ==
    /\ Taken(mem, bits, q1) /\ Taken(mem, bits, q2)
    /\ \A a \in 1..Len(q1), b \in 1..Len(q2) : q1[a] # q2[b]
    /\ x \in Slot
    /\ x # mem.inode[i].indirect
         => /\ mem.inode[i].indirect = None /\ ~mem.data_bitmap[x] /\ bits[x]
            /\ \A a \in 1..Len(q1) : q1[a] # x
            /\ \A a \in 1..Len(q2) : q2[a] # x
    /\ bits \in [Blocks -> BOOLEAN] /\ cont \in [Blocks -> Sector]
    /\ \A b \in Blocks : mem.data_bitmap[b] => bits[b]
    /\ \A b \in Blocks : mem.data_bitmap[b] /\ b # x => cont[b] = mem.sector[b]
    /\ x # None => /\ cont[x].kind = "index"
                   /\ \A k \in 0..INODE_DIRECT_NUM - 1 : FillHoles(mem.inode[i].direct, q1)[k] # None

\* Inode i has room for q1 and q2, and nothing is marked in bits but what was and what it takes.
AllPlaced(mem, i, q1, q2, x, bits) ==
    /\ Len(q1) <= INODE_DIRECT_NUM - Cardinality(Used(mem.inode[i].direct))
    /\ Len(q2) <= INDEX_NUM - Cardinality(Used(Slots(mem, i)))
    /\ \A b \in Blocks : bits[b] => mem.data_bitmap[b] \/ b \in ToSet(q1) \/ b \in ToSet(q2) \/ b = x

(* Blocks just taken. *)
LEMMA TakenBlocks ==
    ASSUME NEW mem, NEW bits, NEW q, Taken(mem, bits, q)
    PROVE  /\ q \in Seq(Blocks) /\ Different(q)
           /\ \A b \in ToSet(q) : b \in Blocks /\ ~mem.data_bitmap[b] /\ bits[b]
BY DEF Taken, ToSet

(* New blocks go into empty directs and slots, and one of them may become the index block. *)
LEMMA PlacingResizes ==
    ASSUME NEW mem \in Image, NEW i \in Inodes, HoldsOnce(mem, i), DenseFile(mem, i),
           NEW q1, NEW q2, NEW x, NEW bits, NEW cont, MayTake(mem, i, q1, q2, x, bits, cont),
           NEW new, new = Assigned(mem, bits, i, FillHoles(mem.inode[i].direct, q1), x, cont),
           Slots(new, i) = FillHoles(Slots(mem, i), q2)
    PROVE  /\ Resized(mem, new, i)
           /\ AllPlaced(mem, i, q1, q2, x, bits) => Accounts(mem, new, i)
<1> DEFINE D   == mem.inode[i].direct
           S   == Slots(mem, i)
           old == mem.inode[i].indirect
           D1  == FillHoles(D, q1)
           S1  == FillHoles(S, q2)
<1>1. /\ D \in [0..INODE_DIRECT_NUM - 1 -> Slot] /\ S \in [0..INDEX_NUM - 1 -> Slot] /\ old \in Slot
      /\ mem.inode \in [Inodes -> Inode]
      /\ INODE_DIRECT_NUM \in Nat /\ INDEX_NUM \in Nat /\ None \notin Blocks
    BY ImageTyped, ConstantsTyped
<1>2. Dense(D) /\ Dense(S)
    BY DEF DenseFile
<1>M. /\ q1 \in Seq(Blocks) /\ Different(q1) /\ q2 \in Seq(Blocks) /\ Different(q2) /\ x \in Slot
      /\ bits \in [Blocks -> BOOLEAN] /\ cont \in [Blocks -> Sector]
    BY DEF MayTake, Taken
<1>3. Filled(INODE_DIRECT_NUM, D, D1, q1)
    <2> HIDE DEF D
    <2>1. QED
        BY <1>1, <1>M, FillHolesProperties
<1>4. Filled(INDEX_NUM, S, S1, q2)
    <2> HIDE DEF S
    <2>1. QED
        BY <1>1, <1>M, FillHolesProperties
<1>F. D1 \in [0..INODE_DIRECT_NUM - 1 -> Slot] /\ S1 \in [0..INDEX_NUM - 1 -> Slot] /\ Dense(D1) /\ Dense(S1)
    BY <1>2, <1>3, <1>4 DEF Filled
<1>5. /\ new.inode_bitmap = mem.inode_bitmap /\ new.data_bitmap = bits /\ new.sector = cont
      /\ new.inode = WithPlaces(mem.inode, i, D1, x)
    BY AssignedMembers
<1>7. Slots(new, i) = S1
    OBVIOUS
<1> HIDE DEF D, S, old, D1, S1
<1>8. /\ new \in Image
      /\ new.inode[i].type = mem.inode[i].type /\ new.inode[i].direct = D1 /\ new.inode[i].indirect = x
      /\ \A j \in Inodes \ {i} : new.inode[j] = mem.inode[j]
    <2>1. new = Assigned(mem, bits, i, D1, x, cont)
        BY DEF D1, D
    <2>2. QED
        BY <1>F, <1>M, <2>1, AssignedTyped
<1>9. /\ \A k \in 0..INODE_DIRECT_NUM - 1 : /\ At(mem, i, <<"direct", k>>) = D[k]
                                            /\ At(new, i, <<"direct", k>>) = D1[k]
      /\ \A k \in 0..INDEX_NUM - 1 : /\ At(mem, i, <<"slot", k>>) = S[k]
                                     /\ At(new, i, <<"slot", k>>) = S1[k]
      /\ At(mem, i, <<"indirect", 0>>) = old /\ At(new, i, <<"indirect", 0>>) = x
    BY <1>7, <1>8 DEF At, D, S, old
<1>10. ASSUME NEW p \in Places, At(mem, i, p) # None PROVE At(new, i, p) = At(mem, i, p)
    <2>1. ASSUME NEW k \in 0..INODE_DIRECT_NUM - 1, p = <<"direct", k>> PROVE At(new, i, p) = At(mem, i, p)
        BY <1>3, <1>9, <1>10, <2>1 DEF Filled
    <2>2. ASSUME NEW k \in 0..INDEX_NUM - 1, p = <<"slot", k>> PROVE At(new, i, p) = At(mem, i, p)
        BY <1>4, <1>9, <1>10, <2>2 DEF Filled
    <2>3. ASSUME p = <<"indirect", 0>> PROVE At(new, i, p) = At(mem, i, p)
        BY <1>9, <1>10, <2>3 DEF old, MayTake
    <2>4. QED
        BY <2>1, <2>2, <2>3, PlacesByKind
<1> DEFINE Fresh(p) == At(mem, i, p) = None /\ At(new, i, p) # None
<1>11. ASSUME NEW p \in Places, Fresh(p)
       PROVE  \/ /\ \E k \in 0..INODE_DIRECT_NUM - 1 : p = <<"direct", k>>
                 /\ \E a \in 1..Len(q1) : At(new, i, p) = q1[a]
              \/ /\ \E k \in 0..INDEX_NUM - 1 : p = <<"slot", k>>
                 /\ \E a \in 1..Len(q2) : At(new, i, p) = q2[a]
              \/ p = <<"indirect", 0>> /\ At(new, i, p) = x /\ x # old
    <2>1. ASSUME NEW k \in 0..INODE_DIRECT_NUM - 1, p = <<"direct", k>>
          PROVE  \E a \in 1..Len(q1) : At(new, i, p) = q1[a]
        BY <1>3, <1>9, <1>11, <2>1 DEF Filled
    <2>2. ASSUME NEW k \in 0..INDEX_NUM - 1, p = <<"slot", k>>
          PROVE  \E a \in 1..Len(q2) : At(new, i, p) = q2[a]
        BY <1>4, <1>9, <1>11, <2>2 DEF Filled
    <2>3. ASSUME p = <<"indirect", 0>> PROVE At(new, i, p) = x /\ x # old
        BY <1>9, <1>11, <2>3
    <2>4. QED
        BY <2>1, <2>2, <2>3, PlacesByKind
<1>12. ASSUME NEW p \in Places, Fresh(p)
       PROVE  ~mem.data_bitmap[At(new, i, p)] /\ new.data_bitmap[At(new, i, p)]
    BY <1>5, <1>11, <1>12 DEF old, MayTake, Taken
<1>13. ASSUME NEW p \in Places, NEW r \in Places, Fresh(p), Fresh(r), At(new, i, p) = At(new, i, r)
       PROVE  p = r
    <2>1. ASSUME NEW k \in 0..INODE_DIRECT_NUM - 1, p = <<"direct", k>>,
                 NEW l \in 0..INODE_DIRECT_NUM - 1, r = <<"direct", l>>
          PROVE  p = r
        BY <1>3, <1>9, <1>13, <2>1 DEF Filled
    <2>2. ASSUME NEW k \in 0..INDEX_NUM - 1, p = <<"slot", k>>,
                 NEW l \in 0..INDEX_NUM - 1, r = <<"slot", l>>
          PROVE  p = r
        BY <1>4, <1>9, <1>13, <2>2 DEF Filled
    <2>3. QED
        BY <1>11, <1>13, <2>1, <2>2 DEF old, MayTake
<1>14. \A b \in Blocks : mem.data_bitmap[b] => new.data_bitmap[b]
    BY <1>5 DEF MayTake
<1>15. ASSUME NEW b \in Blocks, mem.data_bitmap[b], \A r \in Places : At(mem, i, r) # b
       PROVE  new.sector[b] = mem.sector[b]
    <2>1. b # x
        <3>1. b # old
            BY <1>15, AtIndirect DEF old
        <3>2. QED
            BY <1>15, <3>1 DEF old, MayTake
    <2>2. QED
        BY <1>5, <1>15, <2>1 DEF MayTake
<1>16. DenseFile(new, i)
    <2>1. Dense(new.inode[i].direct) /\ Dense(Slots(new, i))
        BY <1>F, <1>7, <1>8
    <2>2. ASSUME x # None
          PROVE  /\ \A k \in 0..INODE_DIRECT_NUM - 1 : new.inode[i].direct[k] # None
                 /\ new.sector[x].kind = "index"
        BY <1>5, <1>8, <2>2 DEF D1, D, MayTake
    <2>3. QED
        BY <1>8, <2>1, <2>2 DEF DenseFile
<1>17. Resized(mem, new, i)
    BY <1>5, <1>8, <1>10, <1>12, <1>13, <1>14, <1>15, <1>16, TakingResizes
<1>18. ASSUME AllPlaced(mem, i, q1, q2, x, bits) PROVE Accounts(mem, new, i)
    <2> SUFFICES ASSUME NEW b \in Blocks, bits[b]
                 PROVE  \/ \E p \in Places : At(new, i, p) = b
                        \/ mem.data_bitmap[b] /\ \A r \in Places : At(mem, i, r) # b
        BY <1>5 DEF Accounts
    <2>1. ASSUME b \in ToSet(q1) PROVE \E p \in Places : At(new, i, p) = b
        <3>1. PICK a \in 1..Len(q1) : q1[a] = b
            BY <2>1 DEF ToSet
        <3>2. Len(q1) <= INODE_DIRECT_NUM - Cardinality(Used(D))
            BY <1>18 DEF AllPlaced, D
        <3>3. PICK k \in 0..INODE_DIRECT_NUM - 1 : D1[k] = b
            <4>1. \E k \in 0..INODE_DIRECT_NUM - 1 : FillHoles(D, q1)[k] = q1[a]
                <5>1. INODE_DIRECT_NUM \in Nat /\ D \in [0..INODE_DIRECT_NUM - 1 -> Slot] /\ q1 \in Seq(Blocks)
                    BY <1>1, <1>M
                <5>2. QED
                    BY <3>2, <5>1, FillHolesPlaces
            <4>2. QED
                BY <3>1, <4>1 DEF D1
        <3>4. QED
            BY <1>9, <3>3, AtDirect
    <2>2. ASSUME b \in ToSet(q2) PROVE \E p \in Places : At(new, i, p) = b
        <3>1. PICK a \in 1..Len(q2) : q2[a] = b
            BY <2>2 DEF ToSet
        <3>2. Len(q2) <= INDEX_NUM - Cardinality(Used(S))
            BY <1>18 DEF AllPlaced, S
        <3>3. PICK k \in 0..INDEX_NUM - 1 : S1[k] = b
            <4>1. \E k \in 0..INDEX_NUM - 1 : FillHoles(S, q2)[k] = q2[a]
                <5>1. INDEX_NUM \in Nat /\ S \in [0..INDEX_NUM - 1 -> Slot] /\ q2 \in Seq(Blocks)
                    BY <1>1, <1>M
                <5>2. QED
                    BY <3>2, <5>1, FillHolesPlaces
            <4>2. QED
                BY <3>1, <4>1 DEF S1
        <3>4. QED
            BY <1>9, <3>3, AtSlot
    <2>3. ASSUME b = x PROVE \E p \in Places : At(new, i, p) = b
        BY <1>9, <2>3, AtIndirect
    <2>4. ASSUME NEW r \in Places, At(mem, i, r) = b PROVE \E p \in Places : At(new, i, p) = b
        BY <1>1, <1>10, <2>4
    <2>5. QED
        BY <1>18, <2>1, <2>2, <2>3, <2>4 DEF AllPlaced
<1>19. QED
    BY <1>17, <1>18

AssignedDirects(mem, bits, i, d, cont) ==
    [mem EXCEPT !.data_bitmap = bits, !.inode[i].direct = d, !.sector = cont]

(* Assigning to the directs alone. *)
LEMMA AssignedDirect ==
    ASSUME NEW mem \in Image, NEW i \in Inodes, NEW bits, NEW d, NEW cont
    PROVE  AssignedDirects(mem, bits, i, d, cont)
             = Assigned(mem, bits, i, d, mem.inode[i].indirect, cont)
<1> DEFINE DB == [Blocks -> BOOLEAN]
           SE == [Blocks -> Sector]
           IB == [Inodes -> BOOLEAN]
           TY == {File, Directory}
           DI == [0..INODE_DIRECT_NUM - 1 -> Slot]
           IN1 == [Inodes -> [type : TY, direct : DI, indirect : Slot]]
<1>1. mem \in [inode_bitmap : IB, data_bitmap : DB, inode : IN1, sector : SE]
    BY DEF Image, Inode
<1>2. IN1 = [Inodes -> [type : TY, direct : DI, indirect : Slot]]
    OBVIOUS
<1> HIDE DEF DB, SE, IB, TY, DI, IN1
<1>3. QED
    BY <1>1, <1>2 DEF Assigned, AssignedDirects

AssignedIndex(mem, b, i, x, cont) ==
    [mem EXCEPT !.data_bitmap[b] = TRUE, !.inode[i].indirect = x, !.sector = cont]

\* bits with bit b set.
WithBit(bits, b) == [bits EXCEPT ![b] = TRUE]

(* Assigning to the index block and one bit. *)
LEMMA AssignedIndirect ==
    ASSUME NEW mem \in Image, NEW i \in Inodes, NEW b, NEW x, NEW cont
    PROVE  AssignedIndex(mem, b, i, x, cont)
             = Assigned(mem, WithBit(mem.data_bitmap, b), i, mem.inode[i].direct, x, cont)
<1> DEFINE DB == [Blocks -> BOOLEAN]
           SE == [Blocks -> Sector]
           IB == [Inodes -> BOOLEAN]
           TY == {File, Directory}
           DI == [0..INODE_DIRECT_NUM - 1 -> Slot]
           IN1 == [Inodes -> [type : TY, direct : DI, indirect : Slot]]
<1>1. mem \in [inode_bitmap : IB, data_bitmap : DB, inode : IN1, sector : SE]
    BY DEF Image, Inode
<1>2. IN1 = [Inodes -> [type : TY, direct : DI, indirect : Slot]]
    OBVIOUS
<1> HIDE DEF DB, SE, IB, TY, DI, IN1
<1>3. QED
    BY <1>1, <1>2 DEF Assigned, AssignedIndex, WithBit

(* The second assignment counts. *)
LEMMA AssignedTwice ==
    ASSUME NEW mem \in Image, NEW i \in Inodes,
           NEW bits1 \in [Blocks -> BOOLEAN], NEW d1 \in [0..INODE_DIRECT_NUM - 1 -> Slot], NEW x1 \in Slot,
           NEW cont1 \in [Blocks -> Sector], NEW bits, NEW d, NEW x, NEW cont
    PROVE  Assigned(Assigned(mem, bits1, i, d1, x1, cont1), bits, i, d, x, cont)
             = Assigned(mem, bits, i, d, x, cont)
<1> DEFINE one == Assigned(mem, bits1, i, d1, x1, cont1)
           ino == mem.inode
<1>1. /\ one \in Image /\ one.inode_bitmap = mem.inode_bitmap
      /\ one.inode = WithPlaces(mem.inode, i, d1, x1)
    BY AssignedMembers, AssignedTyped
<1>2. WithPlaces(WithPlaces(ino, i, d1, x1), i, d, x) = WithPlaces(ino, i, d, x)
    <2> DEFINE TY == {File, Directory}
               DI == [0..INODE_DIRECT_NUM - 1 -> Slot]
               IN1 == [Inodes -> [type : TY, direct : DI, indirect : Slot]]
    <2>1. ino \in IN1
        BY ImageTyped DEF Inode
    <2>2. IN1 = [Inodes -> [type : TY, direct : DI, indirect : Slot]]
        OBVIOUS
    <2> HIDE DEF TY, DI, IN1, ino
    <2>3. QED
        BY <2>1, <2>2 DEF WithPlaces
<1> HIDE DEF one
<1>3. Assigned(one, bits, i, d, x, cont)
        = [inode_bitmap |-> one.inode_bitmap, data_bitmap |-> bits,
           inode |-> WithPlaces(one.inode, i, d, x), sector |-> cont]
    BY <1>1, AssignedMembers
<1>4. Assigned(mem, bits, i, d, x, cont)
        = [inode_bitmap |-> mem.inode_bitmap, data_bitmap |-> bits,
           inode |-> WithPlaces(mem.inode, i, d, x), sector |-> cont]
    BY AssignedMembers
<1>5. Assigned(one, bits, i, d, x, cont) = Assigned(mem, bits, i, d, x, cont)
    BY <1>1, <1>2, <1>3, <1>4
<1>6. QED
    BY <1>5 DEF one

(* An inode that is left as it is. *)
LEMMA SameResizes ==
    ASSUME NEW mem \in Image, NEW i \in Inodes, HoldsOnce(mem, i), DenseFile(mem, i)
    PROVE  Resized(mem, mem, i) /\ Accounts(mem, mem, i)
<1>1. Resized(mem, mem, i)
    BY TakingResizes
<1>2. Accounts(mem, mem, i)
    BY DEF Accounts
<1>3. QED
    BY <1>1, <1>2

(* The blocks q are marked and the first of them go into the directs. *)
LEMMA TakenResizes ==
    ASSUME NEW mem \in Image, NEW i \in Inodes, HoldsOnce(mem, i), DenseFile(mem, i),
           NEW bits, NEW q1, Taken(mem, bits, q1), bits \in [Blocks -> BOOLEAN],
           \A b \in Blocks : mem.data_bitmap[b] => bits[b],
           NEW new, new = Assigned(mem, bits, i, FillHoles(mem.inode[i].direct, q1), mem.inode[i].indirect,
                                   Marked(mem.sector, ToSet(q1), Data))
    PROVE  /\ Resized(mem, new, i) /\ new \in Image /\ Slots(new, i) = Slots(mem, i)
           /\ AllPlaced(mem, i, q1, <<>>, mem.inode[i].indirect, bits) => Accounts(mem, new, i)
<1> DEFINE D    == mem.inode[i].direct
           S    == Slots(mem, i)
           x    == mem.inode[i].indirect
           cont == Marked(mem.sector, ToSet(q1), Data)
           D1   == FillHoles(D, q1)
<1>1. /\ D \in [0..INODE_DIRECT_NUM - 1 -> Slot] /\ S \in [0..INDEX_NUM - 1 -> Slot] /\ x \in Slot
      /\ mem.inode \in [Inodes -> Inode] /\ mem.sector \in [Blocks -> Sector]
      /\ INODE_DIRECT_NUM \in Nat /\ INDEX_NUM \in Nat /\ None \notin Blocks
    BY ImageTyped, ConstantsTyped
<1>2. q1 \in Seq(Blocks) /\ Different(q1) /\ \A b \in ToSet(q1) : ~mem.data_bitmap[b]
    BY TakenBlocks
<1>3. cont \in [Blocks -> Sector]
    <2>1. Data \in Sector
        BY DEF Sector
    <2>2. QED
        BY <1>1, <2>1, MarkedTyped
<1>4. \A b \in Blocks : mem.data_bitmap[b] => cont[b] = mem.sector[b]
    BY <1>1, <1>2 DEF Marked
<1>5. Filled(INODE_DIRECT_NUM, D, D1, q1)
    <2> HIDE DEF D
    <2>1. QED
        BY <1>1, <1>2, FillHolesProperties
<1>6. x # None => /\ x \in Blocks /\ cont[x] = mem.sector[x] /\ mem.sector[x].kind = "index"
                  /\ \A k \in 0..INODE_DIRECT_NUM - 1 : D1[k] # None
    <2>1. ASSUME x # None PROVE x \in Blocks /\ mem.data_bitmap[x]
        BY <1>1, <2>1, AtIndirect DEF HoldsOnce, Slot
    <2>2. ASSUME x # None PROVE \A k \in 0..INODE_DIRECT_NUM - 1 : D1[k] # None
        <3>1. \A k \in 0..INODE_DIRECT_NUM - 1 : D[k] # None
            BY <2>2 DEF DenseFile
        <3> HIDE DEF D1
        <3>2. QED
            BY <1>5, <3>1 DEF Filled
    <2>3. QED
        BY <1>4, <2>1, <2>2 DEF DenseFile
<1>7. MayTake(mem, i, q1, <<>>, x, bits, cont)
    <2>1. Taken(mem, bits, <<>>)
        BY DEF Taken, Different
    <2>2. QED
        BY <1>1, <1>3, <1>4, <1>6, <2>1 DEF MayTake
<1>8. new.sector = cont /\ new \in Image /\ new.inode[i].indirect = x
    <2>1. D1 \in [0..INODE_DIRECT_NUM - 1 -> Slot]
        BY <1>5 DEF Filled
    <2> HIDE DEF cont, D1, x
    <2> DEFINE a == Assigned(mem, bits, i, D1, x, cont)
    <2>2. a.sector = cont /\ a \in Image /\ a.inode[i].indirect = x
        BY <1>1, <1>3, <2>1, AssignedMembers, AssignedTyped
    <2>3. new = a
        BY DEF cont, D1, x
    <2> HIDE DEF a
    <2>4. QED
        BY <2>2, <2>3
<1>10. Slots(new, i) = Slots(mem, i)
    <2> HIDE DEF cont
    <2>1. QED
        BY <1>6, <1>8 DEF Slots
<1>11. FillHoles(S, <<>>) = S
    <2> HIDE DEF S
    <2>1. QED
        BY <1>1, FillHolesWithNothing
<1>12. Resized(mem, new, i) /\ (AllPlaced(mem, i, q1, <<>>, x, bits) => Accounts(mem, new, i))
    BY <1>7, <1>10, <1>11, PlacingResizes
<1>13. QED
    BY <1>8, <1>10, <1>12

(* More blocks go into an index block. *)
LEMMA IndexedResizes ==
    ASSUME NEW mem \in Image, NEW i \in Inodes, HoldsOnce(mem, i), DenseFile(mem, i),
           NEW bits, NEW q1, NEW q2, Taken(mem, bits, q1), Taken(mem, bits, q2),
           \A a \in 1..Len(q1), b \in 1..Len(q2) : q1[a] # q2[b],
           bits \in [Blocks -> BOOLEAN], \A b \in Blocks : mem.data_bitmap[b] => bits[b],
           \A k \in 0..INODE_DIRECT_NUM - 1 : FillHoles(mem.inode[i].direct, q1)[k] # None,
           NEW x \in Blocks,
           x # mem.inode[i].indirect => mem.inode[i].indirect = None /\ ~bits[x],
           NEW cont, cont = [Marked(Marked(mem.sector, ToSet(q1), Data), ToSet(q2), Data) EXCEPT
                                ![x] = Index(FillHoles(Slots(mem, i), q2))],
           NEW new, new = Assigned(mem, [bits EXCEPT ![x] = TRUE], i,
                                   FillHoles(mem.inode[i].direct, q1), x, cont)
    PROVE  /\ Resized(mem, new, i)
           /\ AllPlaced(mem, i, q1, q2, x, [bits EXCEPT ![x] = TRUE]) => Accounts(mem, new, i)
<1> DEFINE D     == mem.inode[i].direct
           S     == Slots(mem, i)
           D1    == FillHoles(D, q1)
           S1    == FillHoles(S, q2)
           bits2 == [bits EXCEPT ![x] = TRUE]
<1>1. /\ D \in [0..INODE_DIRECT_NUM - 1 -> Slot] /\ S \in [0..INDEX_NUM - 1 -> Slot]
      /\ mem.inode \in [Inodes -> Inode] /\ mem.sector \in [Blocks -> Sector]
      /\ INODE_DIRECT_NUM \in Nat /\ INDEX_NUM \in Nat /\ x \in Slot /\ x # None
    BY ImageTyped, ConstantsTyped DEF Slot
<1>2. /\ q1 \in Seq(Blocks) /\ Different(q1) /\ \A b \in ToSet(q1) : ~mem.data_bitmap[b]
      /\ q2 \in Seq(Blocks) /\ Different(q2) /\ \A b \in ToSet(q2) : ~mem.data_bitmap[b]
    BY TakenBlocks
<1>3. D1 \in [0..INODE_DIRECT_NUM - 1 -> Slot] /\ S1 \in [0..INDEX_NUM - 1 -> Slot]
    <2> HIDE DEF D, S
    <2>1. Filled(INODE_DIRECT_NUM, D, D1, q1) /\ Filled(INDEX_NUM, S, S1, q2)
        BY <1>1, <1>2, FillHolesProperties
    <2>2. QED
        BY <2>1 DEF Filled
<1>4. /\ cont \in [Blocks -> Sector] /\ cont[x] = Index(S1)
      /\ \A b \in Blocks : mem.data_bitmap[b] /\ b # x => cont[b] = mem.sector[b]
    <2>1. Data \in Sector /\ Index(S1) \in Sector
        BY <1>3 DEF Sector
    <2> DEFINE c1 == Marked(mem.sector, ToSet(q1), Data)
               c2 == Marked(c1, ToSet(q2), Data)
    <2>2. c1 \in [Blocks -> Sector] /\ \A b \in Blocks : mem.data_bitmap[b] => c1[b] = mem.sector[b]
        BY <1>1, <1>2, <2>1 DEF Marked
    <2> HIDE DEF c1
    <2>3. c2 \in [Blocks -> Sector] /\ \A b \in Blocks : mem.data_bitmap[b] => c2[b] = mem.sector[b]
        BY <1>1, <1>2, <2>1, <2>2 DEF Marked
    <2>4. cont = [c2 EXCEPT ![x] = Index(S1)]
        BY DEF c1
    <2> HIDE DEF c2, S1
    <2>5. QED
        BY <2>1, <2>3, <2>4
<1>5. /\ bits2 \in [Blocks -> BOOLEAN] /\ bits2[x]
      /\ \A b \in Blocks : bits[b] => bits2[b]
    OBVIOUS
<1>6. Taken(mem, bits2, q1) /\ Taken(mem, bits2, q2)
    <2> HIDE DEF bits2
    <2>1. QED
        BY <1>5 DEF Taken
<1>7. x # mem.inode[i].indirect
        => /\ mem.inode[i].indirect = None /\ ~mem.data_bitmap[x]
           /\ \A a \in 1..Len(q1) : q1[a] # x
           /\ \A a \in 1..Len(q2) : q2[a] # x
    BY DEF Taken
<1>8. MayTake(mem, i, q1, q2, x, bits2, cont)
    <2>1. cont[x].kind = "index"
        BY <1>4 DEF Index
    <2>2. \A b \in Blocks : mem.data_bitmap[b] => bits2[b]
        BY <1>5
    <2> HIDE DEF bits2
    <2>3. QED
        BY <1>1, <1>4, <1>5, <1>6, <1>7, <2>1, <2>2 DEF MayTake
<1>9. new.sector = cont /\ new.inode[i].indirect = x
    <2> HIDE DEF D1, bits2
    <2> DEFINE a == Assigned(mem, bits2, i, D1, x, cont)
    <2>1. a.sector = cont /\ a.inode[i].indirect = x
        <3>1. /\ bits2 \in [Blocks -> BOOLEAN] /\ D1 \in [0..INODE_DIRECT_NUM - 1 -> Slot]
              /\ x \in Slot /\ cont \in [Blocks -> Sector]
            BY <1>1, <1>3, <1>4, <1>5
        <3>2. QED
            BY <3>1, AssignedMembers, AssignedTyped
    <2>2. new = a
        BY DEF D1, bits2
    <2> HIDE DEF a
    <2>3. QED
        BY <2>1, <2>2
<1>11. Slots(new, i) = S1
    <2> HIDE DEF S1
    <2>1. QED
        BY <1>1, <1>4, <1>9, SlotsOfIndex
<1>12. Resized(mem, new, i) /\ (AllPlaced(mem, i, q1, q2, x, bits2) => Accounts(mem, new, i))
    <2> HIDE DEF bits2
    <2>1. new = Assigned(mem, bits2, i, FillHoles(mem.inode[i].direct, q1), x, cont)
        BY DEF bits2
    <2>2. QED
        BY <1>8, <1>11, <2>1, PlacingResizes
<1>13. QED
    BY <1>12

(* Free blocks are finitely many numbers. *)
LEMMA FreeBlocksFinite ==
    ASSUME NEW mem
    PROVE  /\ FreeBlocks(mem) \in SUBSET Int /\ FreeBlocks(mem) \in SUBSET Blocks
           /\ IsFiniteSet(FreeBlocks(mem)) /\ Cardinality(FreeBlocks(mem)) \in Nat
<1>1. FreeBlocks(mem) \in SUBSET Blocks
    BY DEF FreeBlocks
<1>2. QED
    BY <1>1, ConstantsTyped, FS_Subset, FS_CardinalityType

(* The first free position. *)
LEMMA FirstOfFree ==
    ASSUME NEW free \in SUBSET Int, IsFiniteSet(free), free # {}
    PROVE  FirstFit(free, 1)[1] \in free
<1>1. Cardinality(free) \in Nat /\ Cardinality(free) # 0
    BY FS_CardinalityType, FS_EmptySet
<1>2. 1 <= Cardinality(free)
    BY <1>1
<1>3. FirstFit(free, 1) \in Seq(free) /\ Len(FirstFit(free, 1)) = 1
    BY <1>2, FirstFitProperties
<1>4. QED
    BY <1>3, ElementOfSeq

\* The empty directs and slots of inode i.
Room(mem, i) == (INODE_DIRECT_NUM - Cardinality(Used(mem.inode[i].direct)))
                + (INDEX_NUM - Cardinality(Used(Slots(mem, i))))

\* With the outcome r for inode i, a block is marked for nothing only if it failed and took the last.
AccountsOrFull(mem, r, i) == /\ r.ok => Accounts(mem, r.mem, i)
                             /\ Accounts(mem, r.mem, i) \/ FreeBlocks(r.mem) = {}

\* Inode i took the blocks q1 as directs and nothing else, with bits as the bitmap then.
TakesDirects(mem, new, i, bits, q1) ==
    /\ Taken(mem, bits, q1) /\ bits \in [Blocks -> BOOLEAN]
    /\ \A b \in Blocks : mem.data_bitmap[b] => bits[b]
    /\ new = Assigned(mem, bits, i, FillHoles(mem.inode[i].direct, q1), mem.inode[i].indirect,
                      Marked(mem.sector, ToSet(q1), Data))

\* It took q2 as well, as slots of the index block x, which may be new.
TakesSlots(mem, new, i, bits, q1, q2, x) ==
    /\ Taken(mem, bits, q1) /\ Taken(mem, bits, q2) /\ bits \in [Blocks -> BOOLEAN]
    /\ \A b \in Blocks : mem.data_bitmap[b] => bits[b]
    /\ x \in Blocks /\ (x # mem.inode[i].indirect => mem.inode[i].indirect = None /\ ~bits[x])
    /\ new = Assigned(mem, [bits EXCEPT ![x] = TRUE], i, FillHoles(mem.inode[i].direct, q1), x,
                      [Marked(Marked(mem.sector, ToSet(q1), Data), ToSet(q2), Data) EXCEPT
                          ![x] = Index(FillHoles(Slots(mem, i), q2))])

\* What a file that grows may have become.
Grows(mem, new, i) == \/ new = mem
                      \/ \E bits, q1 : TakesDirects(mem, new, i, bits, q1)
                      \/ \E bits, q1, q2, x : TakesSlots(mem, new, i, bits, q1, q2, x)

(* A file that grows takes free blocks, and keeps what it has. *)
LEMMA ExpandResizes ==
    ASSUME NEW mem \in Image, NEW i \in Inodes, HoldsOnce(mem, i), DenseFile(mem, i), NEW n \in Nat
    PROVE  /\ Resized(mem, Expand(mem, i, n).mem, i)
           /\ Grows(mem, Expand(mem, i, n).mem, i)
           /\ Expand(mem, i, n).ok /\ n <= INODE_DIRECT_NUM - Cardinality(Used(mem.inode[i].direct))
                => \E q \in Seq(Blocks) :
                       /\ Different(q) /\ Len(q) = n
                       /\ Expand(mem, i, n).mem.inode[i].direct = FillHoles(mem.inode[i].direct, q)
           /\ n <= Room(mem, i) => AccountsOrFull(mem, Expand(mem, i, n), i)
<1> DEFINE free   == FreeBlocks(mem)
           q      == FirstFit(free, n)
           D      == mem.inode[i].direct
           S      == Slots(mem, i)
           old    == mem.inode[i].indirect
           holes  == INODE_DIRECT_NUM - Cardinality(Used(D))
           direct == SubSeq(q, 1, Min({n, holes}))
           rest   == SubSeq(q, holes + 1, n)
           bits   == Marked(mem.data_bitmap, ToSet(q), TRUE)
           D1     == FillHoles(D, direct)
           cont   == Marked(mem.sector, ToSet(direct), Data)
           taken  == [mem EXCEPT !.data_bitmap = Marked(@, ToSet(q), TRUE),
                                 !.inode[i].direct = FillHoles(@, direct),
                                 !.sector = Marked(@, ToSet(direct), Data)]
<1>1. Expand(mem, i, n) = IF Cardinality(free) < n THEN [ok |-> FALSE, mem |-> mem]
                          ELSE IF n <= holes THEN [ok |-> TRUE, mem |-> taken]
                          ELSE ExpandIndex(taken, i, rest)
    BY DEF Expand
<1>2. /\ D \in [0..INODE_DIRECT_NUM - 1 -> Slot] /\ S \in [0..INDEX_NUM - 1 -> Slot] /\ old \in Slot
      /\ mem.data_bitmap \in [Blocks -> BOOLEAN] /\ mem.sector \in [Blocks -> Sector]
      /\ INODE_DIRECT_NUM \in Nat /\ INDEX_NUM \in Nat /\ None \notin Blocks
    BY ImageTyped, ConstantsTyped
<1>3. holes \in Nat
    <2> DEFINE u == Cardinality(Used(D))
    <2>1. u \in 0..INODE_DIRECT_NUM
        BY <1>2, PlacesFinite
    <2> HIDE DEF u
    <2>2. INODE_DIRECT_NUM - u \in Nat
        BY <1>2, <2>1
    <2>3. QED
        BY <2>2 DEF u
<1>4. taken = Assigned(mem, bits, i, D1, old, cont)
    <2>1. taken = AssignedDirects(mem, bits, i, D1, cont)
        BY DEF Image, AssignedDirects
    <2> HIDE DEF bits, D1, cont
    <2>2. AssignedDirects(mem, bits, i, D1, cont) = Assigned(mem, bits, i, D1, old, cont)
        BY AssignedDirect
    <2>3. QED
        BY <2>1, <2>2
<1>5. CASE Cardinality(free) < n
    <2>1. Expand(mem, i, n).mem = mem /\ ~Expand(mem, i, n).ok
        BY <1>1, <1>5
    <2>2. AccountsOrFull(mem, Expand(mem, i, n), i)
        BY <2>1, SameResizes DEF AccountsOrFull
    <2>3. QED
        BY <2>1, <2>2, SameResizes DEF Grows
<1>6. CASE ~(Cardinality(free) < n)
    <2>1. q \in Seq(free) /\ Len(q) = n /\ Different(q)
        <3> HIDE DEF free
        <3>1. n <= Cardinality(free) /\ free \in SUBSET Int /\ IsFiniteSet(free)
            BY <1>6, FreeBlocksFinite DEF free
        <3>2. QED
            BY <3>1, FirstFitProperties
    <2>2. /\ free \in SUBSET Blocks /\ \A b \in free : ~mem.data_bitmap[b]
          /\ \A b \in Blocks : mem.data_bitmap[b] => b \notin free
        BY FreeBlocksFinite DEF FreeBlocks
    <2>3. /\ bits \in [Blocks -> BOOLEAN] /\ \A b \in ToSet(q) : bits[b]
          /\ \A b \in Blocks : mem.data_bitmap[b] => bits[b]
          /\ \A b \in Blocks : bits[b] <=> b \in ToSet(q) \/ mem.data_bitmap[b]
        <3>1. ToSet(q) \subseteq Blocks
            BY <2>1, <2>2 DEF ToSet
        <3> HIDE DEF q
        <3>2. QED
            BY <1>2, <3>1 DEF Marked
    <2>4. ASSUME NEW f \in Nat \ {0}, NEW t \in Nat, f <= t + 1, t <= n
          PROVE  Taken(mem, bits, SubSeq(q, f, t))
        <3> HIDE DEF q, bits, free
        <3>1. q \in Seq(Blocks) /\ \A a \in 1..Len(q) : q[a] \in ToSet(q) /\ q[a] \in free
            BY <2>1, <2>2 DEF ToSet
        <3>2. /\ SubSeq(q, f, t) \in Seq(Blocks) /\ Len(SubSeq(q, f, t)) = t - f + 1
              /\ \A a \in 1..t - f + 1 : f + a - 1 \in 1..Len(q) /\ SubSeq(q, f, t)[a] = q[f + a - 1]
              /\ Different(SubSeq(q, f, t))
            BY <2>1, <2>4, <3>1, Stretch
        <3> DEFINE part == SubSeq(q, f, t)
        <3>3. \A a \in 1..Len(part) : part[a] \in ToSet(q) /\ part[a] \in free
            BY <3>1, <3>2
        <3>4. part \in Seq(Blocks) /\ Different(part)
            BY <3>2
        <3> HIDE DEF part
        <3>5. Taken(mem, bits, part)
            BY <2>2, <2>3, <3>3, <3>4 DEF Taken
        <3>6. QED
            BY <3>5 DEF part
    <2>5. Min({n, holes}) \in Nat /\ Min({n, holes}) = IF n <= holes THEN n ELSE holes
        <3> HIDE DEF holes
        <3>1. QED
            BY <1>3, MinMaxOfTwo
    <2>6. Taken(mem, bits, direct)
        <3> HIDE DEF q, bits, holes
        <3>1. Min({n, holes}) <= n
            BY <1>3, <2>5
        <3>2. QED
            BY <2>4, <2>5, <3>1
    <2>7. /\ Resized(mem, taken, i) /\ taken \in Image /\ Slots(taken, i) = S
          /\ AllPlaced(mem, i, direct, <<>>, old, bits) => Accounts(mem, taken, i)
        <3> HIDE DEF bits, direct, q, taken
        <3>1. QED
            BY <1>4, <2>3, <2>6, TakenResizes
    <2>G. Grows(mem, taken, i)
        <3> HIDE DEF bits, direct, q, taken
        <3>1. TakesDirects(mem, taken, i, bits, direct)
            BY <1>4, <2>3, <2>6 DEF TakesDirects
        <3>2. QED
            BY <3>1 DEF Grows
    <2>T. taken.inode[i].indirect = old /\ taken.inode[i].direct = D1
          /\ taken.data_bitmap = bits /\ taken.sector = cont
          /\ D1 \in [0..INODE_DIRECT_NUM - 1 -> Slot] /\ cont \in [Blocks -> Sector]
        <3>1. cont \in [Blocks -> Sector]
            <4>1. Data \in Sector
                BY DEF Sector
            <4>2. QED
                BY <1>2, <4>1, MarkedTyped
        <3>2. Filled(INODE_DIRECT_NUM, D, D1, direct)
            <4> HIDE DEF direct, D, bits
            <4>1. direct \in Seq(Blocks) /\ Different(direct)
                BY <2>6 DEF Taken
            <4>2. QED
                BY <1>2, <4>1, FillHolesProperties
        <3>3. D1 \in [0..INODE_DIRECT_NUM - 1 -> Slot]
            <4> HIDE DEF D1, D, direct
            <4>1. QED
                BY <3>2 DEF Filled
        <3> HIDE DEF bits, D1, cont, old, taken
        <3> DEFINE a == Assigned(mem, bits, i, D1, old, cont)
        <3>4. /\ a.inode[i].indirect = old /\ a.inode[i].direct = D1
              /\ a.data_bitmap = bits /\ a.sector = cont
            BY <1>2, <2>3, <3>1, <3>3, AssignedMembers, AssignedTyped, SMTT(30)
        <3>5. taken = a
            BY <1>4
        <3> HIDE DEF a
        <3>6. QED
            BY <3>1, <3>3, <3>4, <3>5
    <2>8. CASE n <= holes
        <3>1. Expand(mem, i, n).mem = taken
            BY <1>1, <1>6, <2>8
        <3>2. direct \in Seq(Blocks) /\ Different(direct) /\ Len(direct) = n
            <4> HIDE DEF q, holes, free, bits
            <4>1. Min({n, holes}) = n /\ 1 \in Nat \ {0} /\ 1 <= n + 1 /\ n <= Len(q) /\ n - 1 + 1 = n
                BY <2>1, <2>5, <2>8
            <4>2. Len(SubSeq(q, 1, n)) = n - 1 + 1
                BY <2>1, <4>1, Stretch
            <4>3. QED
                BY <2>6, <4>1, <4>2 DEF Taken
        <3>3. Accounts(mem, taken, i)
            <4>1. ASSUME NEW b \in ToSet(q) PROVE b \in ToSet(direct)
                <5> HIDE DEF q, holes, free
                <5>1. Min({n, holes}) = n /\ 1 \in Nat \ {0} /\ 1 <= n + 1 /\ n <= Len(q)
                    BY <2>1, <2>5, <2>8
                <5>2. /\ Len(SubSeq(q, 1, n)) = n - 1 + 1
                      /\ \A a \in 1..n - 1 + 1 : SubSeq(q, 1, n)[a] = q[1 + a - 1]
                    BY <2>1, <5>1, Stretch
                <5>3. PICK a \in 1..n : q[a] = b
                    BY <2>1 DEF ToSet
                <5>4. a \in 1..Len(SubSeq(q, 1, n)) /\ a \in 1..n - 1 + 1 /\ 1 + a - 1 = a
                    BY <5>2
                <5>5. SubSeq(q, 1, n)[a] = b
                    BY <5>2, <5>3, <5>4
                <5>6. direct = SubSeq(q, 1, n)
                    BY <5>1
                <5> HIDE DEF direct
                <5>7. direct[a] = b
                    BY <5>5, <5>6
                <5>8. a \in DOMAIN direct
                    BY <3>2, <5>3
                <5>9. QED
                    BY <5>7, <5>8 DEF ToSet
            <4>2. Len(<<>>) <= INDEX_NUM - Cardinality(Used(S))
                <5> HIDE DEF S
                <5>1. Cardinality(Used(S)) \in 0..INDEX_NUM
                    BY <1>2, PlacesFinite
                <5>2. Len(<<>>) = 0
                    OBVIOUS
                <5> HIDE DEF holes
                <5>3. QED
                    BY <1>2, <5>1, <5>2
            <4>3. \A b \in Blocks : bits[b] => mem.data_bitmap[b] \/ b \in ToSet(direct)
                <5> HIDE DEF bits, q, direct
                <5>1. QED
                    BY <2>3, <4>1
            <4>4. Len(direct) <= holes
                <5> HIDE DEF holes, direct
                <5>1. QED
                    BY <2>8, <3>2
            <4> HIDE DEF bits, q, direct, taken
            <4>5. QED
                BY <2>7, <4>2, <4>3, <4>4 DEF AllPlaced
        <3> HIDE DEF taken, direct
        <3>4. AccountsOrFull(mem, Expand(mem, i, n), i)
            BY <3>1, <3>3 DEF AccountsOrFull
        <3>5. QED
            BY <2>7, <2>G, <2>T, <3>1, <3>2, <3>4
    <2>9. CASE ~(n <= holes)
        <3> DEFINE x     == IF old = None THEN FirstFit(FreeBlocks(taken), 1)[1] ELSE old
                   bits2 == [bits EXCEPT ![x] = TRUE]
                   cont2 == [Marked(cont, ToSet(rest), Data) EXCEPT ![x] = Index(FillHoles(S, rest))]
                   index == AssignedIndex(taken, x, i, x, cont2)
        <3>2. Expand(mem, i, n) = IF old = None /\ FreeBlocks(taken) = {}
                                  THEN [ok |-> FALSE, mem |-> taken]
                                  ELSE [ok |-> TRUE, mem |-> index]
            <4>1. ExpandIndex(taken, i, rest) = IF old = None /\ FreeBlocks(taken) = {}
                                                THEN [ok |-> FALSE, mem |-> taken]
                                                ELSE [ok |-> TRUE, mem |-> index]
                <5> HIDE DEF taken, bits, D1, cont, old, rest, S
                <5>1. taken.inode[i].indirect = old /\ taken.sector = cont /\ Slots(taken, i) = S
                    BY <2>7, <2>T
                <5>2. taken \in Image
                    BY <2>7
                <5>3. QED
                    BY <5>1, <5>2 DEF ExpandIndex, AssignedIndex, Image
            <4>2. Expand(mem, i, n) = ExpandIndex(taken, i, rest)
                BY <1>1, <1>6, <2>9
            <4>3. QED
                BY <4>1, <4>2
        <3>3. ASSUME old = None /\ FreeBlocks(taken) = {}
              PROVE  /\ Resized(mem, Expand(mem, i, n).mem, i) /\ AccountsOrFull(mem, Expand(mem, i, n), i)
                     /\ Grows(mem, Expand(mem, i, n).mem, i)
            <4>1. Expand(mem, i, n).mem = taken /\ ~Expand(mem, i, n).ok
                <5> HIDE DEF taken, old, index
                <5>1. QED
                    BY <3>2, <3>3
            <4> HIDE DEF taken
            <4>2. QED
                BY <2>7, <2>G, <3>3, <4>1 DEF AccountsOrFull
        <3>4. ASSUME ~(old = None /\ FreeBlocks(taken) = {})
              PROVE  /\ Resized(mem, Expand(mem, i, n).mem, i)
                     /\ Grows(mem, Expand(mem, i, n).mem, i)
                     /\ n <= Room(mem, i) => AccountsOrFull(mem, Expand(mem, i, n), i)
            <4>1. x \in Blocks /\ (x # old => old = None /\ ~bits[x])
                <5> DEFINE left == FreeBlocks(taken)
                <5> HIDE DEF taken, left, bits
                <5>1. left \in SUBSET Blocks /\ left \in SUBSET Int /\ IsFiniteSet(left)
                    BY FreeBlocksFinite DEF left
                <5>2. \A b \in left : ~bits[b]
                    BY <2>T DEF left, FreeBlocks
                <5>3. CASE old = None
                    <6>1. x = FirstFit(left, 1)[1] /\ left # {}
                        BY <3>4, <5>3 DEF left
                    <6>2. x \in left
                        BY <5>1, <6>1, FirstOfFree
                    <6>3. QED
                        BY <5>1, <5>2, <5>3, <6>2
                <5>4. CASE old # None
                    BY <1>2, <5>4 DEF Slot
                <5>5. QED
                    BY <5>3, <5>4
            <4>2. index = Assigned(mem, bits2, i, D1, x, cont2)
                <5> HIDE DEF taken, bits, D1, cont, cont2, old, x
                <5>1. index = Assigned(taken, bits2, i, D1, x, cont2)
                    <6>1. taken \in Image
                        BY <2>7
                    <6> DEFINE marked == WithBit(taken.data_bitmap, x)
                    <6>2. AssignedIndex(taken, x, i, x, cont2)
                              = Assigned(taken, marked, i, taken.inode[i].direct, x, cont2)
                        <7> HIDE DEF index, bits2
                        <7>1. QED
                            BY <6>1, AssignedIndirect
                    <6>3. marked = bits2
                        BY <2>T DEF WithBit
                    <6>4. QED
                        <7> HIDE DEF marked, bits2
                        <7>1. QED
                            BY <2>T, <6>2, <6>3
                <5> HIDE DEF index, bits2
                <5>2. /\ bits \in [Blocks -> BOOLEAN] /\ D1 \in [0..INODE_DIRECT_NUM - 1 -> Slot]
                      /\ old \in Slot /\ cont \in [Blocks -> Sector]
                    BY <1>2, <2>3, <2>T
                <5>3. Assigned(Assigned(mem, bits, i, D1, old, cont), bits2, i, D1, x, cont2)
                        = Assigned(mem, bits2, i, D1, x, cont2)
                    BY <5>2, AssignedTwice
                <5>4. QED
                    BY <1>4, <5>1, <5>3
            <4>3. Taken(mem, bits, rest)
                <5> HIDE DEF q, bits, holes
                <5>1. holes + 1 \in Nat \ {0} /\ n \in Nat /\ holes + 1 <= n + 1 /\ n <= n
                    BY <1>3, <2>9
                <5>2. QED
                    BY <2>4, <5>1
            <4>4. \A a \in 1..Len(direct), b \in 1..Len(rest) : direct[a] # rest[b]
                <5> HIDE DEF q, holes, free
                <5>1. Min({n, holes}) = holes /\ 1 \in Nat \ {0} /\ 1 <= holes + 1 /\ holes <= Len(q)
                    BY <1>3, <2>1, <2>5, <2>9
                <5>2. /\ Len(SubSeq(q, 1, holes)) = holes - 1 + 1
                      /\ \A a \in 1..holes - 1 + 1 : 1 + a - 1 \in 1..Len(q) /\ SubSeq(q, 1, holes)[a] = q[1 + a - 1]
                    BY <1>3, <2>1, <5>1, Stretch
                <5>3. holes + 1 \in Nat \ {0} /\ n \in Nat /\ holes + 1 <= n + 1 /\ n <= Len(q)
                    BY <1>3, <2>1, <2>9
                <5>4. /\ Len(SubSeq(q, holes + 1, n)) = n - (holes + 1) + 1
                      /\ \A b \in 1..n - (holes + 1) + 1 : /\ holes + 1 + b - 1 \in 1..Len(q)
                                                            /\ SubSeq(q, holes + 1, n)[b] = q[holes + 1 + b - 1]
                    BY <2>1, <5>3, Stretch
                <5>5. ASSUME NEW a \in 1..Len(direct), NEW b \in 1..Len(rest) PROVE direct[a] # rest[b]
                    <6>1. direct = SubSeq(q, 1, holes) /\ rest = SubSeq(q, holes + 1, n)
                        BY <5>1
                    <6> HIDE DEF direct, rest
                    <6>2. a \in 1..holes /\ direct[a] = q[1 + a - 1] /\ 1 + a - 1 \in 1..Len(q)
                        BY <1>3, <5>2, <6>1
                    <6>3. /\ b \in 1..n - holes /\ rest[b] = q[holes + 1 + b - 1]
                          /\ holes + 1 + b - 1 \in 1..Len(q)
                        BY <1>3, <5>4, <6>1
                    <6>4. 1 + a - 1 # holes + 1 + b - 1
                        BY <1>3, <6>2, <6>3
                    <6>5. QED
                        BY <2>1, <6>2, <6>3, <6>4 DEF Different
                <5>6. QED
                    BY <5>5
            <4>D. Len(direct) = holes /\ \A a \in 1..holes : direct[a] = q[a]
                <5> HIDE DEF q, holes, free
                <5>1. Min({n, holes}) = holes /\ 1 \in Nat \ {0} /\ 1 <= holes + 1 /\ holes <= Len(q)
                    BY <1>3, <2>1, <2>5, <2>9
                <5>2. /\ Len(SubSeq(q, 1, holes)) = holes - 1 + 1
                      /\ \A a \in 1..holes - 1 + 1 : SubSeq(q, 1, holes)[a] = q[1 + a - 1]
                    BY <1>3, <2>1, <5>1, Stretch
                <5>3. direct = SubSeq(q, 1, holes)
                    BY <5>1
                <5>4. holes - 1 + 1 = holes /\ \A a \in 1..holes : 1 + a - 1 = a
                    BY <1>3
                <5> HIDE DEF direct
                <5>5. QED
                    BY <5>2, <5>3, <5>4
            <4>R. Len(rest) = n - holes /\ \A a \in 1..n - holes : rest[a] = q[holes + a]
                <5> HIDE DEF q, holes, free
                <5>1. holes + 1 \in Nat \ {0} /\ n \in Nat /\ holes + 1 <= n + 1 /\ n <= Len(q)
                    BY <1>3, <2>1, <2>9
                <5>2. /\ Len(SubSeq(q, holes + 1, n)) = n - (holes + 1) + 1
                      /\ \A a \in 1..n - (holes + 1) + 1 : SubSeq(q, holes + 1, n)[a] = q[holes + 1 + a - 1]
                    BY <2>1, <5>1, Stretch
                <5>3. n - (holes + 1) + 1 = n - holes /\ \A a \in 1..n - holes : holes + 1 + a - 1 = holes + a
                    BY <1>3
                <5>4. QED
                    BY <5>2, <5>3
            <4>5. \A k \in 0..INODE_DIRECT_NUM - 1 : D1[k] # None
                <5>1. Len(direct) = holes
                    BY <4>D
                <5>2. direct \in Seq(Blocks) /\ Different(direct)
                    <6> HIDE DEF direct, bits
                    <6>1. QED
                        BY <2>6 DEF Taken
                <5>3. Len(direct) >= INODE_DIRECT_NUM - Cardinality(Used(D))
                    <6>1. holes >= holes
                        BY <1>3
                    <6> HIDE DEF direct
                    <6>2. QED
                        BY <5>1, <6>1
                <5> HIDE DEF direct, D
                <5>4. QED
                    BY <1>2, <5>2, <5>3, FillHolesProperties
            <4>6. /\ Resized(mem, index, i)
                  /\ AllPlaced(mem, i, direct, rest, x, bits2) => Accounts(mem, index, i)
                <5> HIDE DEF bits, direct, rest, x, index
                <5>1. QED
                    BY <2>3, <2>6, <4>1, <4>2, <4>3, <4>4, <4>5, IndexedResizes
            <4>7. Expand(mem, i, n).mem = index
                <5> HIDE DEF index, taken, old
                <5>1. QED
                    BY <3>2, <3>4
            <4>8. ASSUME n <= Room(mem, i) PROVE AllPlaced(mem, i, direct, rest, x, bits2)
                <5>1. ASSUME NEW b \in ToSet(q) PROVE b \in ToSet(direct) \/ b \in ToSet(rest)
                    <6> HIDE DEF q, holes, direct, rest, free
                    <6>1. PICK a \in 1..n : q[a] = b
                        BY <2>1 DEF ToSet
                    <6>2. CASE a <= holes
                        <7>1. a \in 1..Len(direct) /\ direct[a] = b
                            BY <1>3, <4>D, <6>1, <6>2
                        <7>2. QED
                            BY <7>1 DEF ToSet
                    <6>3. CASE ~(a <= holes)
                        <7>1. a - holes \in 1..n - holes /\ holes + (a - holes) = a
                            BY <1>3, <6>3
                        <7>2. a - holes \in 1..Len(rest) /\ rest[a - holes] = b
                            BY <4>R, <6>1, <7>1
                        <7>3. QED
                            BY <7>2 DEF ToSet
                    <6>4. QED
                        BY <6>2, <6>3
                <5>2. Len(direct) <= holes
                    <6> HIDE DEF direct, holes
                    <6>1. QED
                        BY <1>3, <4>D
                <5>3. Len(rest) <= INDEX_NUM - Cardinality(Used(S))
                    <6> DEFINE s == Cardinality(Used(S))
                    <6>1. n <= holes + (INDEX_NUM - s)
                        BY <4>8 DEF Room
                    <6>2. s \in 0..INDEX_NUM
                        <7> HIDE DEF S
                        <7>1. QED
                            BY <1>2, PlacesFinite
                    <6> HIDE DEF holes, s, rest
                    <6>3. Len(rest) <= INDEX_NUM - s
                        BY <1>2, <1>3, <4>R, <6>1, <6>2
                    <6>4. QED
                        BY <6>3 DEF s
                <5>4. \A b \in Blocks : bits2[b] => mem.data_bitmap[b] \/ b \in ToSet(direct) \/ b \in ToSet(rest) \/ b = x
                    <6> HIDE DEF bits, q, direct, rest, x
                    <6>1. \A b \in Blocks : bits2[b] => bits[b] \/ b = x
                        BY <2>3
                    <6> HIDE DEF bits2
                    <6>2. QED
                        BY <2>3, <5>1, <6>1
                <5> HIDE DEF bits2, direct, rest, x
                <5>5. QED
                    BY <5>2, <5>3, <5>4 DEF AllPlaced
            <4>G. Grows(mem, index, i)
                <5>1. index = Assigned(mem, [bits EXCEPT ![x] = TRUE], i, FillHoles(mem.inode[i].direct, direct), x,
                                       [Marked(Marked(mem.sector, ToSet(direct), Data), ToSet(rest), Data) EXCEPT
                                            ![x] = Index(FillHoles(Slots(mem, i), rest))])
                    BY <4>2
                <5> HIDE DEF bits, direct, rest, x, index, bits2
                <5>2. TakesSlots(mem, index, i, bits, direct, rest, x)
                    BY <2>3, <2>6, <4>1, <4>3, <5>1 DEF TakesSlots
                <5>3. QED
                    BY <5>2 DEF Grows
            <4>9. QED
                <5> HIDE DEF index, bits2, direct, rest, x
                <5>1. QED
                    BY <4>6, <4>7, <4>8, <4>G DEF AccountsOrFull
        <3>5. /\ Resized(mem, Expand(mem, i, n).mem, i)
              /\ Grows(mem, Expand(mem, i, n).mem, i)
              /\ n <= Room(mem, i) => AccountsOrFull(mem, Expand(mem, i, n), i)
            BY <3>3, <3>4
        <3>6. QED
            BY <2>9, <3>5
    <2>10. QED
        <3>1. n <= holes \/ ~(n <= holes)
            OBVIOUS
        <3> HIDE DEF D
        <3>2. QED
            BY <2>8, <2>9, <3>1
<1>7. QED
    BY <1>5, <1>6

(* The size of a file. *)
LEMMA SizeTyped ==
    ASSUME NEW mem \in Image, NEW i \in Inodes
    PROVE  /\ Cardinality(Used(mem.inode[i].direct)) \in Nat /\ Cardinality(Used(Slots(mem, i))) \in Nat
           /\ get_file_size(mem, i) \in Nat
           /\ get_file_size(mem, i) = Cardinality(Used(mem.inode[i].direct)) + Cardinality(Used(Slots(mem, i)))
<1> DEFINE D == mem.inode[i].direct
           S == Slots(mem, i)
           d == Cardinality(Used(D))
           s == Cardinality(Used(S))
<1>1. /\ D \in [0..INODE_DIRECT_NUM - 1 -> Slot] /\ S \in [0..INDEX_NUM - 1 -> Slot]
      /\ INODE_DIRECT_NUM \in Nat /\ INDEX_NUM \in Nat
    BY ImageTyped, ConstantsTyped
<1>2. d \in Nat /\ s \in Nat
    <2> HIDE DEF D, S
    <2>1. d \in 0..INODE_DIRECT_NUM /\ s \in 0..INDEX_NUM
        BY <1>1, PlacesFinite
    <2> HIDE DEF d, s
    <2>2. QED
        BY <1>1, <2>1
<1>3. get_file_size(mem, i) = d + s
    BY DEF get_file_size
<1>4. d + s \in Nat
    BY <1>2
<1>5. QED
    BY <1>2, <1>3, <1>4

(* Whatever its target, file_resize leaves alone what is not the file's. *)
LEMMA FileResizes ==
    ASSUME NEW mem \in Image, NEW i \in Inodes, HoldsOnce(mem, i), DenseFile(mem, i), NEW size \in Nat
    PROVE  Resized(mem, file_resize(mem, i, size).mem, i)
<1> DEFINE now == get_file_size(mem, i)
<1>1. now \in Nat
    BY SizeTyped
<1> HIDE DEF now
<1>2. CASE now < size
    <2>1. size - now \in Nat
        BY <1>1, <1>2
    <2>2. file_resize(mem, i, size) = Expand(mem, i, size - now)
        BY <1>1, <1>2 DEF file_resize, now
    <2>3. QED
        BY <2>1, <2>2, ExpandResizes
<1>3. CASE now > size
    <2>1. now - size \in Nat /\ ~(now < size)
        BY <1>1, <1>3
    <2>2. file_resize(mem, i, size).mem = Shrink(mem, i, now - size)
        BY <1>3, <2>1 DEF file_resize, now
    <2>3. QED
        BY <2>1, <2>2, ShrinkResizes
<1>4. CASE ~(now < size) /\ ~(now > size)
    <2>1. file_resize(mem, i, size).mem = mem
        BY <1>4 DEF file_resize, now
    <2>2. QED
        BY <2>1, SameResizes
<1>5. QED
    BY <1>2, <1>3, <1>4

(* Within its capacity a file is resized without losing a block, unless the disk is full then. *)
LEMMA FileResizeAccounts ==
    ASSUME NEW mem \in Image, NEW i \in Inodes, HoldsOnce(mem, i), DenseFile(mem, i),
           NEW size \in Nat, size <= Capacity
    PROVE  /\ AccountsOrFull(mem, file_resize(mem, i, size), i)
           /\ size = 0 => Accounts(mem, file_resize(mem, i, size).mem, i)
<1> DEFINE now == get_file_size(mem, i)
           d   == Cardinality(Used(mem.inode[i].direct))
           s   == Cardinality(Used(Slots(mem, i)))
<1>1. /\ now \in Nat /\ d \in Nat /\ s \in Nat /\ now = d + s
      /\ INODE_DIRECT_NUM \in Nat /\ INDEX_NUM \in Nat
    BY SizeTyped, ConstantsTyped
<1> HIDE DEF now
<1>2. CASE now < size
    <2>1. size - now \in Nat /\ size # 0
        BY <1>1, <1>2
    <2>2. file_resize(mem, i, size) = Expand(mem, i, size - now)
        BY <1>1, <1>2 DEF file_resize, now
    <2>3. size - now <= Room(mem, i)
        <3>1. Room(mem, i) = (INODE_DIRECT_NUM - d) + (INDEX_NUM - s)
            BY DEF Room
        <3> HIDE DEF d, s
        <3>2. QED
            BY <1>1, <3>1 DEF Capacity
    <2>4. AccountsOrFull(mem, Expand(mem, i, size - now), i)
        BY <2>1, <2>3, ExpandResizes
    <2>5. QED
        BY <2>1, <2>2, <2>4
<1>3. CASE now > size
    <2>1. now - size \in Nat /\ ~(now < size)
        BY <1>1, <1>3
    <2>2. file_resize(mem, i, size).mem = Shrink(mem, i, now - size)
        BY <1>3, <2>1 DEF file_resize, now
    <2>3. Accounts(mem, Shrink(mem, i, now - size), i)
        BY <2>1, ShrinkResizes
    <2>4. QED
        BY <2>2, <2>3 DEF AccountsOrFull
<1>4. CASE ~(now < size) /\ ~(now > size)
    <2>1. file_resize(mem, i, size).mem = mem
        BY <1>4 DEF file_resize, now
    <2>2. Accounts(mem, mem, i)
        BY SameResizes
    <2>3. QED
        BY <2>1, <2>2 DEF AccountsOrFull
<1>5. QED
    BY <1>2, <1>3, <1>4

\* Inode i has no block at all.
NoBlocks(mem, i) == /\ mem.inode[i].indirect = None
                    /\ \A k \in 0..INODE_DIRECT_NUM - 1 : mem.inode[i].direct[k] = None

(* A file of no sector has no block either. *)
LEMMA EmptyFile ==
    ASSUME NEW mem \in Image, NEW i \in Inodes, HoldsOnce(mem, i), DenseFile(mem, i)
    PROVE  NoBlocks(mem, i) <=> get_file_size(mem, i) = 0
<1> DEFINE D == mem.inode[i].direct
           S == Slots(mem, i)
           d == Cardinality(Used(D))
           s == Cardinality(Used(S))
<1>1. /\ d \in Nat /\ s \in Nat /\ get_file_size(mem, i) = d + s
      /\ D \in [0..INODE_DIRECT_NUM - 1 -> Slot] /\ S \in [0..INDEX_NUM - 1 -> Slot]
      /\ INODE_DIRECT_NUM \in Nat /\ INODE_DIRECT_NUM > 0 /\ INDEX_NUM \in Nat
    BY SizeTyped, ImageTyped, ConstantsTyped
<1>2. IsFiniteSet(Used(D)) /\ IsFiniteSet(Used(S))
    <2> HIDE DEF D, S
    <2>1. QED
        BY <1>1, PlacesFinite
<1>3. (d = 0 <=> Used(D) = {}) /\ (s = 0 <=> Used(S) = {})
    BY <1>2, FS_EmptySet
<1>4. Used(D) = {} <=> \A k \in 0..INODE_DIRECT_NUM - 1 : D[k] = None
    BY <1>1 DEF Used
<1>5. ASSUME NoBlocks(mem, i) PROVE Used(D) = {} /\ Used(S) = {}
    <2>1. S = NoSlots
        BY <1>5 DEF NoBlocks, Slots
    <2>2. Used(NoSlots) = {}
        BY DEF NoSlots, Used
    <2>3. QED
        BY <1>4, <1>5, <2>1, <2>2 DEF NoBlocks
<1>6. ASSUME Used(D) = {} PROVE NoBlocks(mem, i)
    <2>1. 0 \in 0..INODE_DIRECT_NUM - 1 /\ D[0] = None
        BY <1>1, <1>4, <1>6
    <2>2. mem.inode[i].indirect = None
        BY <2>1 DEF DenseFile
    <2>3. QED
        BY <1>4, <1>6, <2>2 DEF NoBlocks
<1>7. (d + s = 0) <=> (d = 0 /\ s = 0)
    <2> HIDE DEF d, s
    <2>1. QED
        BY <1>1
<1>8. QED
    BY <1>1, <1>3, <1>5, <1>6, <1>7

(* file_resize to nothing gives every block back. *)
LEMMA ResizedToNothing ==
    ASSUME NEW mem \in Image, NEW i \in Inodes, HoldsOnce(mem, i), DenseFile(mem, i)
    PROVE  NoBlocks(file_resize(mem, i, 0).mem, i)
<1> DEFINE D   == mem.inode[i].direct
           S   == Slots(mem, i)
           x   == mem.inode[i].indirect
           d   == Cardinality(Used(D))
           s   == Cardinality(Used(S))
           now == get_file_size(mem, i)
<1>1. /\ d \in Nat /\ s \in Nat /\ now = d + s /\ now \in Nat
      /\ D \in [0..INODE_DIRECT_NUM - 1 -> Slot] /\ S \in [0..INDEX_NUM - 1 -> Slot]
      /\ INODE_DIRECT_NUM \in Nat /\ INODE_DIRECT_NUM > 0 /\ INDEX_NUM \in Nat
    BY SizeTyped, ImageTyped, ConstantsTyped
<1>2. CASE now = 0
    <2>1. ~(0 < 0)
        OBVIOUS
    <2>2. file_resize(mem, i, 0).mem = mem
        BY <1>2, <2>1 DEF file_resize
    <2>3. QED
        BY <1>2, <2>2, EmptyFile
<1>3. CASE now # 0
    <2> DEFINE DL == DirectLeft(mem, i, now)
               new == Shrink(mem, i, now)
    <2>1. file_resize(mem, i, 0).mem = new
        <3> HIDE DEF now
        <3>1. now > 0 /\ ~(now < 0) /\ now - 0 = now
            BY <1>1, <1>3
        <3>2. QED
            BY <3>1 DEF file_resize, now
    <2>2. \A k \in 0..INODE_DIRECT_NUM - 1 : DL[k] = None
        <3> HIDE DEF d, s, now
        <3>0. now - s = d /\ d \in Nat /\ d >= d /\ 0 <= d
            BY <1>1
        <3>1. Max({0, now - s}) = d
            BY <3>0, MinMaxOfTwo
        <3>2. DL = DropTop(D, d)
            BY <3>1 DEF DirectLeft, s
        <3> HIDE DEF D, DL
        <3>3. d >= Cardinality(Used(D)) => \A k \in 0..INODE_DIRECT_NUM - 1 : DropTop(D, d)[k] = None
            BY <1>1, DropTopProperties
        <3>4. d = Cardinality(Used(D))
            BY DEF d
        <3>5. QED
            BY <3>0, <3>2, <3>3, <3>4
    <2>3. x # None => IndexGoes(mem, i, now)
        <3>1. ASSUME x # None PROVE now > s
            <4>1. Used(D) # {}
                <5>1. 0 \in 0..INODE_DIRECT_NUM - 1 /\ D[0] # None
                    BY <1>1, <3>1 DEF DenseFile
                <5>2. QED
                    BY <1>1, <5>1 DEF Used
            <4>2. d # 0
                <5> HIDE DEF D
                <5>1. IsFiniteSet(Used(D))
                    BY <1>1, PlacesFinite
                <5>2. QED
                    BY <4>1, <5>1, FS_EmptySet
            <4> HIDE DEF d, s, now
            <4>3. QED
                BY <1>1, <4>2
        <3>2. QED
            BY <3>1 DEF IndexGoes
    <2>4. new.inode[i].direct = DL /\ new.inode[i].indirect = IF IndexGoes(mem, i, now) THEN None ELSE x
        <3> HIDE DEF now
        <3>1. QED
            BY <1>1, ShrinkResizes
    <2>5. NoBlocks(new, i)
        <3> HIDE DEF new, DL
        <3>1. QED
            BY <2>2, <2>3, <2>4 DEF NoBlocks
    <2>6. QED
        BY <2>1, <2>5
<1>4. QED
    BY <1>2, <1>3

(* A file of no sector that grows within the directs has its first directs used then. *)
LEMMA GrownFromNothing ==
    ASSUME NEW mem \in Image, NEW i \in Inodes, HoldsOnce(mem, i), DenseFile(mem, i), NoBlocks(mem, i),
           NEW size \in Nat, size > 0, size <= INODE_DIRECT_NUM, file_resize(mem, i, size).ok
    PROVE  \A j \in 0..size - 1 : file_resize(mem, i, size).mem.inode[i].direct[j] # None
<1> DEFINE D   == mem.inode[i].direct
           new == Expand(mem, i, size)
<1>1. /\ D \in [0..INODE_DIRECT_NUM - 1 -> Slot] /\ INODE_DIRECT_NUM \in Nat
    BY ImageTyped, ConstantsTyped
<1>2. get_file_size(mem, i) = 0
    BY EmptyFile
<1>3. file_resize(mem, i, size) = new
    <2>1. 0 < size /\ ~(0 > size) /\ size - 0 = size
        OBVIOUS
    <2>2. QED
        BY <1>2, <2>1 DEF file_resize
<1>4. Used(D) = {} /\ Cardinality(Used(D)) = 0
    <2>1. Used(D) = {}
        BY <1>1 DEF Used, NoBlocks
    <2>2. QED
        BY <2>1, FS_EmptySet
<1>5. size <= INODE_DIRECT_NUM - Cardinality(Used(D))
    <2>1. INODE_DIRECT_NUM - 0 = INODE_DIRECT_NUM
        BY <1>1
    <2> HIDE DEF D
    <2>2. QED
        BY <1>4, <2>1
<1>6. PICK q \in Seq(Blocks) : Different(q) /\ Len(q) = size /\ new.mem.inode[i].direct = FillHoles(D, q)
    <2> HIDE DEF new
    <2>1. new.ok
        BY <1>3
    <2>2. QED
        BY <1>5, <2>1, ExpandResizes DEF new
<1>7. \A j \in 0..INODE_DIRECT_NUM - 1 : j < Len(q) => FillHoles(D, q)[j] # None
    <2> HIDE DEF D
    <2>1. QED
        BY <1>1, <1>4, <1>6, FillHolesProperties
<1>8. \A j \in 0..size - 1 : j \in 0..INODE_DIRECT_NUM - 1 /\ j < size
    BY <1>1
<1>9. QED
    <2> HIDE DEF D, new
    <2>1. QED
        BY <1>3, <1>6, <1>7, <1>8

(* What is written into the directs of a file is nobody else's. *)
LEMMA WrittenResizes ==
    ASSUME NEW mem \in Image, NEW i \in Inodes, NEW new, Resized(mem, new, i),
           NEW S, \A b \in S : \E k \in 0..INODE_DIRECT_NUM - 1 : b = new.inode[i].direct[k] /\ b \in Blocks,
           NEW text, text = [new EXCEPT !.sector = Marked(@, S, Data)]
    PROVE  Resized(mem, text, i) /\ (Accounts(mem, new, i) => Accounts(mem, text, i))
<1> DEFINE cont == Marked(new.sector, S, Data)
<1>1. new \in Image
    BY DEF Resized
<1>2. /\ new.sector \in [Blocks -> Sector]
      /\ new.inode[i].direct \in [0..INODE_DIRECT_NUM - 1 -> Slot] /\ new.inode[i].indirect \in Slot
    BY <1>1, ImageTyped
<1>3. cont \in [Blocks -> Sector] /\ \A b \in Blocks \ S : cont[b] = new.sector[b]
    <2>1. Data \in Sector
        BY DEF Sector
    <2>2. QED
        BY <1>2, <2>1 DEF Marked
<1>4. text = [new EXCEPT !.sector = cont]
    BY <1>1 DEF Image
<1> HIDE DEF cont
<1>5. /\ text.inode_bitmap = new.inode_bitmap /\ text.data_bitmap = new.data_bitmap
      /\ text.inode = new.inode /\ text.sector = cont
    BY <1>1, <1>4 DEF Image
<1>6. text \in Image
    <2> DEFINE IB  == [Inodes -> BOOLEAN]
               DB  == [Blocks -> BOOLEAN]
               IN1 == [Inodes -> Inode]
               SE  == [Blocks -> Sector]
    <2>1. new \in [inode_bitmap : IB, data_bitmap : DB, inode : IN1, sector : SE] /\ cont \in SE
        BY <1>1, <1>3 DEF Image
    <2>2. SUFFICES text \in [inode_bitmap : IB, data_bitmap : DB, inode : IN1, sector : SE]
        BY DEF Image
    <2> HIDE DEF IB, DB, IN1, SE
    <2>3. QED
        BY <1>4, <2>1
<1>7. ASSUME NEW b \in S
      PROVE  /\ \E k \in 0..INODE_DIRECT_NUM - 1 : b = At(new, i, <<"direct", k>>) /\ b # None
             /\ b # new.inode[i].indirect
             /\ b \in Blocks /\ (~mem.data_bitmap[b] \/ \E r \in Places : At(mem, i, r) = b)
    <2>1. PICK k \in 0..INODE_DIRECT_NUM - 1 : b = new.inode[i].direct[k] /\ b \in Blocks
        OBVIOUS
    <2>2. b = At(new, i, <<"direct", k>>) /\ <<"direct", k>> \in Places /\ b # None
        BY <2>1, AtDirect, ConstantsTyped
    <2>3. b # new.inode[i].indirect
        <3>1. new.inode[i].indirect = At(new, i, <<"indirect", 0>>) /\ <<"indirect", 0>> \in Places
            BY AtIndirect
        <3>2. <<"direct", k>> # <<"indirect", 0>>
            OBVIOUS
        <3>3. QED
            BY <2>2, <3>1, <3>2 DEF Resized, HoldsOnce
    <2>4. QED
        BY <2>1, <2>2, <2>3 DEF Resized
<1>8. /\ new.inode[i].indirect # None => cont[new.inode[i].indirect] = new.sector[new.inode[i].indirect]
      /\ Slots(text, i) = Slots(new, i)
    <2>1. new.inode[i].indirect # None => cont[new.inode[i].indirect] = new.sector[new.inode[i].indirect]
        BY <1>2, <1>3, <1>7 DEF Slot
    <2>2. QED
        BY <1>5, <2>1 DEF Slots
<1>9. \A p \in Places : At(text, i, p) = At(new, i, p)
    BY <1>5, <1>8 DEF At
<1>10. HoldsOnce(text, i)
    BY <1>5, <1>9 DEF Resized, HoldsOnce
<1>11. DenseFile(text, i)
    BY <1>5, <1>8 DEF Resized, DenseFile
<1>12. ASSUME NEW b \in Blocks, mem.data_bitmap[b], \A r \in Places : At(mem, i, r) # b
       PROVE  text.data_bitmap[b] /\ text.sector[b] = mem.sector[b]
    <2>1. b \notin S
        BY <1>7, <1>12
    <2>2. new.data_bitmap[b] /\ new.sector[b] = mem.sector[b]
        BY <1>12 DEF Resized
    <2>3. QED
        BY <1>3, <1>5, <2>1, <2>2
<1>13. Resized(mem, text, i)
    BY <1>5, <1>6, <1>9, <1>10, <1>11, <1>12 DEF Resized
<1>14. Accounts(mem, new, i) => Accounts(mem, text, i)
    BY <1>5, <1>9 DEF Accounts
<1>15. QED
    BY <1>13, <1>14

----------------------------------------------------------------------------
(* The inductive invariant *)

Live(mem) == {j \in Inodes : mem.inode_bitmap[j]}

Dirs(mem) == {j \in Live(mem) : mem.inode[j].type = Directory}

\* Nothing but the first direct may be set: so it is with directories and free inodes.
OnlyFirst(mem, i) == \A p \in Places \ {<<"direct", 0>>} : At(mem, i, p) = None

\* Each inode in use holds blocks of its own, which are marked; files are filled from the
\* left, directories consist of one directory block, and free inodes hold nothing that
\* whoever takes them next would take over.
BlocksSound(mem) ==
    /\ mem \in Image
    /\ \A i \in Live(mem) : HoldsOnce(mem, i)
    /\ \A i, j \in Live(mem) : i # j =>
           \A p, r \in Places : At(mem, i, p) # None => At(mem, i, p) # At(mem, j, r)
    /\ \A i \in Live(mem) \ Dirs(mem) : DenseFile(mem, i)
    /\ \A d \in Dirs(mem) : /\ mem.inode[d].direct[0] # None
                            /\ mem.sector[mem.inode[d].direct[0]].kind = "dir"
    /\ \A i \in Inodes \ (Live(mem) \ Dirs(mem)) : OnlyFirst(mem, i)

\* What the directories in use list.
Listing(mem) == [d \in Dirs(mem) |-> Children(mem, d)]

\* Entry k of directory d names i, other than as "." or "..".
Lists(C, d, k, i) == /\ d \in DOMAIN C /\ k \in 1..Len(C[d])
                     /\ C[d][k].name \notin {".", ".."} /\ C[d][k].loc = i

\* The directories, which list C, are directories of L and begin with "." and "..".
DirectoriesOf(L, C) ==
    /\ 0 \in DOMAIN C /\ DOMAIN C \subseteq L /\ L \subseteq Inodes
    /\ \A d \in DOMAIN C : /\ C[d] \in Seq(Entry) /\ Len(C[d]) >= 1 /\ C[d][1].name = "."
                           /\ d # 0 => Len(C[d]) >= 2 /\ C[d][2].name = ".."

NamesDiffer(C) == \A d \in DOMAIN C : \A k, l \in 1..Len(C[d]) : C[d][k].name = C[d][l].name => k = l

\* "." leads to the directory itself, ".." to one that lists it, a name to an inode of L.
EntriesLead(L, C) ==
    \A d \in DOMAIN C : \A k \in 1..Len(C[d]) :
        /\ C[d][k].name = "."  => C[d][k].loc = d
        /\ C[d][k].name = ".." => \E l \in Nat : Lists(C, C[d][k].loc, l, d)
        /\ C[d][k].name \notin {".", ".."} => C[d][k].loc \in L \ {0}

ListedOnce(L, C) == \A i \in L : \A d, e, k, l : Lists(C, d, k, i) /\ Lists(C, e, l, i) => d = e /\ k = l

\* From no set of inodes without the root all ways up stay inside.
NoneCutOff(L, C) == \A S \in SUBSET (L \ {0}) : S # {} =>
                        \E i \in S, d \in DOMAIN C \ S : \E k \in Nat : Lists(C, d, k, i)

\* The directories, which list C, make a tree of L.
TreeOn(L, C) == /\ DirectoriesOf(L, C) /\ NamesDiffer(C) /\ EntriesLead(L, C)
                /\ ListedOnce(L, C) /\ NoneCutOff(L, C)

Sound(mem) == BlocksSound(mem) /\ TreeOn(Live(mem), Listing(mem))

(* Taking an element out of a sequence. *)
LEMMA WithoutElement ==
    ASSUME NEW X, NEW s \in Seq(X), NEW k \in 1..Len(s)
    PROVE  /\ RemoveAt(s, k) \in Seq(X) /\ Len(RemoveAt(s, k)) = Len(s) - 1
           /\ \A l \in 1..Len(s) - 1 : RemoveAt(s, k)[l] = IF l < k THEN s[l] ELSE s[l + 1]
<1> DEFINE a == SubSeq(s, 1, k - 1)
           b == SubSeq(s, k + 1, Len(s))
<1>1. Len(s) \in Nat /\ k \in Nat /\ 1 <= k /\ k <= Len(s)
    OBVIOUS
<1>2. /\ a \in Seq(X) /\ Len(a) = k - 1 /\ \A l \in 1..k - 1 : a[l] = s[l]
      /\ b \in Seq(X) /\ Len(b) = Len(s) - k /\ \A l \in 1..Len(s) - k : b[l] = s[k + l]
    <2>1. a \in Seq(X) /\ Len(a) = k - 1 /\ \A l \in 1..k - 1 : a[l] = s[l]
        BY <1>1
    <2>2. b \in Seq(X) /\ Len(b) = Len(s) - k /\ \A l \in 1..Len(s) - k : b[l] = s[k + l]
        BY <1>1
    <2>3. QED
        BY <2>1, <2>2
<1>3. RemoveAt(s, k) = a \o b
    BY DEF RemoveAt
<1> HIDE DEF a, b
<1>4. /\ a \o b \in Seq(X) /\ Len(a \o b) = Len(s) - 1
      /\ \A l \in 1..Len(s) - 1 : (a \o b)[l] = IF l < k THEN s[l] ELSE s[l + 1]
    <2>0. /\ a \o b \in Seq(X) /\ Len(a \o b) = Len(a) + Len(b)
          /\ \A l \in 1..Len(a) + Len(b) : (a \o b)[l] = IF l <= Len(a) THEN a[l] ELSE b[l - Len(a)]
        BY <1>2, ConcatProperties
    <2>1. a \o b \in Seq(X) /\ Len(a \o b) = Len(s) - 1
        <3>1. Len(a) + Len(b) = Len(s) - 1
            BY <1>1, <1>2
        <3>2. QED
            BY <2>0, <3>1
    <2>2. ASSUME NEW l \in 1..Len(s) - 1
          PROVE  (a \o b)[l] = IF l < k THEN s[l] ELSE s[l + 1]
        <3>1. CASE l < k
            <4>1. l \in 1..k - 1 /\ l \in 1..Len(a) + Len(b) /\ l <= Len(a)
                BY <1>1, <1>2, <3>1
            <4>2. (a \o b)[l] = a[l]
                BY <2>0, <4>1
            <4>3. QED
                BY <1>2, <3>1, <4>1, <4>2
        <3>2. CASE ~(l < k)
            <4>1. l - Len(a) \in 1..Len(s) - k /\ l \in 1..Len(a) + Len(b) /\ ~(l <= Len(a)) /\ k + (l - Len(a)) = l + 1
                BY <1>1, <1>2, <3>2
            <4>2. (a \o b)[l] = b[l - Len(a)]
                BY <2>0, <4>1
            <4>3. QED
                BY <1>2, <3>2, <4>1, <4>2
        <3>3. QED
            BY <3>1, <3>2
    <2>3. QED
        BY <2>1, <2>2
<1>5. QED
    BY <1>3, <1>4

\* C2 is C with a new entry in directory d0 for the new inode i, a file or a directory.
Extended(C, C2, d0, i, name) ==
    /\ DOMAIN C2 = DOMAIN C \/ DOMAIN C2 = DOMAIN C \cup {i}
    /\ \A d \in DOMAIN C \ {d0} : C2[d] = C[d]
    /\ C2[d0] = Append(C[d0], [name |-> name, loc |-> i])
    /\ i \in DOMAIN C2 => C2[i] = <<[name |-> ".", loc |-> i], [name |-> "..", loc |-> d0]>>

(* A new entry, of a file or of an empty directory, makes a larger tree. *)
LEMMA TreeGrows ==
    ASSUME NEW L, NEW C, TreeOn(L, C), NEW C2, NEW d0 \in DOMAIN C, NEW i \in Inodes \ L, NEW name \in Names,
           \A k \in 1..Len(C[d0]) : C[d0][k].name # name,
           Extended(C, C2, d0, i, name)
    PROVE  TreeOn(L \cup {i}, C2)
<1> DEFINE n   == Len(C[d0])
           new == [name |-> name, loc |-> i]
<1>0. /\ name \notin {".", ".."}
      /\ DOMAIN C2 = DOMAIN C \/ DOMAIN C2 = DOMAIN C \cup {i}
      /\ \A d \in DOMAIN C \ {d0} : C2[d] = C[d]
      /\ C2[d0] = Append(C[d0], new)
      /\ i \in DOMAIN C2 => C2[i] = <<[name |-> ".", loc |-> i], [name |-> "..", loc |-> d0]>>
    BY FileSystemAssumption DEF Extended
<1>1. /\ 0 \in DOMAIN C /\ DOMAIN C \subseteq L /\ L \subseteq Inodes /\ i \notin DOMAIN C /\ d0 # i
      /\ DOMAIN C \subseteq DOMAIN C2 /\ DOMAIN C2 \subseteq DOMAIN C \cup {i}
    BY <1>0 DEF TreeOn, DirectoriesOf
<1>2. /\ \A d \in DOMAIN C : C[d] \in Seq(Entry) /\ Len(C[d]) \in Nat
      /\ n \in Nat /\ n >= 1 /\ C[d0] \in Seq(Entry) /\ new \in Entry
    <2>1. \A d \in DOMAIN C : C[d] \in Seq(Entry) /\ Len(C[d]) \in Nat /\ Len(C[d]) >= 1
        BY DEF TreeOn, DirectoriesOf
    <2>2. new \in Entry
        BY DEF Entry
    <2>3. QED
        BY <2>1, <2>2
<1>3. /\ C2[d0] \in Seq(Entry) /\ Len(C2[d0]) = n + 1 /\ C2[d0][n + 1] = new
      /\ \A k \in 1..n : C2[d0][k] = C[d0][k]
    <2> HIDE DEF new
    <2>1. C2[d0] = Append(C[d0], new)
        BY <1>0 DEF new
    <2>2. QED
        BY <1>2, <2>1
<1>4. i \in DOMAIN C2 => /\ C2[i] \in Seq(Entry) /\ Len(C2[i]) = 2
                         /\ C2[i][1] = [name |-> ".", loc |-> i] /\ C2[i][2] = [name |-> "..", loc |-> d0]
    <2> DEFINE self == [name |-> ".", loc |-> i]
               up   == [name |-> "..", loc |-> d0]
    <2>1. self \in Entry /\ up \in Entry
        BY <1>1 DEF Entry
    <2>2. i \in DOMAIN C2 => C2[i] = <<self, up>>
        BY <1>0
    <2> HIDE DEF self, up
    <2>3. /\ <<self, up>> \in Seq(Entry) /\ Len(<<self, up>>) = 2
          /\ <<self, up>>[1] = self /\ <<self, up>>[2] = up
        BY <2>1
    <2>4. i \in DOMAIN C2 => /\ C2[i] \in Seq(Entry) /\ Len(C2[i]) = 2 /\ C2[i][1] = self /\ C2[i][2] = up
        BY <2>2, <2>3
    <2>5. QED
        BY <2>4 DEF self, up
<1>5. \A d, k, j : Lists(C2, d, k, j) <=> Lists(C, d, k, j) \/ (d = d0 /\ k = n + 1 /\ j = i)
    <2> TAKE d, k, j
    <2>1. CASE d = d0
        <3>1. k \in 1..n + 1 <=> k \in 1..n \/ k = n + 1
            BY <1>2
        <3>2. k = n + 1 => k \notin 1..n
            BY <1>2
        <3>3. QED
            BY <1>0, <1>1, <1>3, <2>1, <3>1, <3>2 DEF Lists
    <2>2. CASE d = i
        <3>1. \A l \in 1..2 : l = 1 \/ l = 2
            OBVIOUS
        <3>2. QED
            BY <1>1, <1>4, <2>2, <3>1 DEF Lists
    <2>3. CASE d # d0 /\ d # i
        BY <1>0, <1>1, <2>3 DEF Lists
    <2>4. QED
        BY <2>1, <2>2, <2>3
<1>6. 0 \in DOMAIN C2 /\ DOMAIN C2 \subseteq L \cup {i} /\ L \cup {i} \subseteq Inodes
    BY <1>1
<1>7. ASSUME NEW d \in DOMAIN C2
      PROVE  /\ C2[d] \in Seq(Entry) /\ Len(C2[d]) >= 1 /\ C2[d][1].name = "."
             /\ d # 0 => Len(C2[d]) >= 2 /\ C2[d][2].name = ".."
    <2>1. \A e \in DOMAIN C : /\ C[e] \in Seq(Entry) /\ Len(C[e]) >= 1 /\ C[e][1].name = "."
                              /\ e # 0 => Len(C[e]) >= 2 /\ C[e][2].name = ".."
        BY DEF TreeOn, DirectoriesOf
    <2>2. CASE d = d0
        <3>1. 1 \in 1..n /\ n + 1 >= 1 /\ (n >= 2 => 2 \in 1..n /\ n + 1 >= 2)
            BY <1>2
        <3>2. QED
            BY <1>3, <2>1, <2>2, <3>1
    <2>3. CASE d = i
        <3>1. i \in DOMAIN C2
            BY <2>3
        <3>2. C2[i][1].name = "." /\ C2[i][2].name = ".." /\ C2[i] \in Seq(Entry) /\ Len(C2[i]) = 2
            BY <1>4, <3>1
        <3>3. QED
            BY <2>3, <3>2
    <2>4. CASE d # d0 /\ d # i
        BY <1>0, <1>1, <2>1, <2>4
    <2>5. QED
        BY <2>2, <2>3, <2>4
<1>8. ASSUME NEW d \in DOMAIN C2, NEW k \in 1..Len(C2[d]), NEW l \in 1..Len(C2[d]), C2[d][k].name = C2[d][l].name
      PROVE  k = l
    <2>1. \A e \in DOMAIN C : \A a, b \in 1..Len(C[e]) : C[e][a].name = C[e][b].name => a = b
        BY DEF TreeOn, NamesDiffer
    <2>2. CASE d = d0
        <3>1. \A a \in 1..n + 1 : a \in 1..n \/ a = n + 1
            BY <1>2
        <3>2. C2[d0][n + 1].name = name
            BY <1>3
        <3>3. QED
            BY <1>3, <1>8, <2>1, <2>2, <3>1, <3>2
    <2>3. CASE d = i
        <3>1. \A a \in 1..2 : a = 1 \/ a = 2
            OBVIOUS
        <3>2. C2[i][1].name = "." /\ C2[i][2].name = ".."
            BY <1>4, <2>3
        <3>3. QED
            BY <1>4, <1>8, <2>3, <3>1, <3>2
    <2>4. CASE d # d0 /\ d # i
        BY <1>0, <1>1, <1>8, <2>1, <2>4
    <2>5. QED
        BY <2>2, <2>3, <2>4
<1>9. ASSUME NEW d \in DOMAIN C2, NEW k \in 1..Len(C2[d])
      PROVE  /\ C2[d][k].name = "."  => C2[d][k].loc = d
             /\ C2[d][k].name = ".." => \E l \in Nat : Lists(C2, C2[d][k].loc, l, d)
             /\ C2[d][k].name \notin {".", ".."} => C2[d][k].loc \in (L \cup {i}) \ {0}
    <2>1. ASSUME NEW e \in DOMAIN C, NEW a \in 1..Len(C[e])
          PROVE  /\ C[e][a].name = "."  => C[e][a].loc = e
                 /\ C[e][a].name = ".." => \E l \in Nat : Lists(C2, C[e][a].loc, l, e)
                 /\ C[e][a].name \notin {".", ".."} => C[e][a].loc \in (L \cup {i}) \ {0}
        <3>1. /\ C[e][a].name = "."  => C[e][a].loc = e
              /\ C[e][a].name = ".." => \E l \in Nat : Lists(C, C[e][a].loc, l, e)
              /\ C[e][a].name \notin {".", ".."} => C[e][a].loc \in L \ {0}
            BY DEF TreeOn, EntriesLead
        <3>2. QED
            BY <1>5, <3>1
    <2>2. CASE d = d0
        <3>1. \A a \in 1..n + 1 : a \in 1..n \/ a = n + 1
            BY <1>2
        <3>2. i # 0
            BY <1>1
        <3>3. CASE k \in 1..n
            BY <1>3, <2>1, <2>2, <3>3
        <3>4. CASE k = n + 1
            BY <1>0, <1>3, <2>2, <3>2, <3>4
        <3>5. QED
            BY <1>3, <2>2, <3>1, <3>3, <3>4
    <2>3. CASE d = i
        <3>0. i \in DOMAIN C2
            BY <2>3
        <3>a. Len(C2[i]) = 2 /\ C2[i][1] = [name |-> ".", loc |-> i] /\ C2[i][2] = [name |-> "..", loc |-> d0]
            BY <1>4, <3>0
        <3>1. k = 1 \/ k = 2
            BY <2>3, <3>a
        <3>2. Lists(C2, d0, n + 1, i) /\ n + 1 \in Nat
            BY <1>2, <1>5
        <3>3. QED
            BY <2>3, <3>a, <3>1, <3>2
    <2>4. CASE d # d0 /\ d # i
        BY <1>0, <1>1, <2>1, <2>4
    <2>5. QED
        BY <2>2, <2>3, <2>4
<1>10. ASSUME NEW d, NEW k, Lists(C, d, k, i) PROVE FALSE
    <2>1. d \in DOMAIN C /\ k \in 1..Len(C[d]) /\ C[d][k].name \notin {".", ".."} /\ C[d][k].loc = i
        BY <1>10 DEF Lists
    <2>2. EntriesLead(L, C)
        BY DEF TreeOn
    <2>3. i \in L
        BY <2>1, <2>2 DEF EntriesLead
    <2>4. QED
        BY <2>3
<1>11. ASSUME NEW d, NEW e, NEW k, NEW l, NEW j \in L \cup {i},
              Lists(C2, d, k, j), Lists(C2, e, l, j)
       PROVE  d = e /\ k = l
    <2>1. CASE j = i
        BY <1>5, <1>10, <1>11, <2>1
    <2>2. CASE j # i
        <3>1. Lists(C, d, k, j) /\ Lists(C, e, l, j)
            BY <1>5, <1>11, <2>2
        <3>2. QED
            BY <2>2, <3>1 DEF TreeOn, ListedOnce
    <2>3. QED
        BY <2>1, <2>2
<1>12. ASSUME NEW S \in SUBSET ((L \cup {i}) \ {0}), S # {}
       PROVE  \E j \in S, d \in DOMAIN C2 \ S : \E k \in Nat : Lists(C2, d, k, j)
    <2>1. \A U \in SUBSET (L \ {0}) : U # {} =>
              \E j \in U, d \in DOMAIN C \ U : \E k \in Nat : Lists(C, d, k, j)
        BY DEF TreeOn, NoneCutOff
    <2>2. CASE i \in S /\ d0 \notin S
        <3>1. Lists(C2, d0, n + 1, i) /\ n + 1 \in Nat /\ d0 \in DOMAIN C2 \ S
            BY <1>1, <1>2, <1>5, <2>2
        <3>2. QED
            BY <2>2, <3>1
    <2>3. CASE i \notin S \/ d0 \in S
        <3>1. S \ {i} \in SUBSET (L \ {0}) /\ S \ {i} # {}
            BY <1>1, <1>12, <2>3
        <3>2. PICK j \in S \ {i}, d \in DOMAIN C \ (S \ {i}) : \E k \in Nat : Lists(C, d, k, j)
            BY <2>1, <3>1
        <3>3. d \in DOMAIN C2 \ S
            BY <1>1, <3>2
        <3>4. QED
            BY <1>5, <3>2, <3>3
    <2>4. QED
        BY <2>2, <2>3
<1>13. DirectoriesOf(L \cup {i}, C2)
    BY <1>6, <1>7 DEF DirectoriesOf
<1>14. NamesDiffer(C2)
    BY <1>8 DEF NamesDiffer
<1>15. EntriesLead(L \cup {i}, C2)
    BY <1>9 DEF EntriesLead
<1>16. ListedOnce(L \cup {i}, C2)
    BY <1>11 DEF ListedOnce
<1>17. NoneCutOff(L \cup {i}, C2)
    BY <1>12 DEF NoneCutOff
<1>18. QED
    BY <1>13, <1>14, <1>15, <1>16, <1>17 DEF TreeOn

\* C2 is C without entry k0 of directory d0, which names i, and without i, which names nothing.
Pruned(C, C2, d0, k0, i) ==
    /\ Lists(C, d0, k0, i) /\ \A l, j : ~Lists(C, i, l, j)
    /\ DOMAIN C2 = DOMAIN C \ {i}
    /\ \A d \in DOMAIN C \ {d0, i} : C2[d] = C[d]
    /\ C2[d0] = RemoveAt(C[d0], k0)

(* Without the entry of a file or of an empty directory, the rest is still a tree. *)
LEMMA TreeShrinks ==
    ASSUME NEW L, NEW C, TreeOn(L, C), NEW i \in L, NEW C2, NEW d0, NEW k0, Pruned(C, C2, d0, k0, i)
    PROVE  TreeOn(L \ {i}, C2) /\ i # d0 /\ d0 \in DOMAIN C2
<1> DEFINE n == Len(C[d0])
           Old(d, k) == IF d = d0 /\ ~(k < k0) THEN k + 1 ELSE k
           New(d, k) == IF d = d0 /\ k0 < k THEN k - 1 ELSE k
<1>0. /\ Lists(C, d0, k0, i) /\ \A l, j : ~Lists(C, i, l, j)
      /\ DOMAIN C2 = DOMAIN C \ {i}
      /\ \A d \in DOMAIN C \ {d0, i} : C2[d] = C[d]
      /\ C2[d0] = RemoveAt(C[d0], k0)
    BY DEF Pruned
<1>1. /\ d0 \in DOMAIN C /\ i # d0 /\ d0 \in DOMAIN C2 /\ k0 \in 1..n
      /\ C[d0][k0].name \notin {".", ".."} /\ C[d0][k0].loc = i
    <2>1. d0 \in DOMAIN C /\ k0 \in 1..n /\ C[d0][k0].name \notin {".", ".."} /\ C[d0][k0].loc = i
        BY <1>0 DEF Lists
    <2>2. i # d0
        BY <1>0
    <2>3. QED
        BY <1>0, <2>1, <2>2
<1>2. /\ DirectoriesOf(L, C) /\ NamesDiffer(C) /\ EntriesLead(L, C) /\ ListedOnce(L, C) /\ NoneCutOff(L, C)
    BY DEF TreeOn
<1>3. /\ 0 \in DOMAIN C /\ DOMAIN C \subseteq L /\ L \subseteq Inodes
      /\ \A d \in DOMAIN C : C[d] \in Seq(Entry) /\ Len(C[d]) \in Nat
      /\ n \in Nat /\ C[d0] \in Seq(Entry) /\ k0 \in Nat
    <2>1. \A d \in DOMAIN C : C[d] \in Seq(Entry) /\ Len(C[d]) \in Nat
        BY <1>2 DEF DirectoriesOf
    <2>2. QED
        BY <1>1, <1>2, <2>1 DEF DirectoriesOf
<1>4. i # 0
    BY <1>1, <1>2 DEF EntriesLead
<1>5. C2[d0] \in Seq(Entry) /\ Len(C2[d0]) = n - 1 /\ \A k \in 1..n - 1 : C2[d0][k] = IF k < k0 THEN C[d0][k] ELSE C[d0][k + 1]
    <2> DEFINE s == C[d0]
               r == RemoveAt(s, k0)
    <2>1. s \in Seq(Entry) /\ k0 \in 1..Len(s) /\ C2[d0] = r
        BY <1>0, <1>1, <1>3
    <2> HIDE DEF s
    <2>2. /\ r \in Seq(Entry) /\ Len(r) = Len(s) - 1
          /\ \A k \in 1..Len(s) - 1 : r[k] = IF k < k0 THEN s[k] ELSE s[k + 1]
        BY <2>1, WithoutElement
    <2> HIDE DEF r
    <2>3. /\ C2[d0] \in Seq(Entry) /\ Len(C2[d0]) = Len(s) - 1
          /\ \A k \in 1..Len(s) - 1 : C2[d0][k] = IF k < k0 THEN s[k] ELSE s[k + 1]
        BY <2>1, <2>2
    <2>4. QED
        BY <2>3 DEF s
<1>6. ASSUME NEW d \in DOMAIN C2, NEW k \in 1..Len(C2[d])
      PROVE  d \in DOMAIN C /\ d # i /\ Old(d, k) \in 1..Len(C[d]) /\ C2[d][k] = C[d][Old(d, k)] /\ ~(d = d0 /\ Old(d, k) = k0)
    <2>1. d \in DOMAIN C /\ d # i
        BY <1>0
    <2>2. CASE d = d0
        <3>1. k \in 1..n - 1
            BY <1>5, <2>2
        <3>2. CASE k < k0
            <4>1. Old(d, k) = k /\ k \in 1..n /\ k # k0
                BY <1>1, <1>3, <3>1, <3>2
            <4>2. QED
                BY <1>5, <2>1, <2>2, <3>1, <3>2, <4>1
        <3>3. CASE ~(k < k0)
            <4>1. Old(d, k) = k + 1 /\ k + 1 \in 1..n /\ k + 1 # k0
                BY <1>1, <1>3, <2>2, <3>1, <3>3
            <4>2. QED
                BY <1>5, <2>1, <2>2, <3>1, <3>3, <4>1
        <3>4. QED
            BY <3>2, <3>3
    <2>3. CASE d # d0
        BY <1>0, <2>1, <2>3
    <2>4. QED
        BY <2>2, <2>3
<1>7. ASSUME NEW d \in DOMAIN C, d # i, NEW l \in 1..Len(C[d]), ~(d = d0 /\ l = k0)
      PROVE  /\ d \in DOMAIN C2 /\ New(d, l) \in 1..Len(C2[d]) /\ C2[d][New(d, l)] = C[d][l]
             /\ l < k0 => New(d, l) = l
    <2>1. d \in DOMAIN C2
        BY <1>0, <1>7
    <2>2. CASE d = d0
        <3>1. CASE k0 < l
            <4>1. New(d, l) = l - 1 /\ l - 1 \in 1..n - 1 /\ ~(l - 1 < k0) /\ (l - 1) + 1 = l /\ ~(l < k0)
                BY <1>1, <1>3, <2>2, <3>1
            <4>2. QED
                BY <1>5, <2>1, <2>2, <4>1
        <3>2. CASE ~(k0 < l)
            <4>1. New(d, l) = l /\ l \in 1..n - 1 /\ l < k0
                BY <1>1, <1>3, <1>7, <2>2, <3>2
            <4>2. QED
                BY <1>5, <2>1, <2>2, <4>1
        <3>3. QED
            BY <3>1, <3>2
    <2>3. CASE d # d0
        BY <1>0, <1>7, <2>1, <2>3
    <2>4. QED
        BY <2>2, <2>3
<1>8. ASSUME NEW d, NEW k, NEW j, Lists(C2, d, k, j)
      PROVE  Lists(C, d, Old(d, k), j) /\ d # i /\ j # i /\ k \in Nat
    <2>1. /\ d \in DOMAIN C2 /\ k \in 1..Len(C2[d]) /\ C2[d][k].name \notin {".", ".."} /\ C2[d][k].loc = j
        BY <1>8 DEF Lists
    <2>2. d \in DOMAIN C /\ d # i /\ Old(d, k) \in 1..Len(C[d]) /\ C2[d][k] = C[d][Old(d, k)] /\ ~(d = d0 /\ Old(d, k) = k0)
        BY <1>6, <2>1
    <2> HIDE DEF Old
    <2>3. Lists(C, d, Old(d, k), j)
        BY <2>1, <2>2 DEF Lists
    <2>4. j # i
        BY <1>0, <1>2, <2>2, <2>3 DEF ListedOnce
    <2>5. QED
        BY <2>1, <2>2, <2>3, <2>4
<1>9. ASSUME NEW d, NEW l, NEW j, Lists(C, d, l, j), j # i
      PROVE  d # i /\ New(d, l) \in Nat /\ Lists(C2, d, New(d, l), j)
    <2>1. d \in DOMAIN C /\ l \in 1..Len(C[d]) /\ C[d][l].name \notin {".", ".."} /\ C[d][l].loc = j
        BY <1>9 DEF Lists
    <2>2. d # i /\ ~(d = d0 /\ l = k0)
        BY <1>0, <1>1, <1>9, <2>1
    <2>3. d \in DOMAIN C2 /\ New(d, l) \in 1..Len(C2[d]) /\ C2[d][New(d, l)] = C[d][l]
        BY <1>7, <2>1, <2>2
    <2> HIDE DEF New
    <2>4. QED
        BY <2>1, <2>2, <2>3 DEF Lists
<1>10. DirectoriesOf(L \ {i}, C2)
    <2>1. 0 \in DOMAIN C2 /\ DOMAIN C2 \subseteq L \ {i} /\ L \ {i} \subseteq Inodes
        BY <1>0, <1>3, <1>4
    <2>2. ASSUME NEW d \in DOMAIN C2
          PROVE  /\ C2[d] \in Seq(Entry) /\ Len(C2[d]) >= 1 /\ C2[d][1].name = "."
                 /\ d # 0 => Len(C2[d]) >= 2 /\ C2[d][2].name = ".."
        <3>1. /\ C[d] \in Seq(Entry) /\ Len(C[d]) \in Nat /\ Len(C[d]) >= 1 /\ C[d][1].name = "."
              /\ d # 0 => Len(C[d]) >= 2 /\ C[d][2].name = ".."
            BY <1>0, <1>2, <1>3 DEF DirectoriesOf
        <3>2. CASE d # d0
            BY <1>0, <3>1, <3>2
        <3>3. CASE d = d0
            <4>1. k0 # 1 /\ (d # 0 => k0 # 2)
                BY <1>1, <3>1, <3>3
            <4>2. 1 \in 1..Len(C[d]) /\ 1 < k0
                BY <1>1, <1>3, <3>1, <4>1
            <4>3. New(d, 1) = 1 /\ 1 \in 1..Len(C2[d]) /\ C2[d][1] = C[d][1]
                <5> HIDE DEF New
                <5>1. New(d, 1) = 1 /\ New(d, 1) \in 1..Len(C2[d]) /\ C2[d][New(d, 1)] = C[d][1]
                    BY <1>0, <1>7, <4>1, <4>2
                <5>2. QED
                    BY <5>1
            <4>4. d # 0 => 2 \in 1..Len(C2[d]) /\ C2[d][2] = C[d][2]
                <5>1. ASSUME d # 0 PROVE 2 \in 1..Len(C2[d]) /\ C2[d][2] = C[d][2]
                    <6>1. 2 \in 1..Len(C[d]) /\ 2 < k0 /\ 2 # k0
                        BY <1>1, <1>3, <3>1, <3>3, <4>1, <5>1
                    <6> HIDE DEF New
                    <6>2. New(d, 2) = 2 /\ New(d, 2) \in 1..Len(C2[d]) /\ C2[d][New(d, 2)] = C[d][2]
                        BY <1>0, <1>7, <6>1
                    <6>3. QED
                        BY <6>2
                <5>2. QED
                    BY <5>1
            <4>5. C2[d] \in Seq(Entry) /\ Len(C2[d]) \in Nat
                BY <1>5, <3>3
            <4> HIDE DEF New
            <4>6. QED
                BY <3>1, <4>3, <4>4, <4>5
        <3>4. QED
            BY <3>2, <3>3
    <2>3. QED
        BY <2>1, <2>2 DEF DirectoriesOf
<1>11. NamesDiffer(C2)
    <2>1. ASSUME NEW d \in DOMAIN C2, NEW k \in 1..Len(C2[d]), NEW l \in 1..Len(C2[d]), C2[d][k].name = C2[d][l].name
          PROVE  k = l
        <3>1. /\ d \in DOMAIN C /\ Old(d, k) \in 1..Len(C[d]) /\ C2[d][k] = C[d][Old(d, k)]
              /\ Old(d, l) \in 1..Len(C[d]) /\ C2[d][l] = C[d][Old(d, l)]
            <4> HIDE DEF Old
            <4>1. QED
                BY <1>6
        <3>2. Old(d, k) = Old(d, l)
            <4> HIDE DEF Old
            <4>1. QED
                BY <1>2, <2>1, <3>1 DEF NamesDiffer
        <3>3. k \in Nat /\ l \in Nat
            <4>1. C2[d] \in Seq(Entry)
                BY <1>10 DEF DirectoriesOf
            <4>2. QED
                BY <4>1
        <3>4. QED
            BY <1>3, <3>2, <3>3
    <2>2. QED
        BY <2>1 DEF NamesDiffer
<1>12. EntriesLead(L \ {i}, C2)
    <2>1. ASSUME NEW d \in DOMAIN C2, NEW k \in 1..Len(C2[d])
          PROVE  /\ C2[d][k].name = "."  => C2[d][k].loc = d
                 /\ C2[d][k].name = ".." => \E l \in Nat : Lists(C2, C2[d][k].loc, l, d)
                 /\ C2[d][k].name \notin {".", ".."} => C2[d][k].loc \in (L \ {i}) \ {0}
        <3> DEFINE o == Old(d, k)
                   x == C2[d][k]
        <3>1. d \in DOMAIN C /\ d # i /\ o \in 1..Len(C[d]) /\ x = C[d][o] /\ ~(d = d0 /\ o = k0)
            BY <1>6
        <3> HIDE DEF o, New, Old
        <3>2. /\ x.name = "."  => x.loc = d
              /\ x.name = ".." => \E l \in Nat : Lists(C, x.loc, l, d)
              /\ x.name \notin {".", ".."} => x.loc \in L \ {0}
            <4> HIDE DEF x
            <4>1. QED
                BY <1>2, <3>1 DEF EntriesLead
        <3>3. x.name \notin {".", ".."} => x.loc # i
            <4> HIDE DEF x
            <4>1. ASSUME x.name \notin {".", ".."}, x.loc = i PROVE FALSE
                <5>1. Lists(C, d, o, i)
                    BY <3>1, <4>1 DEF Lists
                <5>2. QED
                    BY <1>0, <1>2, <3>1, <5>1 DEF ListedOnce
            <4>2. QED
                BY <4>1
        <3>4. x.name = ".." => \E l \in Nat : Lists(C2, x.loc, l, d)
            <4> HIDE DEF x
            <4>1. QED
                BY <1>9, <3>1, <3>2
        <3>5. QED
            BY <3>2, <3>3, <3>4
    <2>2. QED
        BY <2>1 DEF EntriesLead
<1>13. ListedOnce(L \ {i}, C2)
    <2>1. ASSUME NEW j \in L \ {i}, NEW d, NEW e, NEW k, NEW l, Lists(C2, d, k, j), Lists(C2, e, l, j)
          PROVE  d = e /\ k = l
        <3>1. Lists(C, d, Old(d, k), j) /\ Lists(C, e, Old(e, l), j) /\ k \in Nat /\ l \in Nat
            <4> HIDE DEF Old
            <4>1. QED
                BY <1>8, <2>1
        <3>2. d = e /\ Old(d, k) = Old(e, l)
            <4> HIDE DEF Old
            <4>1. QED
                BY <1>2, <3>1 DEF ListedOnce
        <3>3. QED
            BY <1>3, <3>1, <3>2
    <2>2. QED
        BY <2>1 DEF ListedOnce
<1>14. NoneCutOff(L \ {i}, C2)
    <2>1. ASSUME NEW S \in SUBSET ((L \ {i}) \ {0}), S # {}
          PROVE  \E j \in S, d \in DOMAIN C2 \ S : \E k \in Nat : Lists(C2, d, k, j)
        <3>1. S \in SUBSET (L \ {0})
            OBVIOUS
        <3>2. PICK j \in S, d \in DOMAIN C \ S : \E k \in Nat : Lists(C, d, k, j)
            BY <1>2, <2>1, <3>1 DEF NoneCutOff
        <3>3. j # i
            OBVIOUS
        <3> HIDE DEF New
        <3>4. d # i /\ \E k \in Nat : Lists(C2, d, k, j)
            BY <1>9, <3>2, <3>3
        <3>5. d \in DOMAIN C2 \ S
            BY <1>0, <3>2, <3>4
        <3>6. QED
            BY <3>4, <3>5
    <2>2. QED
        BY <2>1 DEF NoneCutOff
<1>15. QED
    BY <1>1, <1>10, <1>11, <1>12, <1>13, <1>14 DEF TreeOn

----------------------------------------------------------------------------
(* What a command leaves alone *)

\* Inode j is in new as in mem, its blocks are marked, and its index block is the same.
Kept(mem, new, j) ==
    /\ new.inode[j] = mem.inode[j]
    /\ \A p \in Places : At(mem, j, p) # None => new.data_bitmap[At(mem, j, p)]
    /\ mem.inode[j].indirect # None => new.sector[mem.inode[j].indirect] = mem.sector[mem.inode[j].indirect]

(* An inode that is left alone holds what it held. *)
LEMMA KeptPlaces ==
    ASSUME NEW mem, NEW new, NEW j, Kept(mem, new, j)
    PROVE  /\ \A p \in Places : At(new, j, p) = At(mem, j, p)
           /\ HoldsOnce(mem, j) => HoldsOnce(new, j)
           /\ DenseFile(mem, j) => DenseFile(new, j)
           /\ OnlyFirst(mem, j) => OnlyFirst(new, j)
<1>1. Slots(new, j) = Slots(mem, j)
    BY DEF Kept, Slots
<1>2. \A p \in Places : At(new, j, p) = At(mem, j, p)
    BY <1>1 DEF Kept, At
<1>3. HoldsOnce(mem, j) => HoldsOnce(new, j)
    BY <1>2 DEF HoldsOnce, Kept
<1>4. DenseFile(mem, j) => DenseFile(new, j)
    BY <1>1 DEF DenseFile, Kept
<1>5. OnlyFirst(mem, j) => OnlyFirst(new, j)
    BY <1>2 DEF OnlyFirst
<1>6. QED
    BY <1>2, <1>3, <1>4, <1>5

(* An inode without an index block holds what it held, whatever becomes of the sectors. *)
LEMMA OnlyFirstStays ==
    ASSUME NEW mem, NEW new, NEW j, new.inode[j] = mem.inode[j], OnlyFirst(mem, j)
    PROVE  OnlyFirst(new, j)
<1>1. <<"indirect", 0>> \in Places \ {<<"direct", 0>>} /\ At(mem, j, <<"indirect", 0>>) = mem.inode[j].indirect
    BY AtIndirect
<1>2. mem.inode[j].indirect = None
    BY <1>1 DEF OnlyFirst
<1>3. \A p \in Places : At(new, j, p) = At(mem, j, p)
    BY <1>2 DEF At, Slots
<1>4. QED
    BY <1>3 DEF OnlyFirst

(* What can be read off a sound image. *)
LEMMA SoundImage ==
    ASSUME NEW mem, BlocksSound(mem)
    PROVE  /\ mem \in Image
           /\ \A i \in Live(mem), p \in Places : At(mem, i, p) # None => At(mem, i, p) \in Blocks /\ mem.data_bitmap[At(mem, i, p)]
           /\ \A d \in Dirs(mem) : /\ d \in Live(mem) /\ mem.inode[d].indirect = None
                                   /\ mem.inode[d].direct[0] \in Blocks
                                   /\ mem.inode[d].direct[0] = At(mem, d, <<"direct", 0>>)
                                   /\ mem.data_bitmap[mem.inode[d].direct[0]]
                                   /\ Children(mem, d) \in Seq(Entry)
           /\ \A d, e \in Dirs(mem) : mem.inode[d].direct[0] = mem.inode[e].direct[0] => d = e
           /\ <<"direct", 0>> \in Places /\ 0 \in 0..INODE_DIRECT_NUM - 1
<1>0. mem \in Image
    BY DEF BlocksSound
<1>1. <<"direct", 0>> \in Places /\ 0 \in 0..INODE_DIRECT_NUM - 1
    <2>1. 0 \in 0..INODE_DIRECT_NUM - 1
        BY ConstantsTyped
    <2>2. QED
        BY <2>1 DEF Places
<1>2. ASSUME NEW i \in Live(mem), NEW p \in Places, At(mem, i, p) # None
      PROVE  At(mem, i, p) \in Blocks /\ mem.data_bitmap[At(mem, i, p)]
    <2>1. i \in Inodes /\ HoldsOnce(mem, i)
        BY DEF Live, BlocksSound
    <2>2. At(mem, i, p) \in Slot
        BY <1>0, <2>1, AtTyped
    <2>3. QED
        BY <1>2, <2>1, <2>2 DEF HoldsOnce, Slot
<1>3. ASSUME NEW d \in Dirs(mem)
      PROVE  /\ d \in Live(mem) /\ d \in Inodes /\ mem.inode[d].indirect = None
             /\ mem.inode[d].direct[0] \in Blocks
             /\ mem.inode[d].direct[0] = At(mem, d, <<"direct", 0>>)
             /\ mem.data_bitmap[mem.inode[d].direct[0]]
             /\ Children(mem, d) \in Seq(Entry)
    <2>1. d \in Live(mem) /\ d \in Inodes
        BY DEF Dirs, Live
    <2>2. mem.inode[d].direct[0] = At(mem, d, <<"direct", 0>>)
        BY <1>1, AtDirect
    <2>3. mem.inode[d].direct[0] # None
        BY DEF BlocksSound
    <2>4. mem.inode[d].direct[0] \in Blocks /\ mem.data_bitmap[mem.inode[d].direct[0]]
        BY <1>1, <1>2, <2>1, <2>2, <2>3
    <2>5. mem.inode[d].indirect = None
        <3>1. OnlyFirst(mem, d)
            BY <2>1 DEF BlocksSound
        <3>2. <<"indirect", 0>> \in Places \ {<<"direct", 0>>} /\ At(mem, d, <<"indirect", 0>>) = mem.inode[d].indirect
            BY AtIndirect
        <3>3. QED
            BY <3>1, <3>2 DEF OnlyFirst
    <2>6. Children(mem, d) \in Seq(Entry)
        <3>1. mem.sector[mem.inode[d].direct[0]] \in Sector
            BY <1>0, <2>1, <2>4, ImageTyped
        <3>2. \A s \in Sector : s.kind = "dir" => s.child \in Seq(Entry)
            BY DEF Sector, Data, Index, Dir
        <3>3. << >> \in Seq(Entry)
            OBVIOUS
        <3>4. QED
            BY <3>1, <3>2, <3>3 DEF Children
    <2>7. QED
        BY <2>1, <2>2, <2>4, <2>5, <2>6
<1>4. ASSUME NEW d \in Dirs(mem), NEW e \in Dirs(mem), mem.inode[d].direct[0] = mem.inode[e].direct[0]
      PROVE  d = e
    <2>1. /\ d \in Live(mem) /\ e \in Live(mem)
          /\ At(mem, d, <<"direct", 0>>) = At(mem, e, <<"direct", 0>>)
          /\ At(mem, d, <<"direct", 0>>) \in Blocks
        BY <1>3, <1>4
    <2>2. At(mem, d, <<"direct", 0>>) # None
        BY <2>1, NoneIsNoBlock
    <2>3. QED
        BY <1>1, <2>1, <2>2 DEF BlocksSound
<1>5. QED
    BY <1>0, <1>1, <1>2, <1>3, <1>4

(* An image is sound if all inodes but one are as before, and that one is in order. *)
LEMMA BlocksStaySound ==
    ASSUME NEW mem, BlocksSound(mem), NEW new \in Image, NEW i \in Inodes,
           \A j \in Live(new) \ {i} : j \in Live(mem) /\ Kept(mem, new, j),
           \A j \in Inodes \ (Live(new) \cup {i}) : OnlyFirst(new, j),
           \A j \in Dirs(new) \ {i} : new.sector[mem.inode[j].direct[0]].kind = "dir",
           i \notin Live(new) => OnlyFirst(new, i),
           i \in Live(new) => /\ HoldsOnce(new, i)
                              /\ \A j \in Live(new) \ {i}, p, r \in Places :
                                     At(new, i, p) # None => At(new, i, p) # At(mem, j, r),
           i \in Dirs(new) => /\ OnlyFirst(new, i) /\ new.inode[i].direct[0] # None
                              /\ new.sector[new.inode[i].direct[0]].kind = "dir",
           i \in Live(new) \ Dirs(new) => DenseFile(new, i)
    PROVE  BlocksSound(new)
<1>1. \A j \in Live(new) : HoldsOnce(new, j)
    BY KeptPlaces DEF BlocksSound
<1>2. \A j \in Live(new) \ {i} : j \in Live(mem) /\ \A p \in Places : At(new, j, p) = At(mem, j, p)
    BY KeptPlaces
<1>3. ASSUME NEW j \in Live(new), NEW l \in Live(new), j # l, NEW p \in Places, NEW r \in Places,
             At(new, j, p) # None
      PROVE  At(new, j, p) # At(new, l, r)
    <2>1. CASE j = i
        BY <1>2, <1>3, <2>1
    <2>2. CASE l = i
        <3>1. At(new, i, r) # None => At(new, i, r) # At(mem, j, p)
            BY <1>3, <2>2
        <3>2. QED
            BY <1>2, <1>3, <2>2, <3>1
    <2>3. CASE j # i /\ l # i
        BY <1>2, <1>3, <2>3 DEF BlocksSound
    <2>4. QED
        BY <2>1, <2>2, <2>3
<1>4. \A j \in Live(new) \ {i} : j \in Dirs(new) <=> j \in Dirs(mem)
    BY <1>2 DEF Dirs, Kept
<1>5. ASSUME NEW j \in Live(new) \ Dirs(new) PROVE DenseFile(new, j)
    <2>1. CASE j = i
        BY <2>1
    <2>2. CASE j # i
        <3>1. DenseFile(mem, j)
            BY <1>2, <1>4, <2>2 DEF BlocksSound
        <3>2. QED
            BY <2>2, <3>1, KeptPlaces
    <2>3. QED
        BY <2>1, <2>2
<1>6. ASSUME NEW d \in Dirs(new)
      PROVE  /\ new.inode[d].direct[0] # None
             /\ new.sector[new.inode[d].direct[0]].kind = "dir"
             /\ OnlyFirst(new, d)
    <2>1. CASE d = i
        BY <2>1
    <2>2. CASE d # i
        <3>1. d \in Live(new) \ {i} /\ d \in Dirs(mem)
            BY <1>4, <2>2 DEF Dirs
        <3>2. Kept(mem, new, d) /\ new.inode[d] = mem.inode[d]
            BY <3>1 DEF Kept
        <3>3. mem.inode[d].direct[0] # None /\ OnlyFirst(mem, d)
            <4>1. d \in Inodes \ (Live(mem) \ Dirs(mem))
                BY <3>1 DEF Live
            <4>2. QED
                BY <3>1, <4>1 DEF BlocksSound
        <3>4. QED
            BY <2>2, <3>2, <3>3, KeptPlaces
    <2>3. QED
        BY <2>1, <2>2
<1>7. ASSUME NEW j \in Inodes \ (Live(new) \ Dirs(new)) PROVE OnlyFirst(new, j)
    BY <1>6 DEF Dirs
<1>8. QED
    BY <1>1, <1>3, <1>5, <1>6, <1>7 DEF BlocksSound

\* Block b is held by an inode in use.
Owned(mem, b) == \E j \in Live(mem), p \in Places : At(mem, j, p) = b

\* The blocks that are marked although no inode in use holds them.
Lost(mem) == {b \in Blocks : mem.data_bitmap[b] /\ ~Owned(mem, b)}

LosesNone(mem, new) == Lost(new) \subseteq Lost(mem)

(* No block is lost if each that is marked has an owner, or was marked and has not lost one. *)
LEMMA NothingLost ==
    ASSUME NEW mem, NEW new,
           \A b \in Blocks : new.data_bitmap[b] =>
               Owned(new, b) \/ (mem.data_bitmap[b] /\ (Owned(mem, b) => Owned(new, b)))
    PROVE  LosesNone(mem, new)
BY DEF LosesNone, Lost

(* Resizing a file, or writing into it, leaves the image sound and all directories alone. *)
LEMMA ResizeKeepsSound ==
    ASSUME NEW mem, BlocksSound(mem), NEW i \in Live(mem) \ Dirs(mem), NEW new, Resized(mem, new, i)
    PROVE  /\ BlocksSound(new) /\ Live(new) = Live(mem) /\ Dirs(new) = Dirs(mem)
           /\ Listing(new) = Listing(mem)
           /\ Accounts(mem, new, i) => LosesNone(mem, new)
<1>1. /\ mem \in Image /\ new \in Image /\ i \in Inodes /\ new.inode_bitmap = mem.inode_bitmap
      /\ \A j \in Inodes \ {i} : new.inode[j] = mem.inode[j]
      /\ new.inode[i].type = mem.inode[i].type /\ HoldsOnce(new, i) /\ DenseFile(new, i)
    BY DEF Resized, BlocksSound, Live
<1>2. Live(new) = Live(mem) /\ Dirs(new) = Dirs(mem)
    <2>1. Live(new) = Live(mem)
        BY <1>1 DEF Live
    <2>2. \A j \in Inodes : new.inode[j].type = mem.inode[j].type
        BY <1>1
    <2>3. QED
        BY <2>1, <2>2 DEF Dirs, Live
<1>3. ASSUME NEW j \in Live(mem) \ {i}, NEW p \in Places, At(mem, j, p) # None
      PROVE  /\ At(mem, j, p) \in Blocks
             /\ new.data_bitmap[At(mem, j, p)] /\ new.sector[At(mem, j, p)] = mem.sector[At(mem, j, p)]
    <2>1. At(mem, j, p) \in Blocks /\ mem.data_bitmap[At(mem, j, p)]
        BY <1>3, SoundImage
    <2>2. \A r \in Places : At(mem, i, r) # At(mem, j, p)
        BY <1>3 DEF BlocksSound
    <2>3. QED
        BY <2>1, <2>2 DEF Resized
<1>4. ASSUME NEW j \in Live(mem) \ {i} PROVE Kept(mem, new, j)
    <2>1. mem.inode[j].indirect # None => new.sector[mem.inode[j].indirect] = mem.sector[mem.inode[j].indirect]
        <3>1. <<"indirect", 0>> \in Places /\ At(mem, j, <<"indirect", 0>>) = mem.inode[j].indirect
            BY AtIndirect
        <3>2. QED
            BY <1>3, <3>1
    <2>2. QED
        BY <1>1, <1>3, <2>1 DEF Kept, Live
<1>5. ASSUME NEW j \in Inodes \ Live(mem) PROVE OnlyFirst(new, j)
    <2>1. OnlyFirst(mem, j)
        BY DEF BlocksSound
    <2>2. j # i /\ new.inode[j] = mem.inode[j]
        BY <1>1
    <2>3. QED
        BY <2>1, <2>2, OnlyFirstStays
<1>6. ASSUME NEW d \in Dirs(mem)
      PROVE  /\ d # i /\ d \in Inodes /\ new.inode[d] = mem.inode[d]
             /\ new.sector[mem.inode[d].direct[0]] = mem.sector[mem.inode[d].direct[0]]
    <2>1. d # i /\ d \in Live(mem) \ {i} /\ d \in Inodes
        BY DEF Dirs, Live
    <2>2. /\ mem.inode[d].direct[0] = At(mem, d, <<"direct", 0>>) /\ mem.inode[d].direct[0] \in Blocks
          /\ <<"direct", 0>> \in Places
        BY SoundImage
    <2>3. mem.inode[d].direct[0] # None
        BY <2>2, NoneIsNoBlock
    <2>4. QED
        BY <1>1, <1>3, <2>1, <2>2, <2>3
<1>7. Listing(new) = Listing(mem)
    <2>1. \A d \in Dirs(mem) : Children(new, d) = Children(mem, d)
        BY <1>6 DEF Children
    <2>2. QED
        BY <1>2, <2>1 DEF Listing
<1>8. ASSUME NEW j \in Live(mem) \ {i}, NEW p \in Places, NEW r \in Places, At(new, i, p) # None
      PROVE  At(new, i, p) # At(mem, j, r)
    <2>1. ~mem.data_bitmap[At(new, i, p)] \/ \E q \in Places : At(mem, i, q) = At(new, i, p)
        BY <1>8 DEF Resized
    <2>2. CASE ~mem.data_bitmap[At(new, i, p)]
        BY <1>8, <2>2, SoundImage
    <2>3. CASE \E q \in Places : At(mem, i, q) = At(new, i, p)
        BY <1>8, <2>3 DEF BlocksSound
    <2>4. QED
        BY <2>1, <2>2, <2>3
<1>9. \A d \in Dirs(new) \ {i} : new.sector[mem.inode[d].direct[0]].kind = "dir"
    BY <1>2, <1>6 DEF BlocksSound
<1>10. BlocksSound(new)
    <2>1. \A j \in Live(new) \ {i} : j \in Live(mem) /\ Kept(mem, new, j)
        BY <1>2, <1>4
    <2>2. \A j \in Inodes \ (Live(new) \cup {i}) : OnlyFirst(new, j)
        BY <1>2, <1>5
    <2>3. /\ i \in Live(new) \ Dirs(new)
          /\ \A j \in Live(new) \ {i}, p, r \in Places : At(new, i, p) # None => At(new, i, p) # At(mem, j, r)
        BY <1>2, <1>8
    <2>4. QED
        BY <1>1, <1>9, <2>1, <2>2, <2>3, BlocksStaySound
<1>11. ASSUME Accounts(mem, new, i) PROVE LosesNone(mem, new)
    <2>1. ASSUME NEW b \in Blocks, new.data_bitmap[b], ~Owned(new, b), Owned(mem, b) PROVE FALSE
        <3>1. PICK j \in Live(mem), p \in Places : At(mem, j, p) = b
            BY <2>1 DEF Owned
        <3>2. i \in Live(new) /\ \A r \in Places : At(new, i, r) # b
            BY <1>2, <2>1 DEF Owned
        <3>3. j # i
            BY <1>11, <2>1, <3>1, <3>2 DEF Accounts
        <3>4. At(new, j, p) = b /\ j \in Live(new)
            BY <1>2, <1>4, <3>1, <3>3, KeptPlaces
        <3>5. QED
            BY <2>1, <3>4 DEF Owned
    <2>2. ASSUME NEW b \in Blocks, new.data_bitmap[b], ~Owned(new, b) PROVE mem.data_bitmap[b]
        <3>1. i \in Live(new) /\ \A r \in Places : At(new, i, r) # b
            BY <1>2, <2>2 DEF Owned
        <3>2. QED
            BY <1>11, <2>2, <3>1 DEF Accounts
    <2>3. QED
        BY <2>1, <2>2, NothingLost
<1>12. QED
    BY <1>2, <1>7, <1>10, <1>11

----------------------------------------------------------------------------
(* Deleting *)

\* new is mem without inode i and its first sector; directory d now lists ch.
Removed(mem, new, d, i, ch) ==
    /\ new \in Image /\ new.inode = mem.inode
    /\ \A j \in Inodes : new.inode_bitmap[j] <=> mem.inode_bitmap[j] /\ j # i
    /\ \A b \in Blocks : new.data_bitmap[b] <=> mem.data_bitmap[b] /\ b # mem.inode[i].direct[0]
    /\ \A b \in Blocks \ {mem.inode[d].direct[0]} : new.sector[b] = mem.sector[b]
    /\ new.sector[mem.inode[d].direct[0]] = Dir(ch)

(* Without an inode that holds at most a first sector, and lists nothing, an image is sound. *)
LEMMA RemovalKeepsSound ==
    ASSUME NEW mem, Sound(mem), NEW d, NEW k, NEW i, Lists(Listing(mem), d, k, i), OnlyFirst(mem, i),
           \A l, j : ~Lists(Listing(mem), i, l, j),
           NEW new, Removed(mem, new, d, i, RemoveAt(Children(mem, d), k))
    PROVE  /\ Sound(new) /\ Live(new) = Live(mem) \ {i} /\ Dirs(new) = Dirs(mem) \ {i}
           /\ d \in Dirs(mem) /\ d # i /\ Children(new, d) = RemoveAt(Children(mem, d), k)
           /\ \A e \in Dirs(mem) \ {d, i} : Children(new, e) = Children(mem, e)
           /\ LosesNone(mem, new)
<1> DEFINE C == Listing(mem)
           b == mem.inode[d].direct[0]
           ch == RemoveAt(Children(mem, d), k)
<1>0. DOMAIN C = Dirs(mem) /\ \A e \in Dirs(mem) : C[e] = Children(mem, e)
    BY DEF Listing
<1>1. /\ BlocksSound(mem) /\ TreeOn(Live(mem), C) /\ d \in Dirs(mem) /\ d # i /\ i \in Live(mem) /\ d \in Live(mem)
    <2>1. BlocksSound(mem) /\ TreeOn(Live(mem), C)
        BY DEF Sound
    <2>2. d \in DOMAIN C /\ k \in 1..Len(C[d]) /\ C[d][k].name \notin {".", ".."} /\ C[d][k].loc = i
        BY DEF Lists
    <2>3. i \in Live(mem)
        BY <2>1, <2>2 DEF TreeOn, EntriesLead
    <2>4. QED
        BY <1>0, <2>1, <2>2, <2>3 DEF Dirs
<1>2. /\ new.inode = mem.inode
      /\ Live(new) = Live(mem) \ {i} /\ Dirs(new) = Dirs(mem) \ {i}
    <2>1. new.inode = mem.inode /\ Live(new) = Live(mem) \ {i}
        BY DEF Removed, Live
    <2>2. QED
        BY <2>1 DEF Dirs
<1>3. /\ b \in Blocks /\ b # None /\ b = At(mem, d, <<"direct", 0>>) /\ <<"direct", 0>> \in Places
      /\ mem.inode[d].indirect = None /\ mem.inode[i].direct[0] = At(mem, i, <<"direct", 0>>)
    <2>1. /\ b \in Blocks /\ b = At(mem, d, <<"direct", 0>>) /\ <<"direct", 0>> \in Places
          /\ 0 \in 0..INODE_DIRECT_NUM - 1 /\ mem.inode[d].indirect = None
        BY <1>1, SoundImage
    <2>2. mem.inode[i].direct[0] = At(mem, i, <<"direct", 0>>)
        BY DEF At
    <2>3. QED
        BY <2>1, <2>2, NoneIsNoBlock
<1>4. ASSUME NEW j \in Live(mem) \ {i} PROVE Kept(mem, new, j)
    <2>1. ASSUME NEW p \in Places, At(mem, j, p) # None PROVE new.data_bitmap[At(mem, j, p)]
        <3>1. At(mem, j, p) \in Blocks /\ mem.data_bitmap[At(mem, j, p)]
            BY <1>1, <2>1, SoundImage
        <3>2. At(mem, j, p) # mem.inode[i].direct[0]
            BY <1>1, <1>3, <2>1 DEF BlocksSound
        <3>3. QED
            BY <3>1, <3>2 DEF Removed
    <2>2. mem.inode[j].indirect # None => new.sector[mem.inode[j].indirect] = mem.sector[mem.inode[j].indirect]
        <3>1. SUFFICES ASSUME mem.inode[j].indirect # None
                       PROVE  new.sector[mem.inode[j].indirect] = mem.sector[mem.inode[j].indirect]
            OBVIOUS
        <3>2. <<"indirect", 0>> \in Places /\ At(mem, j, <<"indirect", 0>>) = mem.inode[j].indirect
            BY AtIndirect
        <3>3. mem.inode[j].indirect \in Blocks
            BY <1>1, <3>1, <3>2, SoundImage
        <3>4. j # d
            BY <1>3, <3>1
        <3>5. mem.inode[j].indirect # b
            BY <1>1, <1>3, <3>1, <3>2, <3>4 DEF BlocksSound
        <3>6. QED
            BY <3>3, <3>5 DEF Removed
    <2>3. QED
        BY <1>2, <2>1, <2>2 DEF Kept
<1>5. ASSUME NEW e \in Dirs(mem) \ {d} PROVE new.sector[mem.inode[e].direct[0]] = mem.sector[mem.inode[e].direct[0]]
    <2>1. mem.inode[e].direct[0] \in Blocks /\ mem.inode[e].direct[0] # b
        BY <1>1, SoundImage
    <2>2. QED
        BY <2>1 DEF Removed
<1>6. new.sector[b].kind = "dir" /\ new.sector[b].child = ch
    BY DEF Removed, Dir
<1>7. BlocksSound(new)
    <2>1. \A j \in Live(new) \ {i} : j \in Live(mem) /\ Kept(mem, new, j)
        BY <1>2, <1>4
    <2>2. ASSUME NEW j \in Inodes \ (Live(new) \cup {i}) PROVE OnlyFirst(new, j)
        <3>1. OnlyFirst(mem, j)
            BY <1>1, <1>2 DEF BlocksSound
        <3>2. QED
            BY <1>2, <3>1, OnlyFirstStays
    <2>3. \A j \in Dirs(new) \ {i} : new.sector[mem.inode[j].direct[0]].kind = "dir"
        <3>1. \A j \in Dirs(mem) : mem.sector[mem.inode[j].direct[0]].kind = "dir"
            BY <1>1 DEF BlocksSound
        <3>2. QED
            BY <1>2, <1>5, <1>6, <3>1
    <2>4. OnlyFirst(new, i)
        BY <1>2, OnlyFirstStays
    <2>5. i \notin Live(new) /\ i \notin Dirs(new) /\ i \in Inodes /\ new \in Image
        BY <1>1, <1>2 DEF Removed, Live
    <2>6. QED
        BY <1>1, <2>1, <2>2, <2>3, <2>4, <2>5, BlocksStaySound
<1>8. /\ Children(new, d) = ch
      /\ \A e \in Dirs(mem) \ {d, i} : Children(new, e) = Children(mem, e)
    BY <1>2, <1>5, <1>6 DEF Children
<1>9. TreeOn(Live(new), Listing(new))
    <2> DEFINE C2 == Listing(new)
    <2>1. DOMAIN C2 = DOMAIN C \ {i} /\ \A e \in DOMAIN C2 : C2[e] = Children(new, e)
        BY <1>0, <1>2 DEF Listing
    <2>2. \A e \in DOMAIN C \ {d, i} : C2[e] = C[e]
        BY <1>0, <1>8, <2>1
    <2>3. C2[d] = RemoveAt(C[d], k)
        BY <1>0, <1>1, <1>8, <2>1
    <2> HIDE DEF C, C2
    <2>4. Pruned(C, C2, d, k, i)
        <3>1. Lists(C, d, k, i) /\ \A l, j : ~Lists(C, i, l, j)
            BY DEF C
        <3>2. QED
            BY <2>1, <2>2, <2>3, <3>1 DEF Pruned
    <2>5. TreeOn(Live(mem) \ {i}, C2)
        BY <1>1, <2>4, TreeShrinks
    <2>6. QED
        BY <1>2, <2>5 DEF C2
<1>10. LosesNone(mem, new)
    <2>1. ASSUME NEW x \in Blocks, new.data_bitmap[x], ~Owned(new, x), Owned(mem, x) PROVE FALSE
        <3>1. PICK j \in Live(mem), p \in Places : At(mem, j, p) = x
            BY <2>1 DEF Owned
        <3>2. CASE j = i
            <4>1. x # None
                BY NoneIsNoBlock
            <4>2. p = <<"direct", 0>>
                BY <3>1, <3>2, <4>1 DEF OnlyFirst
            <4>3. x = mem.inode[i].direct[0]
                BY <1>3, <3>1, <3>2, <4>2
            <4>4. QED
                BY <2>1, <4>3 DEF Removed
        <3>3. CASE j # i
            <4>1. At(new, j, p) = x /\ j \in Live(new)
                BY <1>2, <1>4, <3>1, <3>3, KeptPlaces
            <4>2. QED
                BY <2>1, <4>1 DEF Owned
        <3>4. QED
            BY <3>2, <3>3
    <2>2. \A x \in Blocks : new.data_bitmap[x] => mem.data_bitmap[x]
        BY DEF Removed
    <2>3. QED
        BY <2>1, <2>2, NothingLost
<1>11. QED
    BY <1>1, <1>2, <1>7, <1>8, <1>9, <1>10 DEF Sound

\* A record with the members of an image.
IsRecord(x) ==
    x = [inode_bitmap |-> x.inode_bitmap, data_bitmap |-> x.data_bitmap, inode |-> x.inode, sector |-> x.sector]

\* x after RemoveEntry, member by member.
EntryGone(x, d, k) ==
    [inode_bitmap |-> x.inode_bitmap, data_bitmap |-> x.data_bitmap, inode |-> x.inode,
     sector |-> [x.sector EXCEPT ![x.inode[d].direct[0]] = Dir(RemoveAt(Children(x, d), k))]]

(* RemoveEntry changes one sector. *)
LEMMA RemoveEntryMembers ==
    ASSUME NEW x, NEW d, NEW k, IsRecord(x)
    PROVE  RemoveEntry(x, d, k) = EntryGone(x, d, k)
<1> DEFINE v   == Dir(RemoveAt(Children(x, d), k))
           b   == x.inode[d].direct[0]
           sec == [x.sector EXCEPT ![b] = v]
           new == RemoveEntry(x, d, k)
<1>0. x = [inode_bitmap |-> x.inode_bitmap, data_bitmap |-> x.data_bitmap, inode |-> x.inode, sector |-> x.sector]
    BY DEF IsRecord
<1>1. new = [x EXCEPT !.sector = sec]
    BY DEF RemoveEntry
<1> HIDE DEF sec, new
<1>2. /\ DOMAIN new = DOMAIN x /\ new.sector = sec /\ new.inode_bitmap = x.inode_bitmap
      /\ new.data_bitmap = x.data_bitmap /\ new.inode = x.inode
    BY <1>0, <1>1
<1>3. new = [inode_bitmap |-> x.inode_bitmap, data_bitmap |-> x.data_bitmap, inode |-> x.inode, sector |-> sec]
    BY <1>0, <1>1, <1>2
<1>4. QED
    BY <1>3 DEF new, sec, EntryGone

(* Clearing an inode bit, and removing the entry, is what Removed says. *)
LEMMA EntryRemoved ==
    ASSUME NEW mem \in Image, NEW d \in Inodes, NEW i \in Inodes, NEW k \in 1..Len(Children(mem, d)),
           mem.inode[d].direct[0] \in Blocks, Children(mem, d) \in Seq(Entry),
           NEW bits \in [Blocks -> BOOLEAN],
           \A b \in Blocks : bits[b] <=> mem.data_bitmap[b] /\ b # mem.inode[i].direct[0],
           NEW x, x = [inode_bitmap |-> [mem.inode_bitmap EXCEPT ![i] = FALSE], data_bitmap |-> bits,
                       inode |-> mem.inode, sector |-> mem.sector]
    PROVE  Removed(mem, RemoveEntry(x, d, k), d, i, RemoveAt(Children(mem, d), k))
<1> DEFINE ib  == [mem.inode_bitmap EXCEPT ![i] = FALSE]
           b   == mem.inode[d].direct[0]
           ch  == RemoveAt(Children(mem, d), k)
           sec == [mem.sector EXCEPT ![b] = Dir(ch)]
           new == RemoveEntry(x, d, k)
<1>1. Children(x, d) = Children(mem, d)
    BY DEF Children
<1>2. new = [inode_bitmap |-> ib, data_bitmap |-> bits, inode |-> mem.inode, sector |-> sec]
    <2>1. /\ IsRecord(x)
          /\ x.inode_bitmap = ib /\ x.data_bitmap = bits /\ x.inode = mem.inode /\ x.sector = mem.sector
        BY DEF IsRecord
    <2>2. new = EntryGone(x, d, k)
        BY <2>1, RemoveEntryMembers
    <2>3. QED
        BY <1>1, <2>1, <2>2 DEF EntryGone
<1>3. /\ mem.inode_bitmap \in [Inodes -> BOOLEAN] /\ mem.inode \in [Inodes -> Inode]
      /\ mem.sector \in [Blocks -> Sector]
    BY ImageTyped
<1>4. Dir(ch) \in Sector
    <2>1. ch \in Seq(Entry)
        BY WithoutElement
    <2> HIDE DEF ch
    <2>2. QED
        BY <2>1 DEF Sector
<1>5. sec \in [Blocks -> Sector] /\ sec[b] = Dir(ch) /\ \A a \in Blocks \ {b} : sec[a] = mem.sector[a]
    <2> HIDE DEF ch
    <2>1. QED
        BY <1>3, <1>4
<1>6. ib \in [Inodes -> BOOLEAN] /\ \A j \in Inodes : ib[j] <=> mem.inode_bitmap[j] /\ j # i
    BY <1>3
<1> HIDE DEF ib, sec, new, ch
<1>7. new \in Image
    BY <1>2, <1>3, <1>5, <1>6 DEF Image
<1>8. new.inode_bitmap = ib /\ new.data_bitmap = bits /\ new.inode = mem.inode /\ new.sector = sec
    BY <1>2
<1>9. Removed(mem, new, d, i, ch)
    BY <1>5, <1>6, <1>7, <1>8 DEF Removed
<1>10. QED
    BY <1>9 DEF new, ch

(* What is in an image without inode i. *)
LEMMA InodeFreed ==
    ASSUME NEW mem \in Image, NEW i, NEW a
    PROVE  /\ [mem EXCEPT !.inode_bitmap[i] = FALSE]
                = [inode_bitmap |-> [mem.inode_bitmap EXCEPT ![i] = FALSE], data_bitmap |-> mem.data_bitmap,
                   inode |-> mem.inode, sector |-> mem.sector]
           /\ [mem EXCEPT !.inode_bitmap[i] = FALSE, !.data_bitmap[a] = FALSE]
                = [inode_bitmap |-> [mem.inode_bitmap EXCEPT ![i] = FALSE],
                   data_bitmap |-> [mem.data_bitmap EXCEPT ![a] = FALSE],
                   inode |-> mem.inode, sector |-> mem.sector]
<1> DEFINE IB  == [Inodes -> BOOLEAN]
           DB  == [Blocks -> BOOLEAN]
           IN1 == [Inodes -> Inode]
           SE  == [Blocks -> Sector]
           ib  == [mem.inode_bitmap EXCEPT ![i] = FALSE]
           db  == [mem.data_bitmap EXCEPT ![a] = FALSE]
<1>1. mem \in [inode_bitmap : IB, data_bitmap : DB, inode : IN1, sector : SE]
    BY DEF Image
<1>2. /\ [mem EXCEPT !.inode_bitmap[i] = FALSE] = [mem EXCEPT !.inode_bitmap = ib]
      /\ [mem EXCEPT !.inode_bitmap[i] = FALSE, !.data_bitmap[a] = FALSE]
            = [mem EXCEPT !.inode_bitmap = ib, !.data_bitmap = db]
    <2> HIDE DEF IB, DB, IN1, SE
    <2>1. QED
        BY <1>1
<1> HIDE DEF IB, DB, IN1, SE, ib, db
<1>3. mem.data_bitmap \in DB /\ mem.inode \in IN1 /\ mem.sector \in SE
    BY <1>1
<1>4. [mem EXCEPT !.inode_bitmap = ib]
            = [inode_bitmap |-> ib, data_bitmap |-> mem.data_bitmap, inode |-> mem.inode, sector |-> mem.sector]
    BY <1>1
<1>5. [mem EXCEPT !.inode_bitmap = ib, !.data_bitmap = db]
            = [inode_bitmap |-> ib, data_bitmap |-> db, inode |-> mem.inode, sector |-> mem.sector]
    <2> DEFINE one == [mem EXCEPT !.inode_bitmap = ib]
    <2>1. [mem EXCEPT !.inode_bitmap = ib, !.data_bitmap = db] = [one EXCEPT !.data_bitmap = db]
        BY <1>1
    <2>2. one = [inode_bitmap |-> ib, data_bitmap |-> mem.data_bitmap, inode |-> mem.inode, sector |-> mem.sector]
        BY <1>4
    <2> HIDE DEF one
    <2>3. QED
        BY <2>1, <2>2
<1>6. QED
    BY <1>2, <1>4, <1>5 DEF ib, db

(* rm, and dir_delete for each file in its way, leave a tree without that file. *)
LEMMA FileDeleteKeepsSound ==
    ASSUME NEW mem, Sound(mem), NEW d, NEW k, NEW i, Lists(Listing(mem), d, k, i), i \notin Dirs(mem),
           NEW new, new = file_delete(mem, d, k)
    PROVE  /\ Sound(new) /\ Live(new) = Live(mem) \ {i} /\ Dirs(new) = Dirs(mem)
           /\ d \in Dirs(mem) /\ d # i /\ Children(new, d) = RemoveAt(Children(mem, d), k)
           /\ \A e \in Dirs(mem) \ {d} : Children(new, e) = Children(mem, e)
           /\ LosesNone(mem, new)
<1> DEFINE empty == file_resize(mem, i, 0).mem
<1>1. /\ BlocksSound(mem) /\ TreeOn(Live(mem), Listing(mem)) /\ mem \in Image
      /\ d \in Dirs(mem) /\ k \in 1..Len(Children(mem, d)) /\ Children(mem, d)[k].loc = i
      /\ i \in Live(mem) \ Dirs(mem) /\ i \in Inodes /\ d \in Inodes
    <2>1. BlocksSound(mem) /\ TreeOn(Live(mem), Listing(mem)) /\ mem \in Image
        BY DEF Sound, BlocksSound
    <2>2. d \in Dirs(mem) /\ k \in 1..Len(Children(mem, d)) /\ Children(mem, d)[k].loc = i
        BY DEF Lists, Listing
    <2>3. i \in Live(mem)
        BY <2>1 DEF TreeOn, EntriesLead, Lists
    <2>4. QED
        BY <2>1, <2>2, <2>3 DEF Dirs, Live
<1>2. HoldsOnce(mem, i) /\ DenseFile(mem, i)
    BY <1>1 DEF BlocksSound
<1>3. Resized(mem, empty, i) /\ NoBlocks(empty, i) /\ Accounts(mem, empty, i)
    <2>1. Resized(mem, empty, i)
        BY <1>1, <1>2, FileResizes
    <2>2. NoBlocks(empty, i)
        BY <1>1, <1>2, ResizedToNothing
    <2>3. 0 \in Nat /\ 0 <= Capacity
        BY ConstantsTyped DEF Capacity
    <2>4. Accounts(mem, empty, i)
        BY <1>1, <1>2, <2>3, FileResizeAccounts
    <2>5. QED
        BY <2>1, <2>2, <2>4
<1> HIDE DEF empty
<1>4. /\ BlocksSound(empty) /\ Live(empty) = Live(mem) /\ Dirs(empty) = Dirs(mem)
      /\ Listing(empty) = Listing(mem) /\ empty \in Image /\ LosesNone(mem, empty)
    BY <1>1, <1>3, ResizeKeepsSound DEF Resized
<1>5. Sound(empty) /\ Lists(Listing(empty), d, k, i) /\ \A e \in Dirs(mem) : Children(empty, e) = Children(mem, e)
    <2>1. \A e \in Dirs(mem) : Listing(empty)[e] = Children(empty, e) /\ Listing(mem)[e] = Children(mem, e)
        BY <1>4 DEF Listing
    <2>2. QED
        BY <1>1, <1>4, <2>1 DEF Sound
<1>6. OnlyFirst(empty, i)
    <2>1. ASSUME NEW p \in Places PROVE At(empty, i, p) = None
        <3>1. ASSUME NEW j \in 0..INODE_DIRECT_NUM - 1, p = <<"direct", j>> PROVE At(empty, i, p) = None
            <4>1. At(empty, i, <<"direct", j>>) = empty.inode[i].direct[j]
                BY AtDirect
            <4>2. empty.inode[i].direct[j] = None
                BY <1>3 DEF NoBlocks
            <4>3. QED
                BY <3>1, <4>1, <4>2
        <3>2. ASSUME NEW j \in 0..INDEX_NUM - 1, p = <<"slot", j>> PROVE At(empty, i, p) = None
            <4>1. Slots(empty, i) = NoSlots
                BY <1>3 DEF NoBlocks, Slots
            <4>2. At(empty, i, <<"slot", j>>) = Slots(empty, i)[j]
                BY AtSlot
            <4>3. NoSlots[j] = None
                BY DEF NoSlots
            <4>4. QED
                BY <3>2, <4>1, <4>2, <4>3
        <3>3. CASE p = <<"indirect", 0>>
            BY <1>3, <3>3, AtIndirect DEF NoBlocks
        <3>4. QED
            BY <3>1, <3>2, <3>3, PlacesByKind
    <2>2. QED
        BY <2>1 DEF OnlyFirst
<1>7. Removed(empty, new, d, i, RemoveAt(Children(empty, d), k))
    <2> DEFINE x == [empty EXCEPT !.inode_bitmap[i] = FALSE]
    <2>1. new = RemoveEntry(x, d, k)
        BY <1>1 DEF file_delete, empty
    <2>2. empty.data_bitmap \in [Blocks -> BOOLEAN]
        BY <1>1, <1>4, ImageTyped
    <2>3. x = [inode_bitmap |-> [empty.inode_bitmap EXCEPT ![i] = FALSE], data_bitmap |-> empty.data_bitmap,
               inode |-> empty.inode, sector |-> empty.sector]
        BY <1>4, InodeFreed
    <2>4. empty.inode[d].direct[0] \in Blocks /\ Children(empty, d) \in Seq(Entry) /\ k \in 1..Len(Children(empty, d))
        BY <1>1, <1>4, <1>5, SoundImage
    <2> HIDE DEF x
    <2>B. \A b \in Blocks : empty.data_bitmap[b] <=> empty.data_bitmap[b] /\ b # empty.inode[i].direct[0]
        <3>1. empty.inode[i].direct[0] = None
            BY <1>3, ConstantsTyped DEF NoBlocks
        <3>2. QED
            BY <3>1, NoneIsNoBlock
    <2>5. Removed(empty, RemoveEntry(x, d, k), d, i, RemoveAt(Children(empty, d), k))
        BY <1>1, <1>4, <2>2, <2>3, <2>4, <2>B, EntryRemoved
    <2>6. QED
        BY <2>1, <2>5
<1>8. \A l, j : ~Lists(Listing(empty), i, l, j)
    BY <1>1, <1>4 DEF Lists, Listing
<1>9. /\ Sound(new) /\ Live(new) = Live(empty) \ {i} /\ Dirs(new) = Dirs(empty) \ {i}
      /\ d # i /\ Children(new, d) = RemoveAt(Children(empty, d), k)
      /\ \A e \in Dirs(empty) \ {d, i} : Children(new, e) = Children(empty, e)
      /\ LosesNone(empty, new)
    BY <1>5, <1>6, <1>7, <1>8, RemovalKeepsSound
<1>10. LosesNone(mem, new)
    BY <1>4, <1>9 DEF LosesNone
<1>11. QED
    BY <1>1, <1>4, <1>5, <1>9, <1>10

\* mem without directory i, which is in entry k of directory d.
DirectoryGone(mem, d, k, i) ==
    RemoveEntry([mem EXCEPT !.inode_bitmap[i] = FALSE, !.data_bitmap[mem.inode[i].direct[0]] = FALSE], d, k)

(* dir_delete takes a directory without files and directories off the tree. *)
LEMMA EmptyDirectoryGoes ==
    ASSUME NEW mem, Sound(mem), NEW d, NEW k, NEW i \in Dirs(mem), Lists(Listing(mem), d, k, i),
           \A l, j : ~Lists(Listing(mem), i, l, j)
    PROVE  /\ Sound(DirectoryGone(mem, d, k, i)) /\ Dirs(DirectoryGone(mem, d, k, i)) = Dirs(mem) \ {i}
           /\ d \in Dirs(mem) /\ d # i /\ LosesNone(mem, DirectoryGone(mem, d, k, i))
<1> DEFINE new  == DirectoryGone(mem, d, k, i)
           a    == mem.inode[i].direct[0]
           bits == [mem.data_bitmap EXCEPT ![a] = FALSE]
           x    == [mem EXCEPT !.inode_bitmap[i] = FALSE, !.data_bitmap[mem.inode[i].direct[0]] = FALSE]
<1>1. /\ BlocksSound(mem) /\ mem \in Image /\ d \in Dirs(mem) /\ k \in 1..Len(Children(mem, d))
      /\ i \in Live(mem) /\ i \in Inodes /\ d \in Inodes
    <2>1. BlocksSound(mem) /\ mem \in Image
        BY DEF Sound, BlocksSound
    <2>2. d \in Dirs(mem) /\ k \in 1..Len(Children(mem, d))
        BY DEF Lists, Listing
    <2>3. QED
        BY <2>1, <2>2 DEF Dirs, Live
<1>2. OnlyFirst(mem, i)
    BY <1>1 DEF BlocksSound
<1>3. mem.data_bitmap \in [Blocks -> BOOLEAN]
    BY <1>1, ImageTyped
<1>4. bits \in [Blocks -> BOOLEAN] /\ \A b \in Blocks : bits[b] <=> mem.data_bitmap[b] /\ b # a
    <2> HIDE DEF a
    <2>1. QED
        BY <1>3
<1>5. x = [inode_bitmap |-> [mem.inode_bitmap EXCEPT ![i] = FALSE], data_bitmap |-> bits,
           inode |-> mem.inode, sector |-> mem.sector]
    BY <1>1, InodeFreed
<1>6. mem.inode[d].direct[0] \in Blocks /\ Children(mem, d) \in Seq(Entry)
    BY <1>1, SoundImage
<1>7. Removed(mem, new, d, i, RemoveAt(Children(mem, d), k))
    <2>1. new = RemoveEntry(x, d, k)
        BY DEF DirectoryGone
    <2> HIDE DEF x, bits
    <2>2. Removed(mem, RemoveEntry(x, d, k), d, i, RemoveAt(Children(mem, d), k))
        BY <1>1, <1>4, <1>5, <1>6, EntryRemoved DEF a
    <2>3. QED
        BY <2>1, <2>2
<1> HIDE DEF new
<1>8. Sound(new) /\ Dirs(new) = Dirs(mem) \ {i} /\ d # i /\ LosesNone(mem, new)
    BY <1>2, <1>7, RemovalKeepsSound
<1>9. QED
    BY <1>1, <1>8 DEF new

----------------------------------------------------------------------------
(* rmdir *)

\* The first entry after "." and "..", where dir_delete goes on.
NextEntry(child) == SelectInSeq(child, LAMBDA e : e.name \notin {".", ".."})

(* It is such an entry, if there is one. *)
LEMMA NextEntryFound ==
    ASSUME NEW child \in Seq(Entry)
    PROVE  /\ NextEntry(child) # 0 => /\ NextEntry(child) \in 1..Len(child)
                                      /\ child[NextEntry(child)].name \notin {".", ".."}
           /\ NextEntry(child) = 0 => \A j \in 1..Len(child) : child[j].name \in {".", ".."}
<1> DEFINE I == {j \in 1..Len(child) : child[j].name \notin {".", ".."}}
<1>1. NextEntry(child) = IF I # {} THEN Min(I) ELSE 0
    BY DEF NextEntry, SelectInSeq
<1>2. I \in SUBSET Nat /\ 0 \notin I
    OBVIOUS
<1>3. I # {} => Min(I) \in I
    <2> HIDE DEF I
    <2>1. QED
        BY <1>2, LeastElement
<1>4. NextEntry(child) # 0 => NextEntry(child) \in I
    BY <1>1, <1>3
<1>5. NextEntry(child) = 0 => I = {}
    BY <1>1, <1>2, <1>3
<1>6. QED
    BY <1>4, <1>5

\* Directory i has no subdirectory.
Flat(mem, i) == \A j \in 1..Len(Children(mem, i)) :
                    Children(mem, i)[j].name \in {".", ".."} \/ Children(mem, i)[j].loc \notin Dirs(mem)

\* Where the deletion of the directory in entry k of d, which is i, may have got to from start.
Deleting(start, c, d, k, i) ==
    /\ c = [mem |-> c.mem, calls |-> c.calls]
    /\ Sound(c.mem) /\ d \in Dirs(c.mem) /\ LosesNone(start, c.mem)
    /\ c.calls # << >> => /\ c.calls = <<[dir |-> d, pos |-> k]>>
                          /\ Lists(Listing(c.mem), d, k, i) /\ i \in Dirs(c.mem) /\ Flat(c.mem, i)

\* A step of dir_delete for inode i, by the innermost call.
StepAt(c, stale, call, above, i) ==
    LET child == Children(c.mem, i)
        j     == NextEntry(child)
        gone  == DirectoryGone(c.mem, call.dir, call.pos, i)
        left  == Children(gone, call.dir)
        k     == Last(above).pos
        x     == IF k <= Len(left) THEN left[k].loc ELSE stale
    IN IF j # 0
       THEN IF c.mem.inode[child[j].loc].type = File
            THEN [c EXCEPT !.mem = file_delete(c.mem, i, j)]
            ELSE [c EXCEPT !.calls = Append(c.calls, [dir |-> i, pos |-> j])]
       ELSE [mem   |-> IF above = <<>> THEN gone ELSE [gone EXCEPT !.inode_bitmap[x] = FALSE],
             calls |-> above]

(* A step of dir_delete with only one call. *)
LEMMA DeletionStepIs ==
    ASSUME NEW c, NEW d, NEW k, NEW i, NEW stale, Children(c.mem, d)[k].loc = i,
           c = [mem |-> c.mem, calls |-> <<[dir |-> d, pos |-> k]>>]
    PROVE  /\ NextEntry(Children(c.mem, i)) # 0
                /\ c.mem.inode[Children(c.mem, i)[NextEntry(Children(c.mem, i))].loc].type = File
              => DeleteStep(c, stale) = [mem |-> file_delete(c.mem, i, NextEntry(Children(c.mem, i))),
                                         calls |-> <<[dir |-> d, pos |-> k]>>]
           /\ NextEntry(Children(c.mem, i)) = 0
              => DeleteStep(c, stale) = [mem |-> DirectoryGone(c.mem, d, k, i), calls |-> << >>]
<1> DEFINE mem   == c.mem
           child == Children(mem, i)
           j     == NextEntry(child)
           gone  == DirectoryGone(mem, d, k, i)
           step  == DeleteStep(c, stale)
<1>0. c = [mem |-> mem, calls |-> <<[dir |-> d, pos |-> k]>>] /\ c.mem = mem /\ Children(mem, d)[k].loc = i
    OBVIOUS
<1>1. Last(c.calls) = [dir |-> d, pos |-> k] /\ Front(c.calls) = << >>
    <2> DEFINE x == [dir |-> d, pos |-> k]
    <2>1. c.calls = <<x>>
        BY <1>0
    <2> HIDE DEF x
    <2>2. Last(<<x>>) = x /\ Front(<<x>>) = << >>
        BY DEF Last, Front
    <2>3. QED
        BY <2>1, <2>2 DEF x
<1> DEFINE x == [dir |-> d, pos |-> k]
<1>2. step = StepAt(c, stale, Last(c.calls), Front(c.calls),
                    Children(c.mem, Last(c.calls).dir)[Last(c.calls).pos].loc)
    BY DEF DeleteStep, StepAt, NextEntry, DirectoryGone
<1>3. step = StepAt(c, stale, x, << >>, Children(c.mem, x.dir)[x.pos].loc)
    <2> HIDE DEF step, x
    <2>1. Last(c.calls) = x /\ Front(c.calls) = << >>
        BY <1>1 DEF x
    <2>2. QED
        BY <1>0, <1>2, <2>1
<1>4. x.dir = d /\ x.pos = k
    OBVIOUS
<1>5. step = StepAt(c, stale, x, << >>, i)
    <2> HIDE DEF step, x
    <2>1. QED
        BY <1>0, <1>3, <1>4
<1> HIDE DEF step, x
<1>6. step = IF j # 0
             THEN IF mem.inode[child[j].loc].type = File
                  THEN [c EXCEPT !.mem = file_delete(mem, i, j)]
                  ELSE [c EXCEPT !.calls = Append(c.calls, [dir |-> i, pos |-> j])]
             ELSE [mem |-> gone, calls |-> << >>]
    <2> HIDE DEF j, child, gone
    <2>1. QED
        BY <1>4, <1>5 DEF StepAt, j, child, gone
<1>7. [c EXCEPT !.mem = file_delete(mem, i, j)]
        = [mem |-> file_delete(mem, i, j), calls |-> <<[dir |-> d, pos |-> k]>>]
    <2> DEFINE new   == file_delete(mem, i, j)
               calls == <<[dir |-> d, pos |-> k]>>
    <2>1. c = [mem |-> c.mem, calls |-> calls]
        BY <1>0
    <2> HIDE DEF new, calls
    <2>2. [c EXCEPT !.mem = new] = [mem |-> new, calls |-> calls]
        BY <2>1
    <2>3. QED
        BY <2>2 DEF new, calls
<1>8. QED
    BY <1>6, <1>7 DEF step

(* A step of dir_delete removes a file of the directory, or the directory. *)
LEMMA DeletionGoesOn ==
    ASSUME NEW start, NEW c, NEW d, NEW k, NEW i, Deleting(start, c, d, k, i), c.calls # << >>, NEW stale
    PROVE  Deleting(start, DeleteStep(c, stale), d, k, i)
<1> DEFINE mem   == c.mem
           C     == Listing(mem)
           child == Children(mem, i)
           j     == NextEntry(child)
           gone  == DirectoryGone(mem, d, k, i)
           step  == DeleteStep(c, stale)
<1>1. /\ c = [mem |-> mem, calls |-> <<[dir |-> d, pos |-> k]>>]
      /\ Sound(mem) /\ d \in Dirs(mem) /\ Lists(C, d, k, i) /\ i \in Dirs(mem) /\ Flat(mem, i)
      /\ LosesNone(start, mem)
    BY DEF Deleting
<1>2. /\ DOMAIN C = Dirs(mem) /\ \A e \in Dirs(mem) : C[e] = Children(mem, e)
      /\ Children(mem, d)[k].loc = i
    BY <1>1 DEF Listing, Lists
<1>3. child \in Seq(Entry)
    BY <1>1, SoundImage DEF Sound
<1>4. /\ j # 0 /\ mem.inode[child[j].loc].type = File
           => step = [mem |-> file_delete(mem, i, j), calls |-> <<[dir |-> d, pos |-> k]>>]
      /\ j = 0 => step = [mem |-> gone, calls |-> << >>]
    BY <1>1, <1>2, DeletionStepIs
<1> HIDE DEF step
<1>5. ASSUME j # 0 PROVE Deleting(start, step, d, k, i)
    <2> DEFINE f   == child[j].loc
               new == file_delete(mem, i, j)
    <2>1. j \in 1..Len(child) /\ child[j].name \notin {".", ".."}
        <3> HIDE DEF child
        <3>1. QED
            BY <1>3, <1>5, NextEntryFound
    <2>2. Lists(C, i, j, f) /\ f \notin Dirs(mem)
        <3> HIDE DEF j
        <3>1. QED
            BY <1>1, <1>2, <2>1 DEF Lists, Flat
    <2> HIDE DEF j
    <2>3. mem.inode[f].type = File
        <3>1. f \in Live(mem)
            <4>1. EntriesLead(Live(mem), C)
                BY <1>1 DEF Sound, TreeOn
            <4>2. QED
                BY <1>1, <1>2, <2>1, <4>1 DEF EntriesLead
        <3>2. mem \in Image /\ f \in Inodes
            BY <1>1, <3>1 DEF Sound, BlocksSound, Live
        <3>3. mem.inode[f].type \in {File, Directory}
            BY <3>2, ImageTyped
        <3>4. QED
            BY <2>2, <3>1, <3>3 DEF Dirs
    <2>4. step = [mem |-> new, calls |-> <<[dir |-> d, pos |-> k]>>]
        BY <1>4, <1>5, <2>3
    <2>5. i # d
        BY <1>1, <1>2 DEF Lists, Flat
    <2>6. /\ Sound(new) /\ Dirs(new) = Dirs(mem) /\ Children(new, i) = RemoveAt(child, j)
          /\ \A e \in Dirs(mem) \ {i} : Children(new, e) = Children(mem, e)
          /\ LosesNone(mem, new)
        <3> HIDE DEF new, f, C, child
        <3>1. new = file_delete(mem, i, j)
            BY DEF new
        <3>2. /\ Sound(new) /\ Dirs(new) = Dirs(mem) /\ Children(new, i) = RemoveAt(Children(mem, i), j)
              /\ \A e \in Dirs(mem) \ {i} : Children(new, e) = Children(mem, e)
              /\ LosesNone(mem, new)
            BY <1>1, <2>2, <3>1, FileDeleteKeepsSound DEF C
        <3>3. QED
            BY <3>2 DEF child
    <2> HIDE DEF new
    <2>7. Lists(Listing(new), d, k, i)
        BY <1>1, <2>5, <2>6 DEF Lists, Listing
    <2>8. Flat(new, i)
        <3>1. /\ RemoveAt(child, j) \in Seq(Entry) /\ Len(RemoveAt(child, j)) = Len(child) - 1
              /\ \A l \in 1..Len(child) - 1 : RemoveAt(child, j)[l] = IF l < j THEN child[l] ELSE child[l + 1]
            <4> HIDE DEF child
            <4>1. QED
                BY <1>3, <2>1, WithoutElement
        <3>2. \A l \in 1..Len(child) - 1 : l \in 1..Len(child) /\ l + 1 \in 1..Len(child)
            BY <1>3
        <3>3. \A l \in 1..Len(child) : child[l].name \in {".", ".."} \/ child[l].loc \notin Dirs(mem)
            BY <1>1 DEF Flat
        <3> HIDE DEF child
        <3>4. QED
            BY <2>6, <3>1, <3>2, <3>3 DEF Flat
    <2>9. LosesNone(start, new)
        BY <1>1, <2>6 DEF LosesNone
    <2>10. QED
        BY <1>1, <2>4, <2>6, <2>7, <2>8, <2>9 DEF Deleting
<1>6. ASSUME j = 0 PROVE Deleting(start, step, d, k, i)
    <2>1. step = [mem |-> gone, calls |-> << >>]
        BY <1>4, <1>6
    <2>2. \A l, x : ~Lists(C, i, l, x)
        <3>1. \A l \in 1..Len(child) : child[l].name \in {".", ".."}
            <4> HIDE DEF child
            <4>1. QED
                BY <1>3, <1>6, NextEntryFound
        <3>2. QED
            BY <1>1, <1>2, <3>1 DEF Lists
    <2>3. Sound(gone) /\ Dirs(gone) = Dirs(mem) \ {i} /\ d # i /\ LosesNone(mem, gone)
        <3> HIDE DEF gone
        <3>1. QED
            BY <1>1, <2>2, EmptyDirectoryGoes DEF gone, C
    <2> HIDE DEF gone
    <2>4. LosesNone(start, gone)
        BY <1>1, <2>3 DEF LosesNone
    <2>5. QED
        BY <1>1, <2>1, <2>3, <2>4 DEF Deleting
<1>7. Deleting(start, step, d, k, i)
    BY <1>5, <1>6
<1>8. QED
    BY <1>7 DEF step

\* The steps of dir_delete, one after the other.
Deletion(g, n, mem, d, k, stale) ==
    g = [x \in 0..n |-> IF x = 0 THEN [mem |-> mem, calls |-> <<[dir |-> d, pos |-> k]>>]
                        ELSE IF g[x - 1].calls = << >> THEN g[x - 1] ELSE DeleteStep(g[x - 1], stale)]

(* dir_delete is what the last of these steps leaves. *)
LEMMA DeletionUnfolds ==
    ASSUME NEW mem, NEW d, NEW k, NEW stale
    PROVE  \E g : Deletion(g, DeleteSteps, mem, d, k, stale) /\ dir_delete(mem, d, k, stale) = g[DeleteSteps].mem
<1> DEFINE first   == [mem |-> mem, calls |-> <<[dir |-> d, pos |-> k]>>]
           Goes(c) == IF c.calls = << >> THEN c ELSE DeleteStep(c, stale)
           Solves(g, n) == g = [x \in 0..n |-> IF x = 0 THEN first ELSE Goes(g[x - 1])]
           Solved  == {n \in Nat : \E g : Solves(g, n)}
<1>1. 0 \in Solved
    <2>1. Solves([x \in 0..0 |-> first], 0)
        <3> HIDE DEF first, Goes
        <3>1. QED
            OBVIOUS
    <2>2. QED
        BY <2>1
<1>2. ASSUME NEW n \in Nat, n \in Solved PROVE n + 1 \in Solved
    <2> HIDE DEF first, Goes
    <2>1. PICK g : Solves(g, n)
        BY <1>2
    <2> DEFINE h == [x \in 0..n + 1 |-> IF x = n + 1 THEN Goes(g[n]) ELSE g[x]]
    <2>2. \A x \in 0..n : h[x] = g[x]
        OBVIOUS
    <2>3. h[n + 1] = Goes(g[n])
        OBVIOUS
    <2>4. ASSUME NEW x \in 0..n + 1
          PROVE  h[x] = IF x = 0 THEN first ELSE Goes(h[x - 1])
        <3> HIDE DEF h
        <3>1. CASE x = n + 1
            BY <2>2, <2>3, <3>1
        <3>2. CASE x = 0
            BY <2>1, <2>2, <3>2
        <3>3. CASE x \in 1..n
            <4>1. x - 1 \in 0..n /\ x \in 0..n /\ x # 0
                BY <3>3
            <4>2. g[x] = Goes(g[x - 1])
                BY <2>1, <4>1
            <4>3. QED
                BY <2>2, <4>1, <4>2
        <3>4. QED
            BY <3>1, <3>2, <3>3
    <2>5. Solves(h, n + 1)
        BY <2>4
    <2>6. \E f : Solves(f, n + 1)
        <3> HIDE DEF h, Solves
        <3>1. QED
            BY <2>5
    <2>7. QED
        BY <2>6
<1>3. Nat \subseteq Solved
    <2> HIDE DEF Solved
    <2>1. QED
        BY <1>1, <1>2, SetInduction
<1>4. DeleteSteps \in Nat
    BY FileSystemAssumption DEF DeleteSteps
<1>5. \E g : Solves(g, DeleteSteps)
    BY <1>3, <1>4
<1> DEFINE after == CHOOSE g : Solves(g, DeleteSteps)
<1>6. Solves(after, DeleteSteps)
    <2> HIDE DEF Solves
    <2>1. QED
        BY <1>5
<1>7. dir_delete(mem, d, k, stale) = after[DeleteSteps].mem
    BY DEF dir_delete
<1>8. Deletion(after, DeleteSteps, mem, d, k, stale)
    <2> HIDE DEF after
    <2>1. QED
        BY <1>6 DEF Deletion
<1>9. QED
    <2> HIDE DEF after
    <2>1. QED
        BY <1>7, <1>8

(* rmdir of a directory without subdirectories leaves a tree. *)
LEMMA DirectoryDeleteKeepsSound ==
    ASSUME NEW mem, Sound(mem), NEW d, NEW k, NEW i \in Dirs(mem), Lists(Listing(mem), d, k, i), Flat(mem, i), NEW stale
    PROVE  /\ Sound(dir_delete(mem, d, k, stale)) /\ d \in Dirs(dir_delete(mem, d, k, stale))
           /\ LosesNone(mem, dir_delete(mem, d, k, stale))
<1>1. PICK g : Deletion(g, DeleteSteps, mem, d, k, stale) /\ dir_delete(mem, d, k, stale) = g[DeleteSteps].mem
    BY DeletionUnfolds
<1>2. DeleteSteps \in Nat
    BY FileSystemAssumption DEF DeleteSteps
<1> DEFINE first == [mem |-> mem, calls |-> <<[dir |-> d, pos |-> k]>>]
           T     == {x \in Nat : x \in 0..DeleteSteps => Deleting(mem, g[x], d, k, i)}
<1>3. g[0] = first
    BY <1>1, <1>2 DEF Deletion
<1>4. ASSUME NEW x \in Nat, x + 1 \in 0..DeleteSteps
      PROVE  g[x + 1] = IF g[x].calls = << >> THEN g[x] ELSE DeleteStep(g[x], stale)
    <2> DEFINE y == x + 1
    <2>1. y \in 0..DeleteSteps /\ y # 0 /\ y - 1 = x
        BY <1>4
    <2> HIDE DEF y
    <2>2. g[y] = IF g[y - 1].calls = << >> THEN g[y - 1] ELSE DeleteStep(g[y - 1], stale)
        BY <1>1, <2>1 DEF Deletion
    <2>3. QED
        BY <2>1, <2>2 DEF y
<1>5. 0 \in T
    <2>1. d \in Dirs(mem)
        BY DEF Lists, Listing
    <2>2. first.mem = mem /\ first.calls = <<[dir |-> d, pos |-> k]>> /\ first = [mem |-> first.mem, calls |-> first.calls]
        OBVIOUS
    <2> HIDE DEF first
    <2>3. LosesNone(mem, mem)
        BY DEF LosesNone
    <2>4. QED
        BY <1>3, <2>1, <2>2, <2>3 DEF Deleting
<1>6. ASSUME NEW x \in Nat, x \in T PROVE x + 1 \in T
    <2> SUFFICES ASSUME x + 1 \in 0..DeleteSteps PROVE Deleting(mem, g[x + 1], d, k, i)
        OBVIOUS
    <2>1. Deleting(mem, g[x], d, k, i)
        BY <1>2, <1>6
    <2>2. CASE g[x].calls = << >>
        BY <1>4, <2>1, <2>2
    <2>3. CASE g[x].calls # << >>
        BY <1>4, <2>1, <2>3, DeletionGoesOn
    <2>4. QED
        BY <2>2, <2>3
<1>7. Nat \subseteq T
    <2> HIDE DEF T
    <2>1. QED
        BY <1>5, <1>6, SetInduction
<1>8. Deleting(mem, g[DeleteSteps], d, k, i)
    BY <1>2, <1>7
<1>9. QED
    BY <1>1, <1>8 DEF Deleting

----------------------------------------------------------------------------
(* mk and mkdir *)

\* Inode i got b as its first direct.
StartsAt(mem, new, i, b) ==
    /\ new.inode[i].indirect = mem.inode[i].indirect /\ new.inode[i].direct[0] = b
    /\ \A k \in 1..INODE_DIRECT_NUM - 1 : new.inode[i].direct[k] = mem.inode[i].direct[k]

\* new is mem with inode i in use, whose first sector is b; directory d now lists ch.
Added(mem, new, d, i, b, ch) ==
    /\ new \in Image
    /\ \A j \in Inodes : new.inode_bitmap[j] <=> mem.inode_bitmap[j] \/ j = i
    /\ \A x \in Blocks : new.data_bitmap[x] <=> mem.data_bitmap[x] \/ x = b
    /\ \A j \in Inodes \ {i} : new.inode[j] = mem.inode[j]
    /\ StartsAt(mem, new, i, b)
    /\ \A x \in Blocks \ {mem.inode[d].direct[0], b} : new.sector[x] = mem.sector[x]
    /\ new.sector[mem.inode[d].direct[0]] = Dir(ch)

(* An inode that held nothing but a first sector, with another first sector. *)
LEMMA OneSector ==
    ASSUME NEW mem, NEW new, NEW i, NEW b, OnlyFirst(mem, i), StartsAt(mem, new, i, b)
    PROVE  /\ \A p \in Places \ {<<"direct", 0>>} : At(new, i, p) = None
           /\ At(new, i, <<"direct", 0>>) = b /\ new.inode[i].direct[0] = b
           /\ new.inode[i].indirect = None /\ Slots(new, i) = NoSlots
           /\ \A k \in 1..INODE_DIRECT_NUM - 1 : new.inode[i].direct[k] = None
<1>0. \A k \in 0..INODE_DIRECT_NUM - 1 : /\ <<"direct", k>> \in Places
                                         /\ At(mem, i, <<"direct", k>>) = mem.inode[i].direct[k]
                                         /\ At(new, i, <<"direct", k>>) = new.inode[i].direct[k]
    BY AtDirect
<1>1. new.inode[i].direct[0] = b
    BY DEF StartsAt
<1>2. At(new, i, <<"direct", 0>>) = b
    <2>1. 0 \in 0..INODE_DIRECT_NUM - 1
        BY ConstantsTyped
    <2>2. QED
        BY <1>1, <2>1, AtDirect
<1>3. new.inode[i].indirect = None
    <2>1. <<"indirect", 0>> \in Places \ {<<"direct", 0>>} /\ At(mem, i, <<"indirect", 0>>) = mem.inode[i].indirect
        BY AtIndirect
    <2>2. QED
        BY <2>1 DEF OnlyFirst, StartsAt
<1>4. Slots(new, i) = NoSlots
    BY <1>3 DEF Slots
<1>5. ASSUME NEW k \in 1..INODE_DIRECT_NUM - 1 PROVE new.inode[i].direct[k] = None
    <2>1. k \in 0..INODE_DIRECT_NUM - 1 /\ k # 0
        BY ConstantsTyped
    <2>2. <<"direct", k>> \in Places /\ At(mem, i, <<"direct", k>>) = mem.inode[i].direct[k]
        BY <1>0, <2>1
    <2>3. <<"direct", k>> # <<"direct", 0>>
        BY <2>1
    <2>4. QED
        BY <2>2, <2>3 DEF OnlyFirst, StartsAt
<1>6. ASSUME NEW p \in Places \ {<<"direct", 0>>} PROVE At(new, i, p) = None
    <2>1. ASSUME NEW k \in 0..INODE_DIRECT_NUM - 1, p = <<"direct", k>> PROVE At(new, i, p) = None
        <3>1. k # 0
            BY <2>1
        <3>2. k \in 1..INODE_DIRECT_NUM - 1
            BY <3>1, ConstantsTyped
        <3>3. QED
            BY <1>0, <1>5, <2>1, <3>2
    <2>2. ASSUME NEW k \in 0..INDEX_NUM - 1, p = <<"slot", k>> PROVE At(new, i, p) = None
        <3>1. At(new, i, <<"slot", k>>) = Slots(new, i)[k]
            BY AtSlot
        <3>2. NoSlots[k] = None
            BY DEF NoSlots
        <3>3. QED
            BY <1>4, <2>2, <3>1, <3>2
    <2>3. CASE p = <<"indirect", 0>>
        BY <1>3, <2>3, AtIndirect
    <2>4. QED
        BY <2>1, <2>2, <2>3, PlacesByKind
<1>7. QED
    BY <1>1, <1>2, <1>3, <1>4, <1>5, <1>6

(* With a new inode, whose only sector was free, and an entry for it, an image is sound. *)
LEMMA AdditionKeepsSound ==
    ASSUME NEW mem, Sound(mem), NEW d \in Dirs(mem), NEW i \in Inodes \ Live(mem),
           NEW b \in Blocks, ~mem.data_bitmap[b], NEW name \in Names,
           \A k \in 1..Len(Children(mem, d)) : Children(mem, d)[k].name # name,
           NEW new, Added(mem, new, d, i, b, Append(Children(mem, d), [name |-> name, loc |-> i])),
           \/ new.inode[i].type = File
           \/ /\ new.inode[i].type = Directory
              /\ new.sector[b] = Dir(<<[name |-> ".", loc |-> i], [name |-> "..", loc |-> d]>>)
    PROVE  Sound(new) /\ d \in Dirs(new) /\ LosesNone(mem, new)
<1> DEFINE C  == Listing(mem)
           a  == mem.inode[d].direct[0]
           ch == Append(Children(mem, d), [name |-> name, loc |-> i])
<1>0. DOMAIN C = Dirs(mem) /\ \A e \in Dirs(mem) : C[e] = Children(mem, e)
    BY DEF Listing
<1>1. /\ BlocksSound(mem) /\ TreeOn(Live(mem), C) /\ mem \in Image /\ d \in Live(mem) /\ d # i /\ i \in Inodes
      /\ i \notin Dirs(mem) /\ Dirs(mem) \subseteq Live(mem) /\ Live(mem) \subseteq Inodes
    BY DEF Sound, BlocksSound, Dirs, Live
<1>2. /\ a \in Blocks /\ a # None /\ a = At(mem, d, <<"direct", 0>>) /\ <<"direct", 0>> \in Places
      /\ mem.inode[d].indirect = None /\ mem.data_bitmap[a] /\ a # b /\ b # None
    BY <1>1, SoundImage, NoneIsNoBlock
<1>3. /\ new \in Image /\ Live(new) = Live(mem) \cup {i}
      /\ \A j \in Inodes \ {i} : new.inode[j] = mem.inode[j]
    BY <1>1 DEF Added, Live
<1>4. \A j \in Inodes \ {i} : j \in Dirs(new) <=> j \in Dirs(mem)
    BY <1>3 DEF Dirs
<1>5. OnlyFirst(mem, i)
    BY <1>1 DEF BlocksSound
<1>6. /\ \A p \in Places \ {<<"direct", 0>>} : At(new, i, p) = None
      /\ At(new, i, <<"direct", 0>>) = b /\ new.inode[i].direct[0] = b
      /\ new.inode[i].indirect = None /\ Slots(new, i) = NoSlots
      /\ \A k \in 1..INODE_DIRECT_NUM - 1 : new.inode[i].direct[k] = None
    <2>1. StartsAt(mem, new, i, b)
        BY DEF Added
    <2>2. QED
        BY <1>5, <2>1, OneSector
<1>7. HoldsOnce(new, i)
    <2>1. new.data_bitmap[b]
        BY DEF Added
    <2>2. QED
        BY <1>6, <2>1 DEF HoldsOnce
<1>8. DenseFile(new, i)
    <2>1. new.inode[i].direct \in [0..INODE_DIRECT_NUM - 1 -> Slot] /\ INODE_DIRECT_NUM \in Nat
        BY <1>1, <1>3, ImageTyped, ConstantsTyped
    <2>2. \A k \in 0..INODE_DIRECT_NUM - 1 : new.inode[i].direct[k] # None => k = 0
        <3>1. \A k \in 0..INODE_DIRECT_NUM - 1 : k = 0 \/ k \in 1..INODE_DIRECT_NUM - 1
            BY <2>1
        <3>2. QED
            BY <1>6, <3>1
    <2>3. Dense(new.inode[i].direct)
        <3>1. Used(new.inode[i].direct) \subseteq {0}
            BY <2>1, <2>2 DEF Used
        <3>2. 0..0 = {0}
            OBVIOUS
        <3>3. QED
            BY <3>1, <3>2 DEF Dense
    <2>4. Dense(Slots(new, i))
        BY <1>6 DEF Dense, Used, NoSlots
    <2>5. QED
        BY <1>6, <2>3, <2>4 DEF DenseFile
<1>9. ASSUME NEW j \in Live(mem) PROVE Kept(mem, new, j)
    <2>1. ASSUME NEW p \in Places, At(mem, j, p) # None
          PROVE  At(mem, j, p) \in Blocks /\ new.data_bitmap[At(mem, j, p)] /\ At(mem, j, p) # b
        <3>1. At(mem, j, p) \in Blocks /\ mem.data_bitmap[At(mem, j, p)]
            BY <1>1, <2>1, SoundImage
        <3>2. QED
            BY <3>1 DEF Added
    <2>2. mem.inode[j].indirect # None => new.sector[mem.inode[j].indirect] = mem.sector[mem.inode[j].indirect]
        <3>1. SUFFICES ASSUME mem.inode[j].indirect # None
                       PROVE  new.sector[mem.inode[j].indirect] = mem.sector[mem.inode[j].indirect]
            OBVIOUS
        <3>2. <<"indirect", 0>> \in Places /\ At(mem, j, <<"indirect", 0>>) = mem.inode[j].indirect
            BY AtIndirect
        <3>3. mem.inode[j].indirect \in Blocks /\ mem.inode[j].indirect # b
            BY <2>1, <3>1, <3>2
        <3>4. j # d
            BY <1>2, <3>1
        <3>5. mem.inode[j].indirect # a
            BY <1>1, <1>2, <3>1, <3>2, <3>4 DEF BlocksSound
        <3>6. QED
            BY <3>3, <3>5 DEF Added
    <2>3. QED
        BY <1>1, <1>3, <2>1, <2>2 DEF Kept
<1>10. ASSUME NEW e \in Dirs(mem) \ {d} PROVE new.sector[mem.inode[e].direct[0]] = mem.sector[mem.inode[e].direct[0]]
    <2>1. /\ mem.inode[e].direct[0] \in Blocks /\ mem.inode[e].direct[0] # a
          /\ mem.data_bitmap[mem.inode[e].direct[0]]
        BY <1>1, SoundImage
    <2>2. QED
        BY <2>1 DEF Added
<1>11. new.sector[a].kind = "dir" /\ new.sector[a].child = ch
    BY DEF Added, Dir
<1>12. i \in Dirs(new) => /\ new.sector[b].kind = "dir"
                          /\ new.sector[b].child = <<[name |-> ".", loc |-> i], [name |-> "..", loc |-> d]>>
    <2>1. i \in Dirs(new) => new.inode[i].type = Directory
        BY DEF Dirs
    <2>2. File # Directory
        BY DEF File, Directory
    <2>3. QED
        BY <2>1, <2>2 DEF Dir
<1>13. BlocksSound(new)
    <2>1. \A j \in Live(new) \ {i} : j \in Live(mem) /\ Kept(mem, new, j)
        BY <1>3, <1>9
    <2>2. ASSUME NEW j \in Inodes \ (Live(new) \cup {i}) PROVE OnlyFirst(new, j)
        <3>1. OnlyFirst(mem, j)
            BY <1>1, <1>3 DEF BlocksSound
        <3>2. QED
            BY <1>3, <3>1, OnlyFirstStays
    <2>3. \A j \in Dirs(new) \ {i} : new.sector[mem.inode[j].direct[0]].kind = "dir"
        <3>1. \A j \in Dirs(mem) : mem.sector[mem.inode[j].direct[0]].kind = "dir"
            BY <1>1 DEF BlocksSound
        <3>2. \A j \in Dirs(new) \ {i} : j \in Dirs(mem)
            BY <1>1, <1>3, <1>4 DEF Dirs
        <3>3. QED
            BY <1>10, <1>11, <3>1, <3>2
    <2>4. \A j \in Live(new) \ {i}, p, r \in Places : At(new, i, p) # None => At(new, i, p) # At(mem, j, r)
        <3>1. ASSUME NEW j \in Live(new) \ {i}, NEW p \in Places, NEW r \in Places, At(new, i, p) # None
              PROVE  At(new, i, p) # At(mem, j, r)
            <4>1. At(new, i, p) = b
                BY <1>6, <3>1
            <4>2. At(mem, j, r) # None => mem.data_bitmap[At(mem, j, r)]
                BY <1>1, <1>3, SoundImage
            <4>3. QED
                BY <1>2, <4>1, <4>2
        <3>2. QED
            BY <3>1
    <2>5. i \in Live(new) /\ OnlyFirst(new, i)
        BY <1>3, <1>6 DEF OnlyFirst
    <2>6. i \in Dirs(new) => /\ OnlyFirst(new, i) /\ new.inode[i].direct[0] # None
                             /\ new.sector[new.inode[i].direct[0]].kind = "dir"
        BY <1>2, <1>6, <1>12, <2>5
    <2>7. QED
        BY <1>1, <1>3, <1>7, <1>8, <2>1, <2>2, <2>3, <2>4, <2>5, <2>6, BlocksStaySound
<1>14. /\ Children(new, d) = ch
       /\ \A e \in Dirs(mem) \ {d} : Children(new, e) = Children(mem, e)
       /\ i \in Dirs(new) => Children(new, i) = <<[name |-> ".", loc |-> i], [name |-> "..", loc |-> d]>>
    <2>1. \A e \in Dirs(mem) : new.inode[e] = mem.inode[e]
        BY <1>1, <1>3
    <2> HIDE DEF ch
    <2>2. Children(new, d) = ch
        BY <1>11, <2>1 DEF Children
    <2>3. \A e \in Dirs(mem) \ {d} : Children(new, e) = Children(mem, e)
        BY <1>10, <2>1 DEF Children
    <2>4. i \in Dirs(new) => Children(new, i) = <<[name |-> ".", loc |-> i], [name |-> "..", loc |-> d]>>
        BY <1>6, <1>12 DEF Children
    <2>5. QED
        BY <2>2, <2>3, <2>4
<1>15. TreeOn(Live(new), Listing(new))
    <2> DEFINE C2 == Listing(new)
    <2>1. DOMAIN C2 = Dirs(new) /\ \A e \in DOMAIN C2 : C2[e] = Children(new, e)
        BY DEF Listing
    <2>2. DOMAIN C2 = DOMAIN C \/ DOMAIN C2 = DOMAIN C \cup {i}
        <3>1. Dirs(new) \subseteq Inodes
            BY DEF Dirs, Live
        <3>2. Dirs(new) = Dirs(mem) \/ Dirs(new) = Dirs(mem) \cup {i}
            BY <1>1, <1>4, <3>1
        <3>3. QED
            BY <1>0, <2>1, <3>2
    <2>3. \A e \in DOMAIN C \ {d} : C2[e] = C[e]
        BY <1>0, <1>14, <2>1, <2>2
    <2>4. C2[d] = Append(C[d], [name |-> name, loc |-> i])
        BY <1>0, <1>14, <2>1, <2>2
    <2>5. i \in DOMAIN C2 => C2[i] = <<[name |-> ".", loc |-> i], [name |-> "..", loc |-> d]>>
        BY <1>14, <2>1
    <2>6. d \in DOMAIN C /\ \A k \in 1..Len(C[d]) : C[d][k].name # name
        BY <1>0
    <2> HIDE DEF C, C2
    <2>7. Extended(C, C2, d, i, name)
        BY <2>2, <2>3, <2>4, <2>5 DEF Extended
    <2>8. TreeOn(Live(mem) \cup {i}, C2)
        BY <1>1, <2>6, <2>7, TreeGrows
    <2>9. QED
        BY <1>3, <2>8 DEF C2
<1>16. LosesNone(mem, new)
    <2>1. ASSUME NEW x \in Blocks, ~Owned(new, x), Owned(mem, x) PROVE FALSE
        <3>1. PICK j \in Live(mem), p \in Places : At(mem, j, p) = x
            BY <2>1 DEF Owned
        <3>2. At(new, j, p) = x /\ j \in Live(new)
            BY <1>3, <1>9, <3>1, KeptPlaces
        <3>3. QED
            BY <2>1, <3>2 DEF Owned
    <2>2. Owned(new, b)
        BY <1>2, <1>3, <1>6 DEF Owned
    <2>3. \A x \in Blocks : new.data_bitmap[x] => mem.data_bitmap[x] \/ x = b
        BY DEF Added
    <2>4. QED
        BY <2>1, <2>2, <2>3, NothingLost
<1>17. QED
    BY <1>1, <1>4, <1>13, <1>15, <1>16 DEF Sound

\* ino with another type and first direct for inode i.
WithFirst(ino, i, type, b) == [ino EXCEPT ![i].type = type, ![i].direct[0] = b]

(* Assigning the type and the first direct of an inode. *)
LEMMA WithFirstProperties ==
    ASSUME NEW ino \in [Inodes -> Inode], NEW i \in Inodes, NEW type \in {File, Directory}, NEW b \in Slot
    PROVE  /\ WithFirst(ino, i, type, b) \in [Inodes -> Inode]
           /\ WithFirst(ino, i, type, b)[i].type = type
           /\ WithFirst(ino, i, type, b)[i].direct[0] = b
           /\ \A k \in 1..INODE_DIRECT_NUM - 1 : WithFirst(ino, i, type, b)[i].direct[k] = ino[i].direct[k]
           /\ WithFirst(ino, i, type, b)[i].indirect = ino[i].indirect
           /\ \A j \in Inodes \ {i} : WithFirst(ino, i, type, b)[j] = ino[j]
<1> DEFINE new == WithFirst(ino, i, type, b)
           dir == [ino[i].direct EXCEPT ![0] = b]
<1>1. /\ ino[i] \in Inode /\ ino[i].direct \in [0..INODE_DIRECT_NUM - 1 -> Slot] /\ ino[i].indirect \in Slot
      /\ 0 \in 0..INODE_DIRECT_NUM - 1 /\ INODE_DIRECT_NUM \in Nat
    BY ConstantsTyped DEF Inode
<1>2. /\ dir \in [0..INODE_DIRECT_NUM - 1 -> Slot] /\ dir[0] = b
      /\ \A k \in 1..INODE_DIRECT_NUM - 1 : dir[k] = ino[i].direct[k]
    BY <1>1
<1>3. new[i] = [type |-> type, direct |-> dir, indirect |-> ino[i].indirect]
    <2>1. new[i] = [ino[i] EXCEPT !.type = type, !.direct = dir]
        BY <1>1 DEF WithFirst, Inode
    <2>2. ino[i] = [type |-> ino[i].type, direct |-> ino[i].direct, indirect |-> ino[i].indirect]
        BY <1>1 DEF Inode
    <2> HIDE DEF dir, new
    <2>3. QED
        BY <2>1, <2>2
<1>4. \A j \in Inodes \ {i} : new[j] = ino[j]
    BY DEF WithFirst
<1>5. new[i] \in Inode
    <2> HIDE DEF dir, new
    <2>1. QED
        BY <1>1, <1>2, <1>3 DEF Inode
<1>6. new \in [Inodes -> Inode]
    <2>1. new = [j \in Inodes |-> new[j]]
        BY DEF WithFirst
    <2> HIDE DEF new
    <2>2. \A j \in Inodes : new[j] \in Inode
        BY <1>4, <1>5
    <2>3. QED
        BY <2>1, <2>2
<1>7. /\ new[i].type = type /\ new[i].direct = dir /\ new[i].indirect = ino[i].indirect
    <2> HIDE DEF new, dir
    <2>1. QED
        BY <1>3
<1>8. QED
    <2> HIDE DEF dir
    <2>1. QED
        BY <1>2, <1>4, <1>6, <1>7

\* mem with the bits of i and b set, the type and the first direct of i, and the sectors cont.
CreateWith(mem, i, type, b, cont) ==
    [mem EXCEPT !.inode_bitmap[i] = TRUE, !.data_bitmap[b] = TRUE, !.inode[i].type = type,
                !.inode[i].direct[0] = b, !.sector = cont]

\* The same, member by member.
Members(mem, i, type, b, cont) ==
    [inode_bitmap |-> [mem.inode_bitmap EXCEPT ![i] = TRUE],
     data_bitmap |-> [mem.data_bitmap EXCEPT ![b] = TRUE],
     inode |-> WithFirst(mem.inode, i, type, b), sector |-> cont]

(* What is in an image with a new inode. *)
LEMMA CreateWithMembers ==
    ASSUME NEW mem \in Image, NEW i \in Inodes, NEW type, NEW b, NEW cont
    PROVE  CreateWith(mem, i, type, b, cont) = Members(mem, i, type, b, cont)
<1> DEFINE new == CreateWith(mem, i, type, b, cont)
           DB  == [Blocks -> BOOLEAN]
           SE  == [Blocks -> Sector]
           IB  == [Inodes -> BOOLEAN]
           IN1 == [Inodes -> Inode]
           ib  == [mem.inode_bitmap EXCEPT ![i] = TRUE]
           db  == [mem.data_bitmap EXCEPT ![b] = TRUE]
           ino == WithFirst(mem.inode, i, type, b)
<1>1. mem \in [inode_bitmap : IB, data_bitmap : DB, inode : IN1, sector : SE]
    BY DEF Image
<1>2. IN1 = [Inodes -> Inode]
    OBVIOUS
<1> HIDE DEF DB, SE, IB, IN1
<1>3. new = [mem EXCEPT !.inode_bitmap = ib, !.data_bitmap = db, !.inode = ino, !.sector = cont]
    <2> DEFINE one == [mem EXCEPT !.inode_bitmap[i] = TRUE]
               two == [one EXCEPT !.data_bitmap[b] = TRUE]
               three == [two EXCEPT !.inode[i].type = type, !.inode[i].direct[0] = b]
               four == [three EXCEPT !.sector = cont]
    <2>1. one = [mem EXCEPT !.inode_bitmap = ib] /\ one \in [inode_bitmap : {ib}, data_bitmap : DB, inode : IN1, sector : SE]
          /\ one.data_bitmap = mem.data_bitmap /\ one.inode = mem.inode
        BY <1>1
    <2>2. two = [one EXCEPT !.data_bitmap = db] /\ two.inode = mem.inode
          /\ two \in [inode_bitmap : {ib}, data_bitmap : {db}, inode : IN1, sector : SE]
        <3> HIDE DEF one, ib
        <3>1. QED
            BY <2>1
    <2>3. three = [two EXCEPT !.inode = ino]
        <3> DEFINE i1 == [mem.inode EXCEPT ![i].type = type]
                   i2 == [i1 EXCEPT ![i].direct[0] = b]
                   t1 == [two EXCEPT !.inode[i].type = type]
                   t2 == [t1 EXCEPT !.inode[i].direct[0] = b]
        <3>1. t1 = [two EXCEPT !.inode = i1] /\ t1.inode = i1
              /\ t1 \in [inode_bitmap : {ib}, data_bitmap : {db}, inode : {i1}, sector : SE]
            <4> HIDE DEF two, ib, db
            <4>1. QED
                BY <2>2, <1>2
        <3>2. t2 = [t1 EXCEPT !.inode = i2]
            <4> HIDE DEF t1, i1, ib, db
            <4>1. QED
                BY <3>1
        <3>3. i2 = ino
            BY DEF WithFirst
        <3>4. [t1 EXCEPT !.inode = i2] = [two EXCEPT !.inode = i2]
            <4> HIDE DEF two, i1, i2
            <4>1. QED
                BY <3>1
        <3>5. three = t2
            OBVIOUS
        <3> HIDE DEF t1, t2, two, i2, i1, three, ino
        <3>6. QED
            BY <3>2, <3>3, <3>4, <3>5
    <2>4. new = four
        BY DEF CreateWith
    <2>5. QED
        <3>1. [mem EXCEPT !.inode_bitmap = ib, !.data_bitmap = db, !.inode = ino, !.sector = cont]
                = [[[[mem EXCEPT !.inode_bitmap = ib] EXCEPT !.data_bitmap = db] EXCEPT !.inode = ino] EXCEPT !.sector = cont]
            <4> HIDE DEF ib, db, ino
            <4>1. QED
                OBVIOUS
        <3> HIDE DEF ib, db, ino, new
        <3>2. QED
            BY <2>1, <2>2, <2>3, <2>4, <3>1
<1> HIDE DEF new, ib, db, ino
<1>4. /\ new.inode_bitmap = ib /\ new.data_bitmap = db /\ new.inode = ino /\ new.sector = cont
    BY <1>1, <1>3
<1>5. new \in [inode_bitmap : {ib}, data_bitmap : {db}, inode : {ino}, sector : {cont}]
    BY <1>1, <1>3
<1>6. new = [inode_bitmap |-> new.inode_bitmap, data_bitmap |-> new.data_bitmap,
             inode |-> new.inode, sector |-> new.sector]
    BY <1>5
<1>7. QED
    BY <1>4, <1>6 DEF new, ino, ib, db, Members

(* Create adds an inode with a sector that was free. *)
LEMMA CreateAdds ==
    ASSUME NEW mem \in Image, NEW i \in Inodes, NEW type \in {File, Directory}, NEW content \in Sector,
           NEW name, [name |-> name, loc |-> i] \in Entry,
           mem.inode[cur_dir].direct[0] \in Blocks, mem.data_bitmap[mem.inode[cur_dir].direct[0]],
           Children(mem, cur_dir) \in Seq(Entry), FreeBlocks(mem) # {},
           NEW new, new = Create(mem, name, type, i, content),
           NEW b, b = FirstFit(FreeBlocks(mem), 1)[1]
    PROVE  /\ b \in Blocks /\ ~mem.data_bitmap[b]
           /\ Added(mem, new, cur_dir, i, b, Append(Children(mem, cur_dir), [name |-> name, loc |-> i]))
           /\ new.inode[i].type = type /\ new.sector[b] = content
<1> DEFINE a   == mem.inode[cur_dir].direct[0]
           ch  == Append(Children(mem, cur_dir), [name |-> name, loc |-> i])
           ib  == [mem.inode_bitmap EXCEPT ![i] = TRUE]
           db  == [mem.data_bitmap EXCEPT ![b] = TRUE]
           ino == WithFirst(mem.inode, i, type, b)
           sec == [mem.sector EXCEPT ![a] = Dir(ch), ![b] = content]
<1>1. b \in FreeBlocks(mem)
    BY FreeBlocksFinite, FirstOfFree
<1>2. b \in Blocks /\ ~mem.data_bitmap[b] /\ a # b /\ b \in Slot
    BY <1>1 DEF FreeBlocks, Slot
<1>3. /\ mem.inode_bitmap \in [Inodes -> BOOLEAN] /\ mem.data_bitmap \in [Blocks -> BOOLEAN]
      /\ mem.inode \in [Inodes -> Inode] /\ mem.sector \in [Blocks -> Sector]
    BY ImageTyped
<1>4. new = [inode_bitmap |-> ib, data_bitmap |-> db, inode |-> ino, sector |-> sec]
    <2>1. new = CreateWith(mem, i, type, b, sec)
        BY DEF Create, CreateWith
    <2> HIDE DEF ib, db, ino, sec
    <2>2. QED
        <3>1. CreateWith(mem, i, type, b, sec) = Members(mem, i, type, b, sec)
            BY CreateWithMembers
        <3>2. QED
            BY <2>1, <3>1 DEF ib, db, ino, Members
<1>5. ib \in [Inodes -> BOOLEAN] /\ \A j \in Inodes : ib[j] <=> mem.inode_bitmap[j] \/ j = i
    BY <1>3
<1>6. db \in [Blocks -> BOOLEAN] /\ \A x \in Blocks : db[x] <=> mem.data_bitmap[x] \/ x = b
    BY <1>2, <1>3
<1>7. Dir(ch) \in Sector
    <2>1. ch \in Seq(Entry)
        OBVIOUS
    <2> HIDE DEF ch
    <2>2. QED
        BY <2>1 DEF Sector
<1>8. /\ sec \in [Blocks -> Sector] /\ sec[a] = Dir(ch) /\ sec[b] = content
      /\ \A x \in Blocks \ {a, b} : sec[x] = mem.sector[x]
    <2> HIDE DEF ch
    <2>1. QED
        BY <1>2, <1>3, <1>7
<1>9. /\ ino \in [Inodes -> Inode] /\ ino[i].type = type /\ ino[i].direct[0] = b
      /\ \A k \in 1..INODE_DIRECT_NUM - 1 : ino[i].direct[k] = mem.inode[i].direct[k]
      /\ ino[i].indirect = mem.inode[i].indirect
      /\ \A j \in Inodes \ {i} : ino[j] = mem.inode[j]
    <2> DEFINE old == mem.inode
    <2>1. old \in [Inodes -> Inode]
        BY <1>3
    <2> HIDE DEF old
    <2>2. /\ WithFirst(old, i, type, b) \in [Inodes -> Inode]
          /\ WithFirst(old, i, type, b)[i].type = type
          /\ WithFirst(old, i, type, b)[i].direct[0] = b
          /\ \A k \in 1..INODE_DIRECT_NUM - 1 : WithFirst(old, i, type, b)[i].direct[k] = old[i].direct[k]
          /\ WithFirst(old, i, type, b)[i].indirect = old[i].indirect
          /\ \A j \in Inodes \ {i} : WithFirst(old, i, type, b)[j] = old[j]
        BY <1>2, <2>1, WithFirstProperties
    <2>3. QED
        BY <2>2 DEF old
<1> HIDE DEF ib, db, ino, sec, ch
<1>10. new.inode_bitmap = ib /\ new.data_bitmap = db /\ new.inode = ino /\ new.sector = sec
    BY <1>4
<1>11. new \in Image
    BY <1>4, <1>5, <1>6, <1>8, <1>9 DEF Image
<1>12. StartsAt(mem, new, i, b)
    BY <1>9, <1>10 DEF StartsAt
<1>13. Added(mem, new, cur_dir, i, b, ch)
    BY <1>5, <1>6, <1>8, <1>9, <1>10, <1>11, <1>12 DEF Added
<1>14. QED
    BY <1>2, <1>8, <1>9, <1>10, <1>13 DEF ch

(* A position SelectInSeq finds in a directory. *)
LEMMA EntryFound ==
    ASSUME NEW mem, NEW d, NEW type, NEW name, Children(mem, d) \in Seq(Entry), EntryOf(mem, d, type, name) # 0
    PROVE  /\ EntryOf(mem, d, type, name) \in 1..Len(Children(mem, d))
           /\ Children(mem, d)[EntryOf(mem, d, type, name)].name = name
           /\ mem.inode[Children(mem, d)[EntryOf(mem, d, type, name)].loc].type = type
<1> DEFINE s == Children(mem, d)
           I == {j \in 1..Len(s) : s[j].name = name /\ mem.inode[s[j].loc].type = type}
<1>1. EntryOf(mem, d, type, name) = IF I # {} THEN Min(I) ELSE 0
    BY DEF EntryOf, SelectInSeq
<1>2. I \in SUBSET Nat
    OBVIOUS
<1>3. I # {} => Min(I) \in I
    <2> HIDE DEF I
    <2>1. QED
        BY <1>2, LeastElement
<1>4. EntryOf(mem, d, type, name) \in I
    <2> HIDE DEF I
    <2>1. QED
        BY <1>1, <1>3
<1>5. QED
    BY <1>4

----------------------------------------------------------------------------
(* The commands *)

\* Whatever an orderly client sends, the image stays sound, and the current directory is one
\* of its directories.
SoundInv == Sound(file_storage) /\ cur_dir \in Dirs(file_storage)

(* An entry that a command can name is that of an inode in use. *)
LEMMA NamedEntry ==
    ASSUME NEW mem, Sound(mem), NEW d \in Dirs(mem), NEW k \in 1..Len(Children(mem, d)),
           Children(mem, d)[k].name \notin {".", ".."}, NEW i, i = Children(mem, d)[k].loc
    PROVE  /\ Lists(Listing(mem), d, k, i) /\ i \in Live(mem) /\ i \in Inodes
           /\ i \in Dirs(mem) <=> mem.inode[i].type = Directory
<1>1. d \in DOMAIN Listing(mem) /\ Listing(mem)[d] = Children(mem, d)
    BY DEF Listing
<1>2. Lists(Listing(mem), d, k, i)
    <2> HIDE DEF Listing
    <2>1. QED
        BY <1>1 DEF Lists
<1>3. EntriesLead(Live(mem), Listing(mem))
    BY DEF Sound, TreeOn
<1>4. i \in Live(mem)
    BY <1>1, <1>3 DEF EntriesLead
<1>5. QED
    BY <1>2, <1>4 DEF Dirs, Live

(* An inode that is free has a number. *)
LEMMA FreeInodesFinite ==
    ASSUME NEW mem
    PROVE  FreeInodes(mem) \in SUBSET Int /\ FreeInodes(mem) \in SUBSET Inodes /\ IsFiniteSet(FreeInodes(mem))
<1>1. INODE_NUM - 1 \in Int
    BY FileSystemAssumption
<1>2. IsFiniteSet(Inodes)
    BY <1>1, FS_Interval DEF Inodes
<1>3. FreeInodes(mem) \in SUBSET Inodes /\ Inodes \in SUBSET Int
    BY DEF FreeInodes, Inodes
<1>4. IsFiniteSet(FreeInodes(mem))
    BY <1>2, <1>3, FS_Subset
<1>5. QED
    BY <1>3, <1>4

(* mk and mkdir leave a tree, in which the current directory is still a directory. *)
LEMMA CreateKeepsSound ==
    ASSUME NEW mem, Sound(mem), cur_dir \in Dirs(mem), NEW name \in Names, MayCreate(mem, name),
           NEW i, i = FirstFit(FreeInodes(mem), 1)[1], NEW type, NEW content,
           \/ type = File /\ content = Data
           \/ /\ type = Directory
              /\ content = Dir(<<[name |-> ".", loc |-> i], [name |-> "..", loc |-> cur_dir]>>),
           NEW new, new = Create(mem, name, type, i, content)
    PROVE  Sound(new) /\ cur_dir \in Dirs(new) /\ LosesNone(mem, new)
<1> DEFINE b == FirstFit(FreeBlocks(mem), 1)[1]
           ch == Children(mem, cur_dir)
<1>1. i \in Inodes \ Live(mem)
    <2>1. FreeInodes(mem) # {}
        BY DEF MayCreate
    <2>2. i \in FreeInodes(mem)
        BY <2>1, FreeInodesFinite, FirstOfFree
    <2>3. QED
        BY <2>2 DEF FreeInodes, Live
<1>2. /\ mem \in Image /\ mem.inode[cur_dir].direct[0] \in Blocks
      /\ mem.data_bitmap[mem.inode[cur_dir].direct[0]] /\ ch \in Seq(Entry)
    BY SoundImage DEF Sound
<1>3. FreeBlocks(mem) # {} /\ ~HasName(mem, cur_dir, name)
    BY DEF MayCreate
<1>4. \A k \in 1..Len(ch) : ch[k].name # name
    <2> HIDE DEF ch
    <2>1. \A k \in 1..Len(ch) : ch[k] \in ToSet(ch)
        BY <1>2 DEF ToSet
    <2>2. QED
        BY <1>3, <2>1 DEF HasName, ch
<1>5. cur_dir \in Inodes
    BY DEF Dirs, Live
<1>6. content \in Sector
    <2>1. [name |-> ".", loc |-> i] \in Entry /\ [name |-> "..", loc |-> cur_dir] \in Entry
        BY <1>1, <1>5 DEF Entry
    <2>2. <<[name |-> ".", loc |-> i], [name |-> "..", loc |-> cur_dir]>> \in Seq(Entry)
        BY <2>1
    <2>3. QED
        BY <2>2 DEF Sector
<1>7. [name |-> name, loc |-> i] \in Entry /\ type \in {File, Directory}
    BY <1>1 DEF Entry
<1>8. /\ b \in Blocks /\ ~mem.data_bitmap[b]
      /\ Added(mem, new, cur_dir, i, b, Append(ch, [name |-> name, loc |-> i]))
      /\ new.inode[i].type = type /\ new.sector[b] = content
    BY <1>1, <1>2, <1>3, <1>6, <1>7, CreateAdds
<1>9. QED
    BY <1>1, <1>4, <1>8, AdditionKeepsSound

(* The file of an entry that rm finds. *)
LEMMA FileRemoveKeepsSound ==
    ASSUME NEW mem, Sound(mem), NEW d \in Dirs(mem), NEW name \in Names,
           EntryOf(mem, d, File, name) # 0,
           NEW new, new = file_delete(mem, d, EntryOf(mem, d, File, name))
    PROVE  Sound(new) /\ d \in Dirs(new) /\ LosesNone(mem, new)
<1> DEFINE k == EntryOf(mem, d, File, name)
           i == Children(mem, d)[k].loc
<1>1. Children(mem, d) \in Seq(Entry)
    BY SoundImage DEF Sound
<1>2. k \in 1..Len(Children(mem, d)) /\ Children(mem, d)[k].name = name /\ mem.inode[i].type = File
    BY <1>1, EntryFound
<1>3. name \notin {".", ".."}
    BY FileSystemAssumption
<1> HIDE DEF k
<1>4. Lists(Listing(mem), d, k, i) /\ (i \in Dirs(mem) <=> mem.inode[i].type = Directory)
    BY <1>2, <1>3, NamedEntry
<1>5. i \notin Dirs(mem)
    BY <1>2, <1>4 DEF File, Directory
<1>6. new = file_delete(mem, d, k)
    BY DEF k
<1>7. Sound(new) /\ Dirs(new) = Dirs(mem) /\ LosesNone(mem, new)
    <2> HIDE DEF i
    <2>1. QED
        BY <1>4, <1>5, <1>6, FileDeleteKeepsSound
<1>8. QED
    BY <1>7

(* The directory of an entry that rmdir finds, if it has no subdirectory. *)
LEMMA DirectoryRemoveKeepsSound ==
    ASSUME NEW mem, Sound(mem), NEW d \in Dirs(mem), NEW name \in Names,
           EntryOf(mem, d, Directory, name) # 0,
           \A e \in ToSet(Children(mem, d)) :
               e.name = name /\ mem.inode[e.loc].type = Directory =>
                   \A f \in ToSet(Children(mem, e.loc)) :
                       f.name \in {".", ".."} \/ mem.inode[f.loc].type = File,
           NEW stale,
           NEW new, new = dir_delete(mem, d, EntryOf(mem, d, Directory, name), stale)
    PROVE  Sound(new) /\ d \in Dirs(new) /\ LosesNone(mem, new)
<1> DEFINE k == EntryOf(mem, d, Directory, name)
           i == Children(mem, d)[k].loc
           ch == Children(mem, d)
<1>1. ch \in Seq(Entry)
    BY SoundImage DEF Sound
<1>2. k \in 1..Len(ch) /\ ch[k].name = name /\ mem.inode[i].type = Directory
    BY <1>1, EntryFound
<1>3. name \notin {".", ".."}
    BY FileSystemAssumption
<1>4. new = dir_delete(mem, d, k, stale)
    OBVIOUS
<1> HIDE DEF k
<1>5. Lists(Listing(mem), d, k, i) /\ (i \in Dirs(mem) <=> mem.inode[i].type = Directory)
    BY <1>2, <1>3, NamedEntry
<1>6. i \in Dirs(mem)
    BY <1>2, <1>5
<1>7. \A f \in ToSet(Children(mem, i)) : f.name \in {".", ".."} \/ mem.inode[f.loc].type = File
    <2>1. ch[k] \in ToSet(ch)
        BY <1>1, <1>2 DEF ToSet
    <2>2. QED
        BY <1>2, <2>1
<1>8. Flat(mem, i)
    <2> DEFINE in == Children(mem, i)
    <2>1. in \in Seq(Entry)
        BY <1>6, SoundImage DEF Sound
    <2> SUFFICES ASSUME NEW j \in 1..Len(in), in[j].name \notin {".", ".."} PROVE in[j].loc \notin Dirs(mem)
        BY DEF Flat
    <2>2. in[j] \in ToSet(in)
        BY <2>1 DEF ToSet
    <2>3. mem.inode[in[j].loc].type = File
        BY <1>7, <2>2
    <2>4. QED
        BY <2>3 DEF Dirs, File, Directory
<1>9. QED
    <2> HIDE DEF i
    <2>1. QED
        BY <1>4, <1>5, <1>6, <1>8, DirectoryDeleteKeepsSound

(* Resizing one of the files that Target names. *)
LEMMA SoundAfterResize ==
    ASSUME NEW mem, Sound(mem), NEW i \in Live(mem) \ Dirs(mem), NEW new, Resized(mem, new, i)
    PROVE  /\ Sound(new) /\ Dirs(new) = Dirs(mem) /\ i \in Live(new) \ Dirs(new)
           /\ new \in Image /\ i \in Inodes /\ HoldsOnce(new, i) /\ DenseFile(new, i)
           /\ Accounts(mem, new, i) => LosesNone(mem, new)
<1>1. /\ BlocksSound(new) /\ Live(new) = Live(mem) /\ Dirs(new) = Dirs(mem)
      /\ Listing(new) = Listing(mem)
      /\ Accounts(mem, new, i) => LosesNone(mem, new)
    BY ResizeKeepsSound DEF Sound
<1>2. Sound(new)
    BY <1>1 DEF Sound
<1>3. i \in Inodes
    BY DEF Live
<1>4. QED
    BY <1>1, <1>2, <1>3 DEF BlocksSound

(* A live file, and what file_resize makes of it. *)
LEMMA ResizeSound ==
    ASSUME NEW mem, Sound(mem), NEW i \in Live(mem) \ Dirs(mem), NEW size \in Nat,
           NEW new, new = file_resize(mem, i, size).mem
    PROVE  /\ Resized(mem, new, i)
           /\ Sound(new) /\ Dirs(new) = Dirs(mem) /\ i \in Live(new) \ Dirs(new)
           /\ new \in Image /\ i \in Inodes /\ HoldsOnce(new, i) /\ DenseFile(new, i)
<1>1. mem \in Image /\ i \in Inodes /\ HoldsOnce(mem, i) /\ DenseFile(mem, i)
    BY DEF Sound, BlocksSound, Live
<1>2. Resized(mem, new, i)
    BY <1>1, FileResizes
<1>3. /\ Sound(new) /\ Dirs(new) = Dirs(mem) /\ i \in Live(new) \ Dirs(new)
      /\ new \in Image /\ i \in Inodes /\ HoldsOnce(new, i) /\ DenseFile(new, i)
    BY <1>2, SoundAfterResize
<1>4. QED
    BY <1>2, <1>3

\* The outcome r is a success that loses no block of mem, or leaves no block free.
LosesIfFull(mem, r) == /\ r.ok => LosesNone(mem, r.mem)
                       /\ LosesNone(mem, r.mem) \/ FreeBlocks(r.mem) = {}

(* What it loses, if anything, are the last free blocks. *)
LEMMA ResizeLosses ==
    ASSUME NEW mem, Sound(mem), NEW i \in Live(mem) \ Dirs(mem), NEW size \in Nat, size <= Capacity
    PROVE  /\ LosesIfFull(mem, file_resize(mem, i, size))
           /\ size = 0 => LosesNone(mem, file_resize(mem, i, size).mem)
<1> DEFINE r == file_resize(mem, i, size)
<1>1. mem \in Image /\ i \in Inodes /\ HoldsOnce(mem, i) /\ DenseFile(mem, i)
    BY DEF Sound, BlocksSound, Live
<1>2. AccountsOrFull(mem, r, i) /\ (size = 0 => Accounts(mem, r.mem, i))
    BY <1>1, FileResizeAccounts
<1>3. Resized(mem, r.mem, i)
    BY <1>1, FileResizes
<1> HIDE DEF r
<1>4. Accounts(mem, r.mem, i) => LosesNone(mem, r.mem)
    BY <1>3, SoundAfterResize
<1>5. LosesIfFull(mem, r) /\ (size = 0 => LosesNone(mem, r.mem))
    BY <1>2, <1>4 DEF AccountsOrFull, LosesIfFull
<1>6. QED
    BY <1>5 DEF r

(* w leaves the file with blocks of its own only, if these are the ones it writes. *)
LEMMA OverwriteKeepsSound ==
    ASSUME NEW mem, Sound(mem), NEW i \in Live(mem) \ Dirs(mem), NEW size \in TextSizes,
           NEW done, done = file_resize(file_resize(mem, i, 0).mem, i, size),
           \A j \in Used(done.mem.inode[i].direct) : done.mem.inode[i].direct[j] = done.mem.inode[i].direct[0] + j,
           NEW new, new = Overwrite(mem, i, size)
    PROVE  Sound(new) /\ Dirs(new) = Dirs(mem) /\ (LosesNone(mem, new) \/ FreeBlocks(new) = {})
<1> DEFINE empty == file_resize(mem, i, 0).mem
           start == done.mem.inode[i].direct[0]
           S == start..start + size - 1
<1>1. /\ size \in Nat /\ size <= INODE_DIRECT_NUM /\ INODE_DIRECT_NUM \in Nat
      /\ size <= Capacity /\ 0 \in Nat /\ 0 <= Capacity
    BY FileSystemAssumption DEF TextSizes, Capacity
<1>2. /\ Resized(mem, empty, i) /\ Sound(empty) /\ Dirs(empty) = Dirs(mem) /\ i \in Live(empty) \ Dirs(empty)
      /\ empty \in Image /\ i \in Inodes /\ HoldsOnce(empty, i) /\ DenseFile(empty, i)
    BY <1>1, ResizeSound
<1>L. LosesNone(mem, empty)
    BY <1>1, ResizeLosses
<1>3. NoBlocks(empty, i)
    <2>1. mem \in Image /\ i \in Inodes /\ HoldsOnce(mem, i) /\ DenseFile(mem, i)
        BY DEF Sound, BlocksSound, Live
    <2>2. QED
        BY <2>1, ResizedToNothing
<1>4. done = file_resize(empty, i, size)
    OBVIOUS
<1> HIDE DEF empty
<1>5. Resized(empty, done.mem, i) /\ Sound(done.mem) /\ Dirs(done.mem) = Dirs(mem)
    BY <1>1, <1>2, <1>4, ResizeSound
<1>K. LosesNone(empty, done.mem) \/ FreeBlocks(done.mem) = {}
    BY <1>1, <1>2, <1>4, ResizeLosses DEF LosesIfFull
<1>A. done.ok => Accounts(empty, done.mem, i)
    BY <1>1, <1>2, <1>4, FileResizeAccounts DEF AccountsOrFull
<1>T. ASSUME NEW x, LosesNone(empty, x) PROVE LosesNone(mem, x)
    BY <1>L, <1>T DEF LosesNone
<1>6. CASE ~(done.ok /\ size > 0)
    <2>1. new = done.mem
        BY <1>6 DEF Overwrite
    <2>2. QED
        BY <1>5, <1>K, <1>T, <2>1
<1>7. CASE done.ok /\ size > 0
    <2>1. new = [done.mem EXCEPT !.sector = Marked(@, S, Data)]
        BY <1>7 DEF Overwrite
    <2>2. \A j \in 0..size - 1 : done.mem.inode[i].direct[j] # None
        BY <1>1, <1>2, <1>3, <1>4, <1>7, GrownFromNothing
    <2>3. done.mem \in Image
        BY <1>5 DEF Sound, BlocksSound
    <2>4. done.mem.inode[i].direct \in [0..INODE_DIRECT_NUM - 1 -> Slot]
        BY <1>2, <2>3, ImageTyped
    <2>5. \A b \in S : \E k \in 0..INODE_DIRECT_NUM - 1 : b = done.mem.inode[i].direct[k] /\ b \in Blocks
        <3> DEFINE dir == done.mem.inode[i].direct
        <3>1. dir \in [0..INODE_DIRECT_NUM - 1 -> Slot] /\ \A j \in 0..size - 1 : dir[j] # None
            BY <2>2, <2>4
        <3>2. \A j \in Used(dir) : dir[j] = dir[0] + j
            OBVIOUS
        <3> SUFFICES ASSUME NEW b \in dir[0]..dir[0] + size - 1
                     PROVE \E k \in 0..INODE_DIRECT_NUM - 1 : b = dir[k] /\ b \in Blocks
            OBVIOUS
        <3> HIDE DEF dir
        <3>3. 0 \in 0..size - 1 /\ 0 \in 0..INODE_DIRECT_NUM - 1
            BY <1>1, <1>7
        <3>4. dir[0] \in Blocks /\ dir[0] \in Int
            BY <3>1, <3>3 DEF Slot, Blocks, RootBlock
        <3>5. b - dir[0] \in 0..size - 1 /\ b - dir[0] \in 0..INODE_DIRECT_NUM - 1 /\ b = dir[0] + (b - dir[0])
            BY <1>1, <3>4
        <3>6. dir[b - dir[0]] # None /\ dir[b - dir[0]] \in Blocks
            BY <3>1, <3>5 DEF Slot
        <3>7. b - dir[0] \in Used(dir)
            BY <3>1, <3>5, <3>6 DEF Used
        <3>8. QED
            BY <3>2, <3>5, <3>6, <3>7
    <2> HIDE DEF S
    <2>6. Resized(empty, new, i) /\ (Accounts(empty, done.mem, i) => Accounts(empty, new, i))
        BY <1>2, <1>5, <2>1, <2>5, WrittenResizes
    <2>7. Sound(new) /\ Dirs(new) = Dirs(mem) /\ LosesNone(empty, new)
        BY <1>2, <1>7, <1>A, <2>6, SoundAfterResize
    <2>8. QED
        BY <1>T, <2>7
<1>8. QED
    BY <1>6, <1>7

(* The files that d, w and i work on are in use. *)
LEMMA TargetIsFile ==
    ASSUME SoundInv, NEW name \in Names, NEW i \in Target(name)
    PROVE  i \in Live(file_storage) \ Dirs(file_storage)
<1> DEFINE ch == Children(file_storage, cur_dir)
<1>1. ch \in Seq(Entry)
    BY SoundImage DEF SoundInv, Sound
<1>2. PICK k \in 1..Len(ch) : ch[k].name = name /\ ch[k].loc = i /\ file_storage.inode[i].type = File
    BY <1>1 DEF Target, ToSet
<1>3. name \notin {".", ".."}
    BY FileSystemAssumption
<1>4. i \in Live(file_storage) /\ (i \in Dirs(file_storage) <=> file_storage.inode[i].type = Directory)
    BY <1>2, <1>3, NamedEntry DEF SoundInv
<1>5. QED
    BY <1>2, <1>4 DEF File, Directory

(* Whatever r resizes is such a file, if there is one. *)
LEMMA NamedOnce ==
    ASSUME SoundInv, NEW name \in Names, Target(name) # {},
           NEW e \in ToSet(Children(file_storage, cur_dir)), e.name = name
    PROVE  e.loc \in Target(name)
<1> DEFINE ch == Children(file_storage, cur_dir)
<1>1. ch \in Seq(Entry)
    BY SoundImage DEF SoundInv, Sound
<1>2. PICK x \in ToSet(ch) : x.name = name /\ file_storage.inode[x.loc].type = File
    BY DEF Target
<1>3. PICK k \in 1..Len(ch) : e = ch[k]
    BY <1>1 DEF ToSet
<1>4. PICK l \in 1..Len(ch) : x = ch[l]
    BY <1>1, <1>2 DEF ToSet
<1>5. k = l
    <2>1. cur_dir \in DOMAIN Listing(file_storage) /\ Listing(file_storage)[cur_dir] = ch
        BY DEF Listing, SoundInv
    <2>2. NamesDiffer(Listing(file_storage))
        BY DEF SoundInv, Sound, TreeOn
    <2> HIDE DEF ch
    <2>3. QED
        BY <1>2, <1>3, <1>4, <2>1, <2>2 DEF NamesDiffer
<1>6. QED
    BY <1>2, <1>3, <1>4, <1>5 DEF Target

\* What cmd_cd walks over.
Walk(g, path, start) ==
    g = [n \in 0..Len(path) |-> IF n = 0 THEN start ELSE Enter(g[n - 1], path[n])]

(* cd ends where the last of these steps leads. *)
LEMMA WalkUnfolds ==
    ASSUME NEW absolute \in BOOLEAN, NEW path \in Seq(Names \cup {".", ".."}), cmd_cd(absolute, path)
    PROVE  \E g : Walk(g, path, IF absolute THEN 0 ELSE cur_dir) /\ cur_dir' = g[Len(path)]
<1> DEFINE start == IF absolute THEN 0 ELSE cur_dir
           Goes(c, x) == Enter(c, path[x])
           Solves(g, n) == g = [x \in 0..n |-> IF x = 0 THEN start ELSE Goes(g[x - 1], x)]
           Solved == {n \in Nat : \E g : Solves(g, n)}
<1>1. 0 \in Solved
    <2>1. Solves([x \in 0..0 |-> start], 0)
        <3> HIDE DEF start, Goes
        <3>1. QED
            OBVIOUS
    <2>2. QED
        BY <2>1
<1>2. ASSUME NEW n \in Nat, n \in Solved PROVE n + 1 \in Solved
    <2> HIDE DEF start, Goes
    <2>1. PICK g : Solves(g, n)
        BY <1>2
    <2> DEFINE h == [x \in 0..n + 1 |-> IF x = n + 1 THEN Goes(g[n], x) ELSE g[x]]
    <2>2. \A x \in 0..n : h[x] = g[x]
        OBVIOUS
    <2>3. h[n + 1] = Goes(g[n], n + 1)
        OBVIOUS
    <2>4. ASSUME NEW x \in 0..n + 1
          PROVE  h[x] = IF x = 0 THEN start ELSE Goes(h[x - 1], x)
        <3> HIDE DEF h
        <3>1. CASE x = n + 1
            BY <2>2, <2>3, <3>1
        <3>2. CASE x = 0
            BY <2>1, <2>2, <3>2
        <3>3. CASE x \in 1..n
            <4>1. x - 1 \in 0..n /\ x \in 0..n /\ x # 0
                BY <3>3
            <4>2. g[x] = Goes(g[x - 1], x)
                BY <2>1, <4>1
            <4>3. QED
                BY <2>2, <4>1, <4>2
        <3>4. QED
            BY <3>1, <3>2, <3>3
    <2>5. Solves(h, n + 1)
        BY <2>4
    <2>6. \E f : Solves(f, n + 1)
        <3> HIDE DEF h, Solves
        <3>1. QED
            BY <2>5
    <2>7. QED
        BY <2>6
<1>3. Nat \subseteq Solved
    <2> HIDE DEF Solved
    <2>1. QED
        BY <1>1, <1>2, SetInduction
<1>4. Len(path) \in Solved
    BY <1>3
<1>5. \E g : Solves(g, Len(path))
    BY <1>4
<1> DEFINE at == CHOOSE g : Solves(g, Len(path))
<1>6. Solves(at, Len(path))
    <2> HIDE DEF Solves
    <2>1. QED
        BY <1>5
<1>7. cur_dir' = at[Len(path)]
    BY DEF cmd_cd
<1>8. Walk(at, path, start)
    <2> HIDE DEF at
    <2>1. QED
        BY <1>6 DEF Walk
<1>9. QED
    <2> HIDE DEF at
    <2>1. QED
        BY <1>7, <1>8

(* From a directory in use cd walks into directories in use. *)
LEMMA WalkKeepsDirectory ==
    ASSUME SoundInv, NEW absolute \in BOOLEAN, NEW path \in Seq(Names \cup {".", ".."}), cmd_cd(absolute, path)
    PROVE  SoundInv'
<1> DEFINE D == Dirs(file_storage)
           start == IF absolute THEN 0 ELSE cur_dir
<1>1. PICK g : Walk(g, path, start) /\ cur_dir' = g[Len(path)]
    BY WalkUnfolds
<1>2. TreeOn(Live(file_storage), Listing(file_storage)) /\ cur_dir \in D
    BY DEF SoundInv, Sound
<1>3. 0 \in D
    BY <1>2 DEF TreeOn, DirectoriesOf, Listing
<1>4. ASSUME NEW d \in D, NEW name PROVE Enter(d, name) \in D
    <2> DEFINE k == EntryOf(file_storage, d, Directory, name)
               ch == Children(file_storage, d)
    <2>1. CASE k = 0
        BY <2>1 DEF Enter
    <2>2. CASE k # 0
        <3>1. ch \in Seq(Entry)
            BY SoundImage DEF SoundInv, Sound
        <3>2. k \in 1..Len(ch) /\ file_storage.inode[ch[k].loc].type = Directory
            BY <2>2, <3>1, EntryFound
        <3>3. Enter(d, name) = ch[k].loc
            BY <2>2 DEF Enter
        <3> HIDE DEF k
        <3>4. ch[k].loc \in Live(file_storage)
            <4> DEFINE C == Listing(file_storage)
            <4>1. C[d] = ch /\ d \in DOMAIN C /\ DOMAIN C = D
                BY DEF Listing
            <4>2. EntriesLead(Live(file_storage), C) /\ DOMAIN C \subseteq Live(file_storage)
                BY <1>2 DEF TreeOn, DirectoriesOf
            <4> HIDE DEF C, ch
            <4>3. CASE ch[k].name = "."
                BY <3>2, <4>1, <4>2, <4>3 DEF EntriesLead
            <4>4. CASE ch[k].name = ".."
                <5>1. PICK l \in Nat : Lists(C, ch[k].loc, l, d)
                    BY <3>2, <4>1, <4>2, <4>4 DEF EntriesLead
                <5>2. QED
                    BY <4>2, <5>1 DEF Lists
            <4>5. CASE ch[k].name \notin {".", ".."}
                BY <3>2, <4>1, <4>2, <4>5 DEF EntriesLead
            <4>6. QED
                BY <4>3, <4>4, <4>5
        <3>5. QED
            BY <3>2, <3>3, <3>4 DEF Dirs
    <2>3. QED
        BY <2>1, <2>2
<1>5. \A n \in 0..Len(path) : g[n] = IF n = 0 THEN start ELSE Enter(g[n - 1], path[n])
    BY <1>1 DEF Walk
<1> DEFINE Inside == {n \in Nat : n \in 0..Len(path) => g[n] \in D}
<1>6. 0 \in Inside
    BY <1>2, <1>3, <1>5
<1>7. ASSUME NEW n \in Nat, n \in Inside PROVE n + 1 \in Inside
    <2> SUFFICES ASSUME n + 1 \in 0..Len(path) PROVE g[n + 1] \in D
        OBVIOUS
    <2>1. g[n] \in D
        BY <1>7
    <2>2. n + 1 # 0 /\ (n + 1) - 1 = n
        OBVIOUS
    <2>3. g[n + 1] = Enter(g[n], path[n + 1])
        BY <1>5, <2>2
    <2>4. QED
        BY <1>4, <2>1, <2>3
<1>8. Nat \subseteq Inside
    <2> HIDE DEF Inside
    <2>1. QED
        BY <1>6, <1>7, SetInduction
<1>9. cur_dir' \in D
    BY <1>1, <1>8
<1>10. file_storage' = file_storage
    BY DEF cmd_cd
<1>11. QED
    BY <1>9, <1>10 DEF SoundInv

\* m has the bitmaps, the inodes and the root directory that f writes.
Formatlike(m) ==
    /\ m \in Image /\ m.inode_bitmap = Formatted.inode_bitmap /\ m.data_bitmap = Formatted.data_bitmap
    /\ m.inode = Formatted.inode /\ m.sector[RootBlock] = Formatted.sector[RootBlock]

(* What f writes is an image; all that is in use is the root directory, with one sector. *)
LEMMA FormattedTyped ==
    /\ Formatted \in Image
    /\ \A i \in Inodes : Formatted.inode_bitmap[i] <=> i = 0
    /\ \A b \in Blocks : Formatted.data_bitmap[b] <=> b = RootBlock
    /\ \A i \in Inodes : /\ Formatted.inode[i].type = Directory /\ Formatted.inode[i].indirect = None
                          /\ \A k \in 0..INODE_DIRECT_NUM - 1 : k # 0 => Formatted.inode[i].direct[k] = None
    /\ Formatted.inode[0].direct[0] = RootBlock
    /\ Formatted.sector[RootBlock] = Dir(<<[name |-> ".", loc |-> 0]>>)
<1> DEFINE F == Formatted
           root == <<[name |-> ".", loc |-> 0]>>
<1>1. /\ 0 \in Inodes /\ RootBlock \in Blocks /\ RootBlock \in Slot /\ None \in Slot /\ RootBlock # None
      /\ 0 \in 0..INODE_DIRECT_NUM - 1 /\ INODE_DIRECT_NUM \in Nat /\ INDEX_NUM \in Nat
    BY FileSystemAssumption, ConstantsTyped DEF Inodes, Blocks, RootBlock, Slot, None
<1>2. root \in Seq(Entry) /\ Len(root) = 1 /\ root[1] = [name |-> ".", loc |-> 0]
    <2>1. [name |-> ".", loc |-> 0] \in Entry
        BY <1>1 DEF Entry
    <2>2. QED
        BY <2>1
<1>3. NoDirect \in [0..INODE_DIRECT_NUM - 1 -> Slot] /\ NoSlots \in [0..INDEX_NUM - 1 -> Slot]
    BY <1>1 DEF NoDirect, NoSlots
<1> DEFINE first == [NoDirect EXCEPT ![0] = RootBlock]
<1>4. /\ first \in [0..INODE_DIRECT_NUM - 1 -> Slot] /\ first[0] = RootBlock
      /\ \A k \in 0..INODE_DIRECT_NUM - 1 : k # 0 => first[k] = None
      /\ \A k \in 0..INODE_DIRECT_NUM - 1 : NoDirect[k] = None
    BY <1>1, <1>3 DEF NoDirect
<1>5. /\ F.inode_bitmap = [i \in Inodes |-> i = 0] /\ F.data_bitmap = [b \in Blocks |-> b = RootBlock]
      /\ F.inode = [i \in Inodes |-> [type |-> Directory, direct |-> IF i = 0 THEN first ELSE NoDirect, indirect |-> None]]
      /\ F.sector = [b \in Blocks |-> IF b = RootBlock THEN Dir(root) ELSE Data]
    <2> HIDE DEF root
    <2>1. QED
        BY DEF Formatted, root
<1>6. F = [inode_bitmap |-> F.inode_bitmap, data_bitmap |-> F.data_bitmap, inode |-> F.inode, sector |-> F.sector]
    BY DEF Formatted
<1> HIDE DEF F, first, root
<1>7. F.inode_bitmap \in [Inodes -> BOOLEAN] /\ F.data_bitmap \in [Blocks -> BOOLEAN]
    BY <1>5
<1>8. \A i \in Inodes : /\ F.inode[i].type = Directory /\ F.inode[i].indirect = None
                        /\ F.inode[i].direct = IF i = 0 THEN first ELSE NoDirect
                        /\ F.inode[i] \in Inode
    <2> SUFFICES ASSUME NEW i \in Inodes
                 PROVE  /\ F.inode[i].type = Directory /\ F.inode[i].indirect = None
                        /\ F.inode[i].direct = IF i = 0 THEN first ELSE NoDirect
                        /\ F.inode[i] \in Inode
        OBVIOUS
    <2> DEFINE dir == IF i = 0 THEN first ELSE NoDirect
    <2>1. F.inode[i] = [type |-> Directory, direct |-> dir, indirect |-> None]
        BY <1>5
    <2>2. dir \in [0..INODE_DIRECT_NUM - 1 -> Slot]
        BY <1>3, <1>4
    <2> HIDE DEF dir
    <2>3. F.inode[i].type = Directory /\ F.inode[i].indirect = None /\ F.inode[i].direct = dir
        BY <2>1
    <2>4. F.inode[i] \in Inode
        BY <1>1, <2>1, <2>2 DEF Inode
    <2>5. QED
        BY <2>3, <2>4 DEF dir
<1>9. F.inode \in [Inodes -> Inode]
    BY <1>5, <1>8
<1>10. F.sector \in [Blocks -> Sector] /\ F.sector[RootBlock] = Dir(root)
    BY <1>1, <1>2, <1>5 DEF Sector
<1>11. F \in Image
    BY <1>6, <1>7, <1>9, <1>10 DEF Image
<1>12. \A i \in Inodes : \A k \in 0..INODE_DIRECT_NUM - 1 : k # 0 => F.inode[i].direct[k] = None
    BY <1>4, <1>8
<1>13. F.inode[0].direct[0] = RootBlock
    BY <1>1, <1>4, <1>8
<1>14. \A i \in Inodes : F.inode_bitmap[i] <=> i = 0
    BY <1>5
<1>15. \A b \in Blocks : F.data_bitmap[b] <=> b = RootBlock
    BY <1>5
<1>16. QED
    BY <1>8, <1>10, <1>11, <1>12, <1>13, <1>14, <1>15 DEF F, root

(* An image like it is sound. *)
LEMMA FormatSound ==
    ASSUME NEW m, Formatlike(m)
    PROVE  Sound(m) /\ Live(m) = {0} /\ Dirs(m) = {0} /\ m.inode[0].direct[0] = RootBlock
<1> DEFINE F == m
           C == Listing(F)
           root == <<[name |-> ".", loc |-> 0]>>
<1>1. /\ 0 \in Inodes /\ RootBlock \in Blocks /\ RootBlock \in Slot /\ None \in Slot /\ RootBlock # None
      /\ 0 \in 0..INODE_DIRECT_NUM - 1 /\ INODE_DIRECT_NUM \in Nat /\ INDEX_NUM \in Nat
    BY FileSystemAssumption, ConstantsTyped DEF Inodes, Blocks, RootBlock, Slot, None
<1>2. root \in Seq(Entry) /\ Len(root) = 1 /\ root[1] = [name |-> ".", loc |-> 0]
    <2>1. [name |-> ".", loc |-> 0] \in Entry
        BY <1>1 DEF Entry
    <2>2. QED
        BY <2>1
<1>3. /\ F \in Image /\ F.inode_bitmap = Formatted.inode_bitmap /\ F.data_bitmap = Formatted.data_bitmap
      /\ F.inode = Formatted.inode /\ F.sector[RootBlock] = Formatted.sector[RootBlock]
    BY DEF Formatlike
<1>4. \A i \in Inodes : F.inode_bitmap[i] <=> i = 0
    BY <1>3, FormattedTyped
<1>5. \A b \in Blocks : F.data_bitmap[b] <=> b = RootBlock
    BY <1>3, FormattedTyped
<1>6. F.inode[0].direct[0] = RootBlock
    BY <1>3, FormattedTyped
<1>8. \A i \in Inodes : /\ F.inode[i].type = Directory /\ F.inode[i].indirect = None
                        /\ \A k \in 0..INODE_DIRECT_NUM - 1 : k # 0 => F.inode[i].direct[k] = None
    BY <1>3, FormattedTyped
<1>10. F.sector[RootBlock] = Dir(root)
    BY <1>3, FormattedTyped
<1>11. F \in Image
    BY <1>3
<1> HIDE DEF F, root
<1>12. Live(F) = {0} /\ Dirs(F) = {0}
    <2>1. \A j \in Inodes : F.inode_bitmap[j] <=> j = 0
        BY <1>4
    <2>2. Live(F) = {0}
        <3> HIDE DEF C
        <3>1. QED
            BY <1>1, <2>1 DEF Live
    <2>3. F.inode[0].type = Directory
        BY <1>1, <1>8
    <2>4. QED
        <3> HIDE DEF C
        <3>1. QED
            BY <2>2, <2>3 DEF Dirs
<1>13. \A i \in Inodes : Slots(F, i) = NoSlots
    BY <1>8 DEF Slots
<1>14. /\ F.inode[0].direct[0] = RootBlock /\ F.data_bitmap[RootBlock]
       /\ At(F, 0, <<"direct", 0>>) = RootBlock
    BY <1>1, <1>5, <1>6 DEF At
<1>15. ASSUME NEW i \in Inodes PROVE OnlyFirst(F, i)
    <2> SUFFICES ASSUME NEW p \in Places, p # <<"direct", 0>> PROVE At(F, i, p) = None
        BY DEF OnlyFirst
    <2>1. CASE p \in {"direct"} \X (0..INODE_DIRECT_NUM - 1)
        <3>1. PICK k \in 0..INODE_DIRECT_NUM - 1 : p = <<"direct", k>>
            BY <2>1
        <3>2. k # 0
            BY <3>1
        <3>3. At(F, i, p) = F.inode[i].direct[k]
            BY <3>1 DEF At
        <3>4. QED
            BY <1>8, <3>2, <3>3
    <2>2. CASE p \in {"slot"} \X (0..INDEX_NUM - 1)
        <3>1. PICK k \in 0..INDEX_NUM - 1 : p = <<"slot", k>>
            BY <2>2
        <3>2. At(F, i, p) = NoSlots[k]
            BY <1>13, <3>1 DEF At
        <3>3. QED
            BY <3>2 DEF NoSlots
    <2>3. CASE p = <<"indirect", 0>>
        BY <1>8, <2>3 DEF At
    <2>4. QED
        BY <2>1, <2>2, <2>3 DEF Places
<1>16. HoldsOnce(F, 0)
    <2>1. \A p \in Places : At(F, 0, p) # None => p = <<"direct", 0>>
        BY <1>1, <1>15 DEF OnlyFirst
    <2>2. QED
        BY <1>14, <2>1 DEF HoldsOnce
<1>17. Children(F, 0) = root
    BY <1>10, <1>14 DEF Children, Dir
<1>18. F.sector[F.inode[0].direct[0]].kind = "dir"
    BY <1>10, <1>14 DEF Dir
<1>19. BlocksSound(F)
    BY <1>1, <1>11, <1>12, <1>14, <1>15, <1>16, <1>18 DEF BlocksSound
<1>20. DOMAIN C = {0} /\ C[0] = root
    BY <1>12, <1>17 DEF Listing
<1> HIDE DEF C
<1>21. DirectoriesOf({0}, C) /\ NamesDiffer(C)
    BY <1>1, <1>2, <1>20 DEF DirectoriesOf, NamesDiffer
<1>22. EntriesLead({0}, C)
    BY <1>2, <1>20 DEF EntriesLead
<1>23. ListedOnce({0}, C)
    <2>1. \A d, k, i : ~Lists(C, d, k, i)
        BY <1>2, <1>20 DEF Lists
    <2>2. QED
        BY <2>1 DEF ListedOnce
<1>24. NoneCutOff({0}, C)
    BY DEF NoneCutOff
<1>25. TreeOn(Live(F), C)
    BY <1>12, <1>21, <1>22, <1>23, <1>24 DEF TreeOn
<1>26. QED
    BY <1>6, <1>12, <1>19, <1>25 DEF Sound, F, C

(* A freshly formatted disk is in order. *)
LEMMA FormattedIsSound ==
    ASSUME Init
    PROVE  SoundInv
<1>1. Formatlike(file_storage)
    BY FormattedTyped DEF Init, Formatlike
<1>2. QED
    BY <1>1, FormatSound DEF Init, SoundInv

\* A step loses no block, or takes the last one.
LosesOnlyAtLast == LosesNone(file_storage, file_storage') \/ FreeBlocks(file_storage') = {}

(* Every command of an orderly client leaves the image sound, and loses no block of a disk    *)
(* that is not full then.                                                                      *)
LEMMA NextKeepsSound ==
    ASSUME SoundInv, [Next]_vars
    PROVE  SoundInv' /\ LosesOnlyAtLast
<1> DEFINE mem == file_storage
<1>1. Sound(mem) /\ cur_dir \in Dirs(mem)
    BY DEF SoundInv
<1>2. ASSUME NEW name \in Names, cmd_mk(name) PROVE SoundInv' /\ LosesOnlyAtLast
    <2> DEFINE i == FirstFit(FreeInodes(mem), 1)[1]
    <2>1. /\ MayCreate(mem, name) /\ file_storage' = Create(mem, name, File, i, Data) /\ cur_dir' = cur_dir
        BY <1>2 DEF cmd_mk
    <2> HIDE DEF i
    <2>2. Sound(file_storage') /\ cur_dir \in Dirs(file_storage') /\ LosesNone(mem, file_storage')
        BY <1>1, <2>1, CreateKeepsSound DEF i
    <2>3. QED
        BY <2>1, <2>2 DEF SoundInv, LosesOnlyAtLast
<1>3. ASSUME NEW name \in Names, cmd_mkdir(name) PROVE SoundInv' /\ LosesOnlyAtLast
    <2> DEFINE i == FirstFit(FreeInodes(mem), 1)[1]
               content == Dir(<<[name |-> ".", loc |-> i], [name |-> "..", loc |-> cur_dir]>>)
    <2>1. /\ MayCreate(mem, name) /\ file_storage' = Create(mem, name, Directory, i, content) /\ cur_dir' = cur_dir
        BY <1>3 DEF cmd_mkdir
    <2>2. Sound(file_storage') /\ cur_dir \in Dirs(file_storage') /\ LosesNone(mem, file_storage')
        BY <1>1, <2>1, CreateKeepsSound
    <2>3. QED
        BY <2>1, <2>2 DEF SoundInv, LosesOnlyAtLast
<1>4. ASSUME NEW name \in Names, cmd_rm(name) PROVE SoundInv' /\ LosesOnlyAtLast
    <2>1. /\ EntryOf(mem, cur_dir, File, name) # 0 /\ cur_dir' = cur_dir
          /\ file_storage' = file_delete(mem, cur_dir, EntryOf(mem, cur_dir, File, name))
        BY <1>4 DEF cmd_rm
    <2>2. Sound(file_storage') /\ cur_dir \in Dirs(file_storage') /\ LosesNone(mem, file_storage')
        BY <1>1, <2>1, FileRemoveKeepsSound
    <2>3. QED
        BY <2>1, <2>2 DEF SoundInv, LosesOnlyAtLast
<1>5. ASSUME NEW name \in Names, OrderlyRmdir(name) PROVE SoundInv' /\ LosesOnlyAtLast
    <2>1. \A e \in ToSet(Children(mem, cur_dir)) :
              e.name = name /\ mem.inode[e.loc].type = Directory =>
                  \A f \in ToSet(Children(mem, e.loc)) :
                      f.name \in {".", ".."} \/ mem.inode[f.loc].type = File
        BY <1>5 DEF OrderlyRmdir, HoldsNoDirectory
    <2>2. EntryOf(mem, cur_dir, Directory, name) # 0 /\ cur_dir' = cur_dir
        BY <1>5 DEF OrderlyRmdir, cmd_rmdir
    <2>3. PICK stale \in Inodes :
              file_storage' = dir_delete(mem, cur_dir, EntryOf(mem, cur_dir, Directory, name), stale)
        BY <1>5 DEF OrderlyRmdir, cmd_rmdir
    <2>4. Sound(file_storage') /\ cur_dir \in Dirs(file_storage') /\ LosesNone(mem, file_storage')
        BY <1>1, <2>1, <2>2, <2>3, DirectoryRemoveKeepsSound
    <2>5. QED
        BY <2>2, <2>4 DEF SoundInv, LosesOnlyAtLast
<1>6. \A size \in Sizes : size \in Nat /\ size <= Capacity
    BY FileSystemAssumption DEF Sizes, Capacity
<1>7. ASSUME NEW i \in Live(mem) \ Dirs(mem), NEW size \in Sizes,
             file_storage' = file_resize(mem, i, size).mem, cur_dir' = cur_dir
      PROVE  SoundInv' /\ LosesOnlyAtLast
    <2>1. Sound(file_storage') /\ Dirs(file_storage') = Dirs(mem)
        BY <1>1, <1>7, <1>6, ResizeSound
    <2>2. LosesNone(mem, file_storage') \/ FreeBlocks(file_storage') = {}
        BY <1>1, <1>7, <1>6, ResizeLosses DEF LosesIfFull
    <2>3. QED
        BY <1>1, <1>7, <2>1, <2>2 DEF SoundInv, LosesOnlyAtLast
<1>8. ASSUME NEW name \in Names, NEW size \in Sizes, Target(name) # {}, cmd_r(name, size) PROVE SoundInv' /\ LosesOnlyAtLast
    <2>1. PICK e \in ToSet(Children(mem, cur_dir)) :
              e.name = name /\ file_storage' = file_resize(mem, e.loc, size).mem
        BY <1>8 DEF cmd_r
    <2>2. e.loc \in Live(mem) \ Dirs(mem)
        BY <1>8, <2>1, NamedOnce, TargetIsFile
    <2>3. cur_dir' = cur_dir
        BY <1>8 DEF cmd_r
    <2>4. QED
        BY <1>7, <2>1, <2>2, <2>3
<1>9. ASSUME NEW name \in Names, NEW size \in Sizes, cmd_d(name, size) PROVE SoundInv' /\ LosesOnlyAtLast
    <2>1. PICK i \in Target(name) : file_storage' = file_resize(mem, i, size).mem
        BY <1>9 DEF cmd_d
    <2>2. i \in Live(mem) \ Dirs(mem)
        BY TargetIsFile
    <2>3. cur_dir' = cur_dir
        BY <1>9 DEF cmd_d
    <2>4. QED
        BY <1>7, <2>1, <2>2, <2>3
<1>10. ASSUME NEW name \in Names, NEW size \in Sizes, cmd_i(name, size) PROVE SoundInv' /\ LosesOnlyAtLast
    <2>1. PICK f \in Target(name) :
              \E one : /\ one = file_resize(mem, f, Max({get_file_size(mem, f), 1}))
                       /\ file_storage' = IF one.ok THEN file_resize(one.mem, f, size).mem ELSE one.mem
        BY <1>10 DEF cmd_i
    <2>2. PICK one : /\ one = file_resize(mem, f, Max({get_file_size(mem, f), 1}))
                     /\ file_storage' = IF one.ok THEN file_resize(one.mem, f, size).mem ELSE one.mem
        BY <2>1
    <2>3. f \in Live(mem) \ Dirs(mem)
        BY TargetIsFile
    <2>4. Max({get_file_size(mem, f), 1}) \in Nat /\ Max({get_file_size(mem, f), 1}) <= Capacity
        <3>1. f \in Inodes /\ mem \in Image
            BY <1>1, <2>3 DEF Live, Sound, BlocksSound
        <3>2. get_file_size(mem, f) \in Nat /\ get_file_size(mem, f) <= Capacity
            <4> DEFINE d == Cardinality(Used(mem.inode[f].direct))
                       s == Cardinality(Used(Slots(mem, f)))
            <4>1. /\ mem.inode[f].direct \in [0..INODE_DIRECT_NUM - 1 -> Slot]
                  /\ Slots(mem, f) \in [0..INDEX_NUM - 1 -> Slot]
                BY <3>1, ImageTyped
            <4>2. INODE_DIRECT_NUM \in Nat /\ INDEX_NUM \in Nat
                BY ConstantsTyped
            <4>3. d \in 0..INODE_DIRECT_NUM /\ s \in 0..INDEX_NUM
                BY <4>1, <4>2, PlacesFinite
            <4>4. get_file_size(mem, f) = d + s
                BY <3>1, SizeTyped
            <4> HIDE DEF d, s
            <4>5. QED
                BY <4>2, <4>3, <4>4 DEF Capacity
        <3> DEFINE now == get_file_size(mem, f)
        <3>3. now \in Nat /\ now <= Capacity /\ Capacity \in Nat /\ 1 <= Capacity
            <4>1. Capacity \in Nat /\ 1 <= Capacity
                BY FileSystemAssumption DEF Capacity
            <4>2. QED
                BY <3>2, <4>1
        <3> HIDE DEF now
        <3>4. Max({now, 1}) = IF now <= 1 THEN 1 ELSE now
            <4>1. now \in Int /\ 1 \in Int
                BY <3>3
            <4>2. QED
                BY <4>1, MinMaxOfTwo
        <3>5. QED
            BY <3>3, <3>4 DEF now
    <2>5. Sound(one.mem) /\ Dirs(one.mem) = Dirs(mem) /\ f \in Live(one.mem) \ Dirs(one.mem)
        BY <1>1, <2>2, <2>3, <2>4, ResizeSound
    <2>L. /\ one.ok => LosesNone(mem, one.mem)
          /\ LosesNone(mem, one.mem) \/ FreeBlocks(one.mem) = {}
        BY <1>1, <2>2, <2>3, <2>4, ResizeLosses DEF LosesIfFull
    <2>6. cur_dir' = cur_dir
        BY <1>10 DEF cmd_i
    <2>7. CASE one.ok
        <3>1. file_storage' = file_resize(one.mem, f, size).mem
            BY <2>2, <2>7
        <3>2. Sound(file_storage') /\ Dirs(file_storage') = Dirs(one.mem)
            BY <1>6, <2>5, <3>1, ResizeSound
        <3>3. LosesNone(one.mem, file_storage') \/ FreeBlocks(file_storage') = {}
            BY <1>6, <2>5, <3>1, ResizeLosses DEF LosesIfFull
        <3>4. LosesNone(mem, file_storage') \/ FreeBlocks(file_storage') = {}
            BY <2>7, <2>L, <3>3 DEF LosesNone
        <3>5. QED
            BY <1>1, <2>5, <2>6, <3>2, <3>4 DEF SoundInv, LosesOnlyAtLast
    <2>8. CASE ~one.ok
        BY <1>1, <2>2, <2>5, <2>6, <2>8, <2>L DEF SoundInv, LosesOnlyAtLast
    <2>9. QED
        BY <2>7, <2>8
<1>11. ASSUME NEW name \in Names, OrderlyWrite(name) PROVE SoundInv' /\ LosesOnlyAtLast
    <2>1. PICK size \in TextSizes : WritesOwnSectors(name, size) /\ cmd_w(name, size)
        BY <1>11 DEF OrderlyWrite
    <2>2. PICK f \in Target(name) : file_storage' = Overwrite(mem, f, size)
        BY <2>1 DEF cmd_w
    <2>3. f \in Live(mem) \ Dirs(mem)
        BY TargetIsFile
    <2> DEFINE done == file_resize(file_resize(mem, f, 0).mem, f, size)
    <2>4. \A j \in Used(done.mem.inode[f].direct) : done.mem.inode[f].direct[j] = done.mem.inode[f].direct[0] + j
        BY <2>1 DEF WritesOwnSectors
    <2>5. /\ Sound(file_storage') /\ Dirs(file_storage') = Dirs(mem)
          /\ LosesNone(mem, file_storage') \/ FreeBlocks(file_storage') = {}
        BY <1>1, <2>2, <2>3, <2>4, OverwriteKeepsSound
    <2>6. cur_dir' = cur_dir
        BY <2>1 DEF cmd_w
    <2>7. QED
        BY <1>1, <2>5, <2>6 DEF SoundInv, LosesOnlyAtLast
<1>12. ASSUME ChangeDirectory PROVE SoundInv' /\ LosesOnlyAtLast
    <2>1. PICK path \in Paths, absolute \in BOOLEAN : cmd_cd(absolute, path)
        BY <1>12 DEF ChangeDirectory
    <2>2. path \in Seq(Names \cup {".", ".."})
        <3> DEFINE W == Names \cup {".", ".."}
        <3>1. <<>> \in Seq(W) /\ \A x \in W : <<x>> \in Seq(W)
            OBVIOUS
        <3>2. \A x, y \in W : <<x, y>> \in Seq(W)
            OBVIOUS
        <3>3. QED
            <4>1. CASE path = <<>>
                BY <3>1, <4>1
            <4>2. ASSUME NEW x \in Names \cup {"..", "."}, path = <<x>> PROVE path \in Seq(W)
                BY <3>1, <4>2
            <4>3. ASSUME NEW x \in Names \cup {".."}, NEW y \in Names \cup {".."}, path = <<x, y>>
                  PROVE  path \in Seq(W)
                BY <3>2, <4>3
            <4> HIDE DEF W
            <4>4. \/ path = <<>>
                  \/ \E x \in Names \cup {"..", "."} : path = <<x>>
                  \/ \E x \in Names \cup {".."}, y \in Names \cup {".."} : path = <<x, y>>
                BY DEF Paths
            <4>5. QED
                BY <4>1, <4>2, <4>3, <4>4 DEF W
    <2>3. SoundInv' /\ file_storage' = file_storage
        BY <2>1, <2>2, WalkKeepsDirectory DEF cmd_cd
    <2>4. QED
        BY <2>3 DEF LosesOnlyAtLast, LosesNone
<1>13. ASSUME UNCHANGED vars PROVE SoundInv' /\ LosesOnlyAtLast
    BY <1>13 DEF SoundInv, vars, LosesOnlyAtLast, LosesNone
<1>14. QED
    BY <1>2, <1>3, <1>4, <1>5, <1>8, <1>9, <1>10, <1>11, <1>12, <1>13 DEF Next, AnyCommand

(* So the image is sound, and the current directory one of its directories, for every       *)
(* number of inodes and sectors, and whatever an orderly client sends.                      *)
THEOREM SoundInvariant == Spec => []SoundInv
<1>1. Init => SoundInv
    BY FormattedIsSound
<1>2. SoundInv /\ [Next]_vars => SoundInv'
    BY NextKeepsSound
<1>3. QED
    BY <1>1, <1>2, PTL DEF Spec

----------------------------------------------------------------------------
(* What the runs check *)

(* The inodes and directories in use, and what the invariant says of them. *)
LEMMA SoundMeans ==
    ASSUME NEW mem, Sound(mem)
    PROVE  /\ mem \in Image /\ LiveInodes(mem) = Live(mem) /\ LiveDirs(mem) = Dirs(mem) /\ LiveFiles(mem) = Live(mem) \ Dirs(mem)
           /\ BlocksSound(mem) /\ TreeOn(LiveInodes(mem), Listing(mem))
           /\ DOMAIN Listing(mem) = LiveDirs(mem) /\ \A d \in LiveDirs(mem) : Listing(mem)[d] = Children(mem, d)
<1>1. mem \in Image /\ LiveInodes(mem) = Live(mem) /\ BlocksSound(mem)
    BY DEF Sound, BlocksSound, LiveInodes, Live
<1>2. \A j \in LiveInodes(mem) : mem.inode[j].type \in {File, Directory} /\ File # Directory
    BY <1>1, ImageTyped DEF LiveInodes, File, Directory
<1>3. LiveDirs(mem) = Dirs(mem) /\ LiveFiles(mem) = Live(mem) \ Dirs(mem)
    BY <1>1, <1>2 DEF LiveDirs, LiveFiles, Dirs
<1>4. QED
    BY <1>1, <1>3 DEF Sound, Listing

(* A place that References counts is a place that holds a block. *)
LEMMA ReferencePlaces ==
    ASSUME NEW mem \in Image, NEW j \in Inodes, NEW x \in References(mem, j)
    PROVE  /\ <<x[1], x[2]>> \in Places /\ At(mem, j, <<x[1], x[2]>>) = x[3] /\ x[3] # None
           /\ x = <<x[1], x[2], x[3]>>
<1>1. /\ DOMAIN mem.inode[j].direct = 0..INODE_DIRECT_NUM - 1 /\ DOMAIN Slots(mem, j) = 0..INDEX_NUM - 1
    BY ImageTyped
<1>2. CASE x \in {<<"direct", k, mem.inode[j].direct[k]>> : k \in Used(mem.inode[j].direct)}
    <2>1. PICK k \in Used(mem.inode[j].direct) : x = <<"direct", k, mem.inode[j].direct[k]>>
        BY <1>2
    <2>2. k \in 0..INODE_DIRECT_NUM - 1 /\ mem.inode[j].direct[k] # None
        BY <1>1 DEF Used
    <2>3. x[1] = "direct" /\ x[2] = k /\ x[3] = mem.inode[j].direct[k]
        BY <2>1
    <2>4. QED
        BY <2>1, <2>2, <2>3 DEF Places, At
<1>3. CASE x \in {<<"slot", k, Slots(mem, j)[k]>> : k \in Used(Slots(mem, j))}
    <2>1. PICK k \in Used(Slots(mem, j)) : x = <<"slot", k, Slots(mem, j)[k]>>
        BY <1>3
    <2>2. k \in 0..INDEX_NUM - 1 /\ Slots(mem, j)[k] # None
        BY <1>1 DEF Used
    <2>3. x[1] = "slot" /\ x[2] = k /\ x[3] = Slots(mem, j)[k]
        BY <2>1
    <2>4. QED
        BY <2>1, <2>2, <2>3 DEF Places, At
<1>4. CASE mem.inode[j].indirect # None /\ x = <<"indirect", 0, mem.inode[j].indirect>>
    <2>1. x[1] = "indirect" /\ x[2] = 0 /\ x[3] = mem.inode[j].indirect
        BY <1>4
    <2>2. QED
        BY <1>4, <2>1 DEF Places, At
<1>5. QED
    BY <1>2, <1>3, <1>4 DEF References

(* In a sound image no block has two owners. *)
LEMMA SoundSharesNoBlock ==
    ASSUME NEW mem, Sound(mem)
    PROVE  OwnersDiffer(mem)
<1> SUFFICES ASSUME NEW j \in LiveInodes(mem)
             PROVE  /\ \A x, y \in References(mem, j) : x[3] = y[3] => x = y
                    /\ \A l \in LiveInodes(mem) \ {j} : BlocksOf(mem, j) \cap BlocksOf(mem, l) = {}
    BY DEF OwnersDiffer
<1>1. /\ mem \in Image /\ LiveInodes(mem) = Live(mem) /\ BlocksSound(mem)
      /\ \A l \in LiveInodes(mem) : l \in Inodes
    BY SoundMeans DEF LiveInodes
<1>2. ASSUME NEW x \in References(mem, j), NEW y \in References(mem, j), x[3] = y[3] PROVE x = y
    <2>1. HoldsOnce(mem, j)
        BY <1>1 DEF BlocksSound
    <2>2. <<x[1], x[2]>> = <<y[1], y[2]>>
        <3> DEFINE p == <<x[1], x[2]>>
                   r == <<y[1], y[2]>>
        <3>1. p \in Places /\ At(mem, j, p) = x[3] /\ x[3] # None
            BY <1>1, ReferencePlaces
        <3>2. r \in Places /\ At(mem, j, r) = y[3]
            BY <1>1, ReferencePlaces
        <3> HIDE DEF p, r
        <3>3. p = r
            BY <1>2, <2>1, <3>1, <3>2 DEF HoldsOnce
        <3>4. QED
            BY <3>3 DEF p, r
    <2>3. x = <<x[1], x[2], x[3]>> /\ y = <<y[1], y[2], y[3]>>
        BY <1>1, ReferencePlaces
    <2>4. x[1] = y[1] /\ x[2] = y[2]
        BY <2>2
    <2>5. QED
        BY <1>2, <2>3, <2>4
<1>3. ASSUME NEW l \in LiveInodes(mem) \ {j}, NEW x \in References(mem, j), NEW y \in References(mem, l), x[3] = y[3]
      PROVE  FALSE
    <2> DEFINE p == <<x[1], x[2]>>
               r == <<y[1], y[2]>>
    <2>1. p \in Places /\ At(mem, j, p) = x[3] /\ x[3] # None
        BY <1>1, ReferencePlaces
    <2>2. r \in Places /\ At(mem, l, r) = y[3]
        BY <1>1, ReferencePlaces
    <2> HIDE DEF p, r
    <2>3. QED
        BY <1>1, <1>3, <2>1, <2>2 DEF BlocksSound
<1>4. ASSUME NEW l \in LiveInodes(mem) \ {j} PROVE BlocksOf(mem, j) \cap BlocksOf(mem, l) = {}
    <2>1. SUFFICES ASSUME NEW b \in BlocksOf(mem, j), b \in BlocksOf(mem, l) PROVE FALSE
        OBVIOUS
    <2>2. PICK x \in References(mem, j) : x[3] = b
        BY DEF BlocksOf
    <2>3. PICK y \in References(mem, l) : y[3] = b
        BY <2>1 DEF BlocksOf
    <2>4. QED
        BY <1>3, <2>2, <2>3
<1>5. QED
    BY <1>2, <1>4

(* No block is used twice, however files grow, shrink and disappear: NoBlockShared of Spec. *)
THEOREM BlocksStayDisjoint == Spec => []NoBlockShared
<1>1. SoundInv => NoBlockShared
    BY SoundSharesNoBlock DEF SoundInv, NoBlockShared
<1>2. QED
    BY <1>1, SoundInvariant, PTL

(* Nor is one in use marked free. *)
LEMMA SoundMarksBlocks ==
    ASSUME NEW mem, Sound(mem)
    PROVE  OwnedAreMarked(mem)
<1> SUFFICES ASSUME NEW j \in LiveInodes(mem), NEW x \in References(mem, j) PROVE mem.data_bitmap[x[3]]
    BY DEF OwnedAreMarked, Referenced, BlocksOf
<1>1. mem \in Image /\ j \in Inodes /\ HoldsOnce(mem, j)
    BY SoundMeans DEF BlocksSound, LiveInodes
<1>2. /\ <<x[1], x[2]>> \in Places /\ At(mem, j, <<x[1], x[2]>>) = x[3] /\ x[3] # None
    BY <1>1, ReferencePlaces
<1>3. QED
    BY <1>1, <1>2 DEF HoldsOnce

(* No block in use is marked free: UsedBlocksMarked of Spec. *)
THEOREM UsedBlocksStayMarked == Spec => []UsedBlocksMarked
<1>1. SoundInv => UsedBlocksMarked
    BY SoundMarksBlocks DEF SoundInv, UsedBlocksMarked
<1>2. QED
    BY <1>1, SoundInvariant, PTL

(* Its files are filled from the left. *)
LEMMA SoundFillsFiles ==
    ASSUME NEW mem, Sound(mem)
    PROVE  FilledFromLeft(mem)
<1> SUFFICES ASSUME NEW j \in LiveFiles(mem)
             PROVE  /\ \A k \in Used(mem.inode[j].direct) : 0..k \subseteq Used(mem.inode[j].direct)
                    /\ \A k \in Used(Slots(mem, j)) : 0..k \subseteq Used(Slots(mem, j))
                    /\ mem.inode[j].indirect # None
                         => /\ Used(mem.inode[j].direct) = DOMAIN NoDirect
                            /\ mem.sector[mem.inode[j].indirect].kind = "index"
    BY DEF FilledFromLeft
<1>1. mem \in Image /\ j \in Inodes /\ DenseFile(mem, j)
    BY SoundMeans DEF BlocksSound, LiveFiles, LiveInodes
<1>2. DOMAIN mem.inode[j].direct = 0..INODE_DIRECT_NUM - 1 /\ DOMAIN NoDirect = 0..INODE_DIRECT_NUM - 1
    BY <1>1, ImageTyped DEF NoDirect
<1>3. QED
    BY <1>1, <1>2 DEF DenseFile, Dense, Used

(* Files are filled from the left, and have an index block only behind full directs:       *)
(* BlocksAreDense of Spec.                                                                  *)
THEOREM FilesStayDense == Spec => []BlocksAreDense
<1>1. SoundInv => BlocksAreDense
    BY SoundFillsFiles DEF SoundInv, BlocksAreDense
<1>2. QED
    BY <1>1, SoundInvariant, PTL

(* The current directory is never one that has been deleted, nor a file: StandsInDirectory  *)
(* of Spec.                                                                                 *)
THEOREM CurrentDirectoryStays == Spec => []StandsInDirectory
<1>1. SoundInv => StandsInDirectory
    BY SoundMeans DEF StandsInDirectory, SoundInv
<1>2. QED
    BY <1>1, SoundInvariant, PTL

(* The edges of the tree are the names in the directories. *)
LEMMA EdgesAreNames ==
    ASSUME NEW mem, Sound(mem)
    PROVE  /\ \A x, d : <<x, d>> \in Tree(mem).edge <=> \E k \in Nat : Lists(Listing(mem), d, k, x)
           /\ \A y \in Tree(mem).edge : y = <<y[1], y[2]>>
<1> DEFINE Names1(d) == {x \in ToSet(Children(mem, d)) : x.name \notin {".", ".."}}
           Edges(d) == {<<e.loc, d>> : e \in Names1(d)}
<1>1. Tree(mem).edge = UNION {Edges(d) : d \in LiveDirs(mem)}
    BY DEF Tree
<1>2. ASSUME NEW x, NEW d PROVE <<x, d>> \in Tree(mem).edge <=> \E k \in Nat : Lists(Listing(mem), d, k, x)
    <2>1. <<x, d>> \in Tree(mem).edge <=> d \in LiveDirs(mem) /\ \E e \in Names1(d) : e.loc = x
        BY <1>1
    <2>2. CASE d \notin LiveDirs(mem)
        BY <2>1, <2>2, SoundMeans DEF Lists
    <2>3. CASE d \in LiveDirs(mem)
        <3> DEFINE ch == Children(mem, d)
        <3>1. ch \in Seq(Entry) /\ Listing(mem)[d] = ch /\ d \in DOMAIN Listing(mem)
            BY <2>3, SoundMeans, SoundImage
        <3>2. \A e : e \in ToSet(ch) <=> \E k \in 1..Len(ch) : ch[k] = e
            BY <3>1 DEF ToSet
        <3>3. \A k \in 1..Len(ch) : k \in Nat
            BY <3>1
        <3> HIDE DEF ch
        <3>4. (\E e \in Names1(d) : e.loc = x) <=> \E k \in 1..Len(ch) : ch[k].name \notin {".", ".."} /\ ch[k].loc = x
            BY <3>2 DEF ch
        <3>5. QED
            BY <2>1, <2>3, <3>1, <3>3, <3>4 DEF Lists
    <2>4. QED
        BY <2>2, <2>3
<1>3. ASSUME NEW y \in Tree(mem).edge PROVE y = <<y[1], y[2]>>
    <2>1. PICK d \in LiveDirs(mem) : y \in Edges(d)
        BY <1>1
    <2>2. PICK e \in Names1(d) : y = <<e.loc, d>>
        BY <2>1
    <2>3. QED
        BY <2>2
<1>4. QED
    BY <1>2, <1>3

(* Its directories begin with "." and "..". *)
LEMMA SoundDotsLead ==
    ASSUME NEW mem, Sound(mem)
    PROVE  DotsLead(mem)
<1> SUFFICES ASSUME NEW j \in LiveDirs(mem)
             PROVE  /\ Children(mem, j) # <<>>
                    /\ Children(mem, j)[1] = [name |-> ".", loc |-> j]
                    /\ j # 0 => /\ Len(Children(mem, j)) >= 2
                                /\ Children(mem, j)[2].name = ".."
                                /\ <<j, Children(mem, j)[2].loc>> \in Tree(mem).edge
    BY DEF DotsLead
<1> DEFINE C  == Listing(mem)
           ch == Children(mem, j)
<1>1. j \in DOMAIN C /\ C[j] = ch /\ DirectoriesOf(LiveInodes(mem), C) /\ EntriesLead(LiveInodes(mem), C)
    BY SoundMeans DEF TreeOn
<1>2. /\ ch \in Seq(Entry) /\ Len(ch) >= 1 /\ ch[1].name = "."
      /\ j # 0 => Len(ch) >= 2 /\ ch[2].name = ".."
    BY <1>1 DEF DirectoriesOf
<1> HIDE DEF C, ch
<1>3. 1 \in 1..Len(ch) /\ ch # <<>>
    BY <1>2
<1>4. ch[1].loc = j
    BY <1>1, <1>2, <1>3 DEF EntriesLead
<1>5. ch[1] = [name |-> ".", loc |-> j]
    <2>1. ch[1] \in Entry
        BY <1>2, <1>3
    <2>2. ch[1] = [name |-> ch[1].name, loc |-> ch[1].loc]
        BY <2>1 DEF Entry
    <2>3. QED
        BY <1>2, <1>4, <2>2
<1>6. ASSUME j # 0 PROVE <<j, ch[2].loc>> \in Tree(mem).edge
    <2>1. 2 \in 1..Len(ch) /\ ch[2].name = ".."
        BY <1>2, <1>6
    <2>2. \E l \in Nat : Lists(C, ch[2].loc, l, j)
        BY <1>1, <2>1 DEF EntriesLead
    <2>3. QED
        BY <2>2, EdgesAreNames DEF C
<1>7. QED
    BY <1>2, <1>3, <1>5, <1>6 DEF ch

(* "." leads to the directory itself and ".." to the one that lists it: DirectoriesIntact   *)
(* of Spec.                                                                                 *)
THEOREM DirectoriesStayIntact == Spec => []DirectoriesIntact
<1>1. SoundInv => DirectoriesIntact
    BY SoundDotsLead DEF SoundInv, DirectoriesIntact
<1>2. QED
    BY <1>1, SoundInvariant, PTL

(* In a tree the entries of a directory lead to different inodes. *)
LEMMA EntriesDiffer ==
    ASSUME NEW L, NEW C, TreeOn(L, C), NEW d \in DOMAIN C, NEW k \in 1..Len(C[d]), NEW l \in 1..Len(C[d]),
           C[d][k].loc = C[d][l].loc
    PROVE  k = l
<1>1. /\ DirectoriesOf(L, C) /\ NamesDiffer(C) /\ EntriesLead(L, C) /\ ListedOnce(L, C) /\ NoneCutOff(L, C)
    BY DEF TreeOn
<1>2. /\ \A i, n : Lists(C, d, n, i) => i \in L \ {0} /\ n \in 1..Len(C[d])
      /\ C[d] \in Seq(Entry) /\ d \in L
    BY <1>1 DEF EntriesLead, Lists, DirectoriesOf
<1>3. ASSUME NEW n, Lists(C, d, n, d) PROVE FALSE
    <2>1. d \in L \ {0}
        BY <1>2, <1>3
    <2>2. \E i \in {d}, e \in DOMAIN C \ {d} : \E a \in Nat : Lists(C, e, a, i)
        <3> DEFINE S == {d}
        <3>1. S \in SUBSET (L \ {0}) /\ S # {}
            BY <2>1
        <3> HIDE DEF S
        <3>2. \E i \in S, e \in DOMAIN C \ S : \E a \in Nat : Lists(C, e, a, i)
            BY <1>1, <3>1 DEF NoneCutOff
        <3>3. QED
            BY <3>2 DEF S
    <2>3. PICK e \in DOMAIN C \ {d}, a \in Nat : Lists(C, e, a, d)
        BY <2>2
    <2>4. QED
        BY <1>1, <1>2, <1>3, <2>3 DEF ListedOnce
<1>4. ASSUME NEW p, NEW n, NEW a, Lists(C, p, a, d), Lists(C, d, n, p) PROVE FALSE
    <2>1. p \in L \ {0} /\ p \in DOMAIN C
        BY <1>2, <1>4 DEF Lists
    <2>2. d \in L \ {0}
        BY <1>1, <1>4 DEF EntriesLead, Lists
    <2>3. \E i \in {d, p}, e \in DOMAIN C \ {d, p} : \E b \in Nat : Lists(C, e, b, i)
        <3> DEFINE S == {d, p}
        <3>1. S \in SUBSET (L \ {0}) /\ S # {}
            BY <2>1, <2>2
        <3> HIDE DEF S
        <3>2. \E i \in S, e \in DOMAIN C \ S : \E b \in Nat : Lists(C, e, b, i)
            BY <1>1, <3>1 DEF NoneCutOff
        <3>3. QED
            BY <3>2 DEF S
    <2>4. PICK i \in {d, p}, e \in DOMAIN C \ {d, p}, b \in Nat : Lists(C, e, b, i)
        BY <2>3
    <2>5. CASE i = d
        BY <1>1, <1>2, <1>4, <2>4, <2>5 DEF ListedOnce
    <2>6. CASE i = p
        BY <1>1, <1>4, <2>1, <2>4, <2>6 DEF ListedOnce
    <2>7. QED
        BY <2>4, <2>5, <2>6
<1>5. ASSUME NEW x \in 1..Len(C[d]), NEW y \in 1..Len(C[d]), C[d][x].loc = C[d][y].loc,
             C[d][x].name \in {".", ".."}, C[d][y].name \notin {".", ".."}
      PROVE  FALSE
    <2> DEFINE i == C[d][y].loc
    <2>1. Lists(C, d, y, i)
        BY <1>5 DEF Lists
    <2>2. CASE C[d][x].name = "."
        <3>1. C[d][x].loc = d
            BY <1>1, <2>2 DEF EntriesLead
        <3>2. QED
            BY <1>3, <1>5, <2>1, <3>1
    <2>3. CASE C[d][x].name = ".."
        <3>1. PICK a \in Nat : Lists(C, C[d][x].loc, a, d)
            BY <1>1, <2>3 DEF EntriesLead
        <3>2. QED
            BY <1>4, <1>5, <2>1, <3>1
    <2>4. QED
        BY <1>5, <2>2, <2>3
<1>6. ASSUME NEW x \in 1..Len(C[d]), NEW y \in 1..Len(C[d]), C[d][x].loc = C[d][y].loc,
             C[d][x].name = ".", C[d][y].name = ".."
      PROVE  FALSE
    <2>1. C[d][x].loc = d
        BY <1>1, <1>6 DEF EntriesLead
    <2>2. PICK a \in Nat : Lists(C, C[d][y].loc, a, d)
        BY <1>1, <1>6 DEF EntriesLead
    <2>3. QED
        BY <1>3, <1>6, <2>1, <2>2
<1>7. CASE C[d][k].name = C[d][l].name
    BY <1>1, <1>7 DEF NamesDiffer
<1>8. CASE C[d][k].name \notin {".", ".."} /\ C[d][l].name \notin {".", ".."}
    <2>1. Lists(C, d, k, C[d][k].loc) /\ Lists(C, d, l, C[d][k].loc)
        BY <1>8 DEF Lists
    <2>2. C[d][k].loc \in L
        BY <1>2, <2>1
    <2> DEFINE i == C[d][k].loc
    <2> HIDE DEF i
    <2>3. Lists(C, d, k, i) /\ Lists(C, d, l, i) /\ i \in L
        BY <2>1, <2>2 DEF i
    <2>4. QED
        BY <1>1, <2>3 DEF ListedOnce
<1>9. QED
    <2>1. CASE C[d][k].name \in {".", ".."} /\ C[d][l].name \notin {".", ".."}
        BY <1>5, <2>1
    <2>2. CASE C[d][l].name \in {".", ".."} /\ C[d][k].name \notin {".", ".."}
        BY <1>5, <2>2
    <2>3. CASE C[d][k].name \in {".", ".."} /\ C[d][l].name \in {".", ".."}
        BY <1>6, <1>7, <2>3
    <2>4. QED
        BY <1>8, <2>1, <2>2, <2>3

(* Its directories make a tree. *)
LEMMA SoundMakesTree ==
    ASSUME NEW mem, Sound(mem)
    PROVE  MakesTree(mem)
<1> DEFINE C == Listing(mem)
           L == LiveInodes(mem)
<1>1. /\ DirectoriesOf(L, C) /\ NamesDiffer(C) /\ EntriesLead(L, C) /\ ListedOnce(L, C) /\ NoneCutOff(L, C)
      /\ TreeOn(L, C) /\ DOMAIN C = LiveDirs(mem) /\ \A d \in LiveDirs(mem) : C[d] = Children(mem, d)
    BY SoundMeans DEF TreeOn
<1>2. /\ \A x, d : <<x, d>> \in Tree(mem).edge <=> \E k \in Nat : Lists(C, d, k, x)
      /\ \A y \in Tree(mem).edge : y = <<y[1], y[2]>>
    BY EdgesAreNames
<1> HIDE DEF C
<1>3. \A x, d : <<x, d>> \in Tree(mem).edge => x \in L /\ d \in L
    <2> SUFFICES ASSUME NEW x, NEW d, <<x, d>> \in Tree(mem).edge PROVE x \in L /\ d \in L
        OBVIOUS
    <2>1. PICK k \in Nat : Lists(C, d, k, x)
        BY <1>2
    <2>2. QED
        BY <1>1, <2>1 DEF Lists, EntriesLead, DirectoriesOf
<1>4. IsDirectedGraph(Tree(mem))
    <2>1. Tree(mem) = [node |-> Tree(mem).node, edge |-> Tree(mem).edge] /\ Tree(mem).node = L
        BY DEF Tree
    <2>2. Tree(mem).edge \subseteq Tree(mem).node \X Tree(mem).node
        <3> SUFFICES ASSUME NEW y \in Tree(mem).edge PROVE y \in L \X L
            BY <2>1
        <3>1. y = <<y[1], y[2]>> /\ y[1] \in L /\ y[2] \in L
            <4>1. y = <<y[1], y[2]>>
                BY <1>2
            <4>2. QED
                BY <1>3, <4>1
        <3>2. QED
            BY <3>1
    <2>3. QED
        BY <2>1, <2>2 DEF IsDirectedGraph
<1>5. 0 \in L
    BY <1>1 DEF DirectoriesOf
<1>6. ASSUME NEW S \in SUBSET (L \ {0}), S # {} PROVE \E x \in Tree(mem).edge : x[1] \in S /\ x[2] \notin S
    <2>1. PICK i \in S, d \in DOMAIN C \ S : \E k \in Nat : Lists(C, d, k, i)
        BY <1>1, <1>6 DEF NoneCutOff
    <2>2. <<i, d>> \in Tree(mem).edge
        BY <1>2, <2>1
    <2>3. <<i, d>>[1] = i /\ <<i, d>>[2] = d
        OBVIOUS
    <2>4. QED
        BY <2>1, <2>2, <2>3
<1>7. ASSUME NEW x \in Tree(mem).edge, NEW y \in Tree(mem).edge, x[1] = y[1] PROVE x = y
    <2>1. x = <<x[1], x[2]>> /\ y = <<y[1], y[2]>>
        BY <1>2
    <2>2. x[1] \in L
        BY <1>3, <2>1
    <2>3. PICK k \in Nat : Lists(C, x[2], k, x[1])
        BY <1>2, <2>1
    <2>4. PICK l \in Nat : Lists(C, y[2], l, y[1])
        BY <1>2, <2>1
    <2>5. x[2] = y[2]
        BY <1>1, <1>7, <2>2, <2>3, <2>4 DEF ListedOnce
    <2>6. QED
        BY <1>7, <2>1, <2>5
<1>8. ASSUME NEW j \in LiveDirs(mem), NEW k \in 1..Len(Children(mem, j)), NEW l \in 1..Len(Children(mem, j)),
             \/ Children(mem, j)[k].name = Children(mem, j)[l].name
             \/ Children(mem, j)[k].loc = Children(mem, j)[l].loc
      PROVE  k = l
    <2>1. j \in DOMAIN C /\ C[j] = Children(mem, j)
        BY <1>1
    <2>2. k \in 1..Len(C[j]) /\ l \in 1..Len(C[j]) /\ (C[j][k].name = C[j][l].name \/ C[j][k].loc = C[j][l].loc)
        BY <1>8, <2>1
    <2>3. CASE C[j][k].name = C[j][l].name
        BY <1>1, <2>1, <2>2, <2>3 DEF NamesDiffer
    <2>4. CASE C[j][k].loc = C[j][l].loc
        <3> HIDE DEF L
        <3>1. QED
            BY <1>1, <2>1, <2>2, <2>4, EntriesDiffer
    <2>5. QED
        BY <2>2, <2>3, <2>4
<1>9. QED
    BY <1>4, <1>5, <1>6, <1>7, <1>8 DEF MakesTree

(* The entries form a tree over the inodes in use: NamespaceIsTree of Spec. *)
THEOREM NamespaceStaysTree == Spec => []NamespaceIsTree
<1>1. SoundInv => NamespaceIsTree
    BY SoundMakesTree DEF SoundInv, NamespaceIsTree
<1>2. QED
    BY <1>1, SoundInvariant, PTL

\* Leaked, told by the entries of the files, is what is lost, told by places.
LeakedLost == Leaked = Lost(file_storage)

(* So it is while the image is sound. *)
LEMMA LeakedIsLost == SoundInv => LeakedLost
<1> DEFINE mem == file_storage
<1> SUFFICES ASSUME SoundInv PROVE Leaked = Lost(file_storage)
    BY DEF LeakedLost
<1>1. mem \in Image /\ LiveInodes(mem) = Live(mem) /\ mem = file_storage /\ \A j \in LiveInodes(mem) : j \in Inodes
    BY SoundMeans DEF SoundInv, LiveInodes
<1>2. ASSUME NEW b \in Blocks PROVE b \in Referenced(mem) <=> Owned(mem, b)
    <2>1. ASSUME b \in Referenced(mem) PROVE Owned(mem, b)
        <3>1. PICK j \in LiveInodes(mem) : b \in BlocksOf(mem, j)
            BY <2>1 DEF Referenced
        <3>2. PICK x \in References(mem, j) : x[3] = b
            BY <3>1 DEF BlocksOf
        <3>3. <<x[1], x[2]>> \in Places /\ At(mem, j, <<x[1], x[2]>>) = b
            BY <1>1, <3>2, ReferencePlaces
        <3> DEFINE p == <<x[1], x[2]>>
        <3> HIDE DEF p
        <3>4. p \in Places /\ At(mem, j, p) = b
            BY <3>3 DEF p
        <3>5. QED
            BY <1>1, <3>4 DEF Owned
    <2>2. ASSUME Owned(mem, b) PROVE b \in Referenced(mem)
        <3>1. PICK j \in LiveInodes(mem), p \in Places : At(mem, j, p) = b
            BY <1>1, <2>2 DEF Owned
        <3>2. b # None
            BY NoneIsNoBlock
        <3>3. /\ DOMAIN mem.inode[j].direct = 0..INODE_DIRECT_NUM - 1
              /\ DOMAIN Slots(mem, j) = 0..INDEX_NUM - 1
            BY <1>1, ImageTyped
        <3>4. \E x \in References(mem, j) : x[3] = b
            <4>1. ASSUME NEW k \in 0..INODE_DIRECT_NUM - 1, p = <<"direct", k>> PROVE \E x \in References(mem, j) : x[3] = b
                <5>1. mem.inode[j].direct[k] = b
                    BY <3>1, <4>1, AtDirect
                <5>2. k \in Used(mem.inode[j].direct)
                    BY <3>2, <3>3, <5>1 DEF Used
                <5>3. <<"direct", k, mem.inode[j].direct[k]>> \in References(mem, j)
                    BY <5>2 DEF References
                <5>4. QED
                    BY <5>1, <5>3
            <4>2. ASSUME NEW k \in 0..INDEX_NUM - 1, p = <<"slot", k>> PROVE \E x \in References(mem, j) : x[3] = b
                <5>1. Slots(mem, j)[k] = b
                    BY <3>1, <4>2, AtSlot
                <5>2. k \in Used(Slots(mem, j))
                    BY <3>2, <3>3, <5>1 DEF Used
                <5>3. <<"slot", k, Slots(mem, j)[k]>> \in References(mem, j)
                    BY <5>2 DEF References
                <5>4. QED
                    BY <5>1, <5>3
            <4>3. ASSUME p = <<"indirect", 0>> PROVE \E x \in References(mem, j) : x[3] = b
                <5>1. mem.inode[j].indirect = b
                    BY <3>1, <4>3, AtIndirect
                <5>2. <<"indirect", 0, mem.inode[j].indirect>> \in References(mem, j)
                    BY <3>2, <5>1 DEF References
                <5>3. QED
                    BY <5>1, <5>2
            <4>4. QED
                BY <4>1, <4>2, <4>3, PlacesByKind
        <3>5. QED
            BY <3>4 DEF Referenced, BlocksOf
    <2>3. QED
        BY <2>1, <2>2
<1>3. Leaked \subseteq Blocks /\ \A b \in Blocks : b \in Leaked <=> mem.data_bitmap[b] /\ ~Owned(mem, b)
    BY <1>2 DEF Leaked
<1>4. QED
    BY <1>1, <1>3 DEF Lost

(* A block is marked for nothing only if the command that left it so found no free block for  *)
(* an index block, and then none is left at all: LeaksOnlyWhenFull of Spec.                    *)
THEOREM LeaksHappenOnlyWhenFull == Spec => LeaksOnlyWhenFull
<1>1. SoundInv /\ LeakedLost /\ LeakedLost' /\ [Next]_vars
        => [Leaked' \subseteq Leaked \/ FreeBlocks(file_storage)' = {}]_vars
    <2> SUFFICES ASSUME SoundInv, LeakedLost, LeakedLost', [Next]_vars
                 PROVE  Leaked' \subseteq Leaked \/ FreeBlocks(file_storage') = {}
        OBVIOUS
    <2>1. LosesNone(file_storage, file_storage') \/ FreeBlocks(file_storage') = {}
        BY NextKeepsSound DEF LosesOnlyAtLast
    <2>2. Leaked = Lost(file_storage) /\ Leaked' = Lost(file_storage')
        BY DEF LeakedLost
    <2>3. QED
        BY <2>1, <2>2 DEF LosesNone
<1>2. QED
    BY <1>1, LeakedIsLost, SoundInvariant, PTL DEF Spec, LeaksOnlyWhenFull

----------------------------------------------------------------------------
(* What a file keeps that is resized, when not all sectors are in memory *)

\* Sector b is in the memory m.
InMemory(m, b) == m.sector[b] # Unread

\* An index block, and what it is once more blocks are in it.
Grown(old, new) == \E s, t \in [0..INDEX_NUM - 1 -> Slot] :
                       /\ old = Index(s) /\ new = Index(t)
                       /\ \A k \in 0..INDEX_NUM - 1 : s[k] # None => t[k] = s[k]

\* In place p inode i holds in new what it held in m, with what was in it, or more of an index.
KeepsAt(m, new, i, p) ==
    /\ At(m, i, p) = At(new, i, p)
    /\ \/ new.sector[At(new, i, p)] = m.sector[At(new, i, p)]
       \/ p = <<"indirect", 0>> /\ Grown(m.sector[At(new, i, p)], new.sector[At(new, i, p)])

\* Or it holds a block of L that was written.
TakesAt(new, i, p, L) == At(new, i, p) \in L /\ InMemory(new, At(new, i, p))

Stays(m, new, i, L) ==
    \A p \in Places : At(new, i, p) # None => KeepsAt(m, new, i, p) \/ TakesAt(new, i, p, L)

Switched(m, new) == {b \in Blocks : new.data_bitmap[b] # m.data_bitmap[b]}

(* A sector is read back, whatever its kind. *)
LEMMA Kinds ==
    /\ Data # Unread /\ \A s : Index(s) # Unread /\ Index(s).kind = "index" /\ Index(s).slot = s
    /\ \A c : Dir(c) # Unread /\ Dir(c).kind = "dir" /\ Dir(c).child = c
    /\ Data.kind = "data" /\ Unread.kind = "unread"
    /\ \A s, t : Index(s) = Index(t) => s = t
  BY DEF Data, Unread, Index, Dir

(* What can be in a sector. *)
LEMMA SectorKinds ==
    ASSUME NEW c \in Sector
    PROVE  /\ c \in {Data, Unread} \/ (\E s \in [0..INDEX_NUM - 1 -> Slot] : c = Index(s)) \/ (\E h \in Seq(Entry) : c = Dir(h))
           /\ c.kind = "index" => \E s \in [0..INDEX_NUM - 1 -> Slot] : c = Index(s)
           /\ c.kind = "dir" => \E h \in Seq(Entry) : c = Dir(h)
<1>1. c \in {Data, Unread} \/ (\E s \in [0..INDEX_NUM - 1 -> Slot] : c = Index(s)) \/ (\E h \in Seq(Entry) : c = Dir(h))
  BY DEF Sector, Unread
<1>2. QED BY <1>1, Kinds

(* All places of an inode. *)
LEMMA AllPlaces ==
    ASSUME NEW m, NEW i
    PROVE  /\ \A k \in 0..INODE_DIRECT_NUM - 1 :
                  <<"direct", k>> \in Places /\ At(m, i, <<"direct", k>>) = m.inode[i].direct[k]
           /\ \A k \in 0..INDEX_NUM - 1 : <<"slot", k>> \in Places /\ At(m, i, <<"slot", k>>) = Slots(m, i)[k]
           /\ <<"indirect", 0>> \in Places /\ At(m, i, <<"indirect", 0>>) = m.inode[i].indirect
<1>1. \A k \in 0..INODE_DIRECT_NUM - 1 : <<"direct", k>> \in Places /\ At(m, i, <<"direct", k>>) = m.inode[i].direct[k]
  BY AtDirect
<1>2. \A k \in 0..INDEX_NUM - 1 : <<"slot", k>> \in Places /\ At(m, i, <<"slot", k>>) = Slots(m, i)[k]
  BY AtSlot
<1>3. <<"indirect", 0>> \in Places /\ At(m, i, <<"indirect", 0>>) = m.inode[i].indirect
  BY AtIndirect
<1> QED BY <1>1, <1>2, <1>3

(* What a file holds is marked, and its index block is none of its other blocks. *)
LEMMA HeldPlaces ==
    ASSUME NEW m \in Image, NEW i \in Inodes, HoldsOnce(m, i)
    PROVE  /\ \A k \in 0..INODE_DIRECT_NUM - 1 : m.inode[i].direct[k] # None =>
                  /\ m.inode[i].direct[k] \in Blocks /\ m.data_bitmap[m.inode[i].direct[k]]
                  /\ m.inode[i].direct[k] # m.inode[i].indirect
           /\ \A k \in 0..INDEX_NUM - 1 : Slots(m, i)[k] # None =>
                  /\ Slots(m, i)[k] \in Blocks /\ m.data_bitmap[Slots(m, i)[k]]
                  /\ Slots(m, i)[k] # m.inode[i].indirect
           /\ m.inode[i].indirect # None => m.inode[i].indirect \in Blocks /\ m.data_bitmap[m.inode[i].indirect]
<1>1. \A p \in Places : At(m, i, p) # None => At(m, i, p) \in Blocks /\ m.data_bitmap[At(m, i, p)]
  BY AtTyped DEF HoldsOnce, Slot
<1>2. ASSUME NEW k \in 0..INODE_DIRECT_NUM - 1, m.inode[i].direct[k] # None
      PROVE  /\ m.inode[i].direct[k] \in Blocks /\ m.data_bitmap[m.inode[i].direct[k]]
             /\ m.inode[i].direct[k] # m.inode[i].indirect
  <2>1. /\ <<"direct", k>> \in Places /\ At(m, i, <<"direct", k>>) = m.inode[i].direct[k]
        /\ <<"indirect", 0>> \in Places /\ At(m, i, <<"indirect", 0>>) = m.inode[i].indirect
    BY AllPlaces
  <2>2. <<"direct", k>> # <<"indirect", 0>>
    OBVIOUS
  <2> QED BY <1>1, <1>2, <2>1, <2>2 DEF HoldsOnce
<1>3. ASSUME NEW k \in 0..INDEX_NUM - 1, Slots(m, i)[k] # None
      PROVE  /\ Slots(m, i)[k] \in Blocks /\ m.data_bitmap[Slots(m, i)[k]]
             /\ Slots(m, i)[k] # m.inode[i].indirect
  <2>1. /\ <<"slot", k>> \in Places /\ At(m, i, <<"slot", k>>) = Slots(m, i)[k]
        /\ <<"indirect", 0>> \in Places /\ At(m, i, <<"indirect", 0>>) = m.inode[i].indirect
    BY AllPlaces
  <2>2. <<"slot", k>> # <<"indirect", 0>>
    OBVIOUS
  <2> QED BY <1>1, <1>3, <2>1, <2>2 DEF HoldsOnce
<1>4. m.inode[i].indirect # None => m.inode[i].indirect \in Blocks /\ m.data_bitmap[m.inode[i].indirect]
  BY <1>1, AllPlaces
<1> QED BY <1>2, <1>3, <1>4

(* Whatever a growing file takes is written, and what it had stays where it was. *)
LEMMA GrowStays ==
    ASSUME NEW m \in Image, NEW i \in Inodes, HoldsOnce(m, i), DenseFile(m, i), NEW new, Grows(m, new, i)
    PROVE  Stays(m, new, i, Switched(m, new))
<1> DEFINE D   == m.inode[i].direct
           S   == Slots(m, i)
           old == m.inode[i].indirect
           L   == Switched(m, new)
<1>1. /\ D \in [0..INODE_DIRECT_NUM - 1 -> Slot] /\ S \in [0..INDEX_NUM - 1 -> Slot] /\ old \in Slot
      /\ m.data_bitmap \in [Blocks -> BOOLEAN] /\ m.sector \in [Blocks -> Sector]
      /\ INODE_DIRECT_NUM \in Nat /\ INDEX_NUM \in Nat /\ None \notin Blocks
  BY ImageTyped, ConstantsTyped
<1>3. /\ \A k \in 0..INODE_DIRECT_NUM - 1 : D[k] # None => D[k] \in Blocks /\ m.data_bitmap[D[k]]
      /\ \A k \in 0..INDEX_NUM - 1 : S[k] # None => S[k] \in Blocks /\ m.data_bitmap[S[k]]
      /\ old # None => old \in Blocks /\ m.data_bitmap[old]
  BY HeldPlaces
<1>4. old # None => /\ \A k \in 0..INODE_DIRECT_NUM - 1 : D[k] # old
                    /\ \A k \in 0..INDEX_NUM - 1 : S[k] # old
  BY HeldPlaces
<1>5. CASE new = m
  BY <1>5 DEF Stays, KeepsAt
<1>6. ASSUME NEW bits, NEW q1, TakesDirects(m, new, i, bits, q1) PROVE Stays(m, new, i, L)
  <2> DEFINE D1 == FillHoles(D, q1)
             cont == Marked(m.sector, ToSet(q1), Data)
  <2>1. /\ Taken(m, bits, q1) /\ bits \in [Blocks -> BOOLEAN] /\ \A b \in Blocks : m.data_bitmap[b] => bits[b]
        /\ new = Assigned(m, bits, i, D1, old, cont)
    BY <1>6 DEF TakesDirects
  <2>2. q1 \in Seq(Blocks) /\ Different(q1) /\ \A b \in ToSet(q1) : b \in Blocks /\ ~m.data_bitmap[b] /\ bits[b]
    BY <2>1, TakenBlocks
  <2>3. Slots(new, i) = S /\ new \in Image
    BY <2>1, TakenResizes
  <2>4. Filled(INODE_DIRECT_NUM, D, D1, q1)
    <3> HIDE DEF D
    <3>1. QED BY <1>1, <2>2, FillHolesProperties
  <2>5. cont \in [Blocks -> Sector] /\ (\A b \in Blocks : m.data_bitmap[b] => cont[b] = m.sector[b])
        /\ \A b \in ToSet(q1) : cont[b] = Data
    <3>1. Data \in Sector
      BY DEF Sector
    <3>2. QED BY <1>1, <2>2, <3>1 DEF Marked
  <2>6. D1 \in [0..INODE_DIRECT_NUM - 1 -> Slot]
    BY <2>4 DEF Filled
  <2>7. /\ new.inode[i].direct = D1 /\ new.inode[i].indirect = old /\ new.sector = cont
        /\ new.data_bitmap = bits
    <3> HIDE DEF D1, cont, old, D, S, L
    <3> DEFINE a == Assigned(m, bits, i, D1, old, cont)
    <3>4. /\ bits \in [Blocks -> BOOLEAN] /\ D1 \in [0..INODE_DIRECT_NUM - 1 -> Slot] /\ old \in Slot
          /\ cont \in [Blocks -> Sector]
      BY <1>1, <2>1, <2>5, <2>6
    <3>5. a.inode[i].direct = D1 /\ a.inode[i].indirect = old
      BY <3>4, AssignedTyped
    <3>6. a.sector = cont /\ a.data_bitmap = bits
      BY AssignedMembers
    <3>1. a.inode[i].direct = D1 /\ a.inode[i].indirect = old /\ a.sector = cont /\ a.data_bitmap = bits
      BY <3>5, <3>6
    <3>2. new = a
      BY <2>1 DEF old, D1, cont, D
    <3> HIDE DEF a
    <3>3. QED BY <3>1, <3>2
  <2> HIDE DEF cont, D1, D, S, old
  <2>8. \A b \in ToSet(q1) : b \in L /\ InMemory(new, b)
    BY <1>1, <2>2, <2>5, <2>7, Kinds DEF Switched, InMemory
  <2>9. ASSUME NEW k \in 0..INODE_DIRECT_NUM - 1, D1[k] # None
        PROVE  (D[k] = D1[k] /\ cont[D1[k]] = m.sector[D1[k]]) \/ D1[k] \in ToSet(q1)
    <3>1. CASE D[k] # None
      BY <1>3, <2>4, <2>5, <3>1 DEF Filled
    <3>2. CASE D[k] = None
      <4>1. PICK a \in 1..Len(q1) : D1[k] = q1[a]
        BY <2>4, <2>9, <3>2 DEF Filled
      <4>2. QED BY <2>2, <4>1 DEF ToSet
    <3> QED BY <3>1, <3>2
  <2>10. ASSUME NEW p \in Places, At(new, i, p) # None
         PROVE  KeepsAt(m, new, i, p) \/ TakesAt(new, i, p, L)
    <3>1. CASE \E k \in 0..INODE_DIRECT_NUM - 1 : p = <<"direct", k>>
      <4>1. PICK k \in 0..INODE_DIRECT_NUM - 1 : p = <<"direct", k>>
        BY <3>1
      <4>2. At(m, i, p) = D[k] /\ At(new, i, p) = D1[k]
        BY <2>7, <4>1, AtDirect DEF D
      <4>3. CASE D[k] = D1[k] /\ cont[D1[k]] = m.sector[D1[k]]
        BY <2>7, <4>2, <4>3 DEF KeepsAt
      <4>4. CASE D1[k] \in ToSet(q1)
        BY <2>8, <4>2, <4>4 DEF TakesAt
      <4> QED BY <2>9, <2>10, <4>2, <4>3, <4>4
    <3>2. CASE \E k \in 0..INDEX_NUM - 1 : p = <<"slot", k>>
      <4>1. PICK k \in 0..INDEX_NUM - 1 : p = <<"slot", k>>
        BY <3>2
      <4>2. At(m, i, p) = S[k] /\ At(new, i, p) = S[k]
        BY <2>3, <4>1, AtSlot DEF S
      <4>3. cont[S[k]] = m.sector[S[k]]
        BY <1>3, <2>5, <2>10, <4>2
      <4> QED BY <2>7, <4>2, <4>3 DEF KeepsAt
    <3>3. CASE p = <<"indirect", 0>>
      <4>1. At(m, i, p) = old /\ At(new, i, p) = old
        BY <2>7, <3>3, AtIndirect DEF old
      <4>2. cont[old] = m.sector[old]
        BY <1>3, <2>5, <2>10, <4>1
      <4> QED BY <2>7, <4>1, <4>2 DEF KeepsAt
    <3> QED BY <3>1, <3>2, <3>3, PlacesByKind
  <2> QED BY <2>10 DEF Stays
<1>7. ASSUME NEW bits, NEW q1, NEW q2, NEW x, TakesSlots(m, new, i, bits, q1, q2, x) PROVE Stays(m, new, i, L)
  <2> DEFINE D1    == FillHoles(D, q1)
             S1    == FillHoles(S, q2)
             bits2 == [bits EXCEPT ![x] = TRUE]
             both  == Marked(Marked(m.sector, ToSet(q1), Data), ToSet(q2), Data)
             cont  == [both EXCEPT ![x] = Index(S1)]
  <2>1. /\ Taken(m, bits, q1) /\ Taken(m, bits, q2) /\ bits \in [Blocks -> BOOLEAN]
        /\ \A b \in Blocks : m.data_bitmap[b] => bits[b]
        /\ x \in Blocks /\ (x # old => old = None /\ ~bits[x])
        /\ new = Assigned(m, bits2, i, D1, x, cont)
    BY <1>7 DEF TakesSlots
  <2>2. /\ q1 \in Seq(Blocks) /\ Different(q1) /\ \A b \in ToSet(q1) : b \in Blocks /\ ~m.data_bitmap[b] /\ bits[b]
        /\ q2 \in Seq(Blocks) /\ Different(q2) /\ \A b \in ToSet(q2) : b \in Blocks /\ ~m.data_bitmap[b] /\ bits[b]
    BY <2>1, TakenBlocks
  <2>4. Filled(INODE_DIRECT_NUM, D, D1, q1) /\ Filled(INDEX_NUM, S, S1, q2)
    <3> HIDE DEF D, S
    <3>1. QED BY <1>1, <2>2, FillHolesProperties
  <2>6. D1 \in [0..INODE_DIRECT_NUM - 1 -> Slot] /\ S1 \in [0..INDEX_NUM - 1 -> Slot]
    BY <2>4 DEF Filled
  <2>5. /\ cont \in [Blocks -> Sector] /\ cont[x] = Index(S1)
        /\ \A b \in Blocks : m.data_bitmap[b] /\ b # x => cont[b] = m.sector[b]
        /\ \A b \in ToSet(q1) \cup ToSet(q2) : b # x => cont[b] = Data
    <3>1. Data \in Sector /\ Index(S1) \in Sector
      BY <2>6 DEF Sector
    <3>2. /\ both \in [Blocks -> Sector] /\ \A b \in Blocks : m.data_bitmap[b] => both[b] = m.sector[b]
          /\ \A b \in ToSet(q1) \cup ToSet(q2) : both[b] = Data
      BY <1>1, <2>2, <3>1 DEF Marked
    <3> HIDE DEF both, S1
    <3>3. QED BY <2>1, <2>2, <3>1, <3>2
  <2>7. /\ new.inode[i].direct = D1 /\ new.inode[i].indirect = x /\ new.sector = cont
        /\ new.data_bitmap = bits2
    <3>1. bits2 \in [Blocks -> BOOLEAN] /\ x \in Slot
      BY <2>1 DEF Slot
    <3> HIDE DEF D1, cont, bits2
    <3> DEFINE a == Assigned(m, bits2, i, D1, x, cont)
    <3>2. a.inode[i].direct = D1 /\ a.inode[i].indirect = x /\ a.sector = cont /\ a.data_bitmap = bits2
      BY <1>1, <2>5, <2>6, <3>1, AssignedMembers, AssignedTyped
    <3>3. new = a
      BY <2>1
    <3> HIDE DEF a
    <3>4. QED BY <3>2, <3>3
  <2>3. Slots(new, i) = S1
    <3> HIDE DEF S1, cont
    <3>1. x # None
      BY <1>1, <2>1
    <3>2. QED BY <2>5, <2>7, <3>1, SlotsOfIndex
  <2>8. \A b \in Blocks : bits[b] => bits2[b] /\ bits2[x]
    BY <2>1
  <2> HIDE DEF cont, D1, S1, D, S, old, bits2
  <2>9. \A b \in ToSet(q1) \cup ToSet(q2) : b # x /\ b \in L /\ InMemory(new, b)
    <3>0. (x = old /\ m.data_bitmap[x]) \/ ~bits[x]
      BY <1>1, <1>3, <2>1 DEF old
    <3>1. \A b \in ToSet(q1) \cup ToSet(q2) : b # x
      BY <2>2, <3>0
    <3>2. \A b \in ToSet(q1) \cup ToSet(q2) : b \in L
      BY <1>1, <2>2, <2>7, <2>8 DEF Switched
    <3>3. QED BY <2>5, <2>7, <3>1, <3>2, Kinds DEF InMemory
  <2>10. \A b \in Blocks : m.data_bitmap[b] /\ b # old => b # x
    BY <2>1
  <2>11. ASSUME NEW k \in 0..INODE_DIRECT_NUM - 1, D1[k] # None
         PROVE  (D[k] = D1[k] /\ cont[D1[k]] = m.sector[D1[k]]) \/ D1[k] \in ToSet(q1)
    <3>1. CASE D[k] # None
      <4>1. D1[k] = D[k]
        BY <2>4, <3>1 DEF Filled
      <4>2. D[k] # x
        BY <1>3, <1>4, <2>10, <3>1, <2>1
      <4>3. QED BY <1>3, <2>5, <3>1, <4>1, <4>2
    <3>2. CASE D[k] = None
      <4>1. PICK a \in 1..Len(q1) : D1[k] = q1[a]
        BY <2>4, <2>11, <3>2 DEF Filled
      <4>2. QED BY <2>2, <4>1 DEF ToSet
    <3> QED BY <3>1, <3>2
  <2>12. ASSUME NEW k \in 0..INDEX_NUM - 1, S1[k] # None
         PROVE  (S[k] = S1[k] /\ cont[S1[k]] = m.sector[S1[k]]) \/ S1[k] \in ToSet(q2)
    <3>1. CASE S[k] # None
      <4>1. S1[k] = S[k]
        BY <2>4, <3>1 DEF Filled
      <4>2. S[k] # x
        BY <1>3, <1>4, <2>10, <3>1, <2>1
      <4>3. QED BY <1>3, <2>5, <3>1, <4>1, <4>2
    <3>2. CASE S[k] = None
      <4>1. PICK a \in 1..Len(q2) : S1[k] = q2[a]
        BY <2>4, <2>12, <3>2 DEF Filled
      <4>2. QED BY <2>2, <4>1 DEF ToSet
    <3> QED BY <3>1, <3>2
  <2>13. ASSUME NEW p \in Places, At(new, i, p) # None
         PROVE  KeepsAt(m, new, i, p) \/ TakesAt(new, i, p, L)
    <3>1. CASE \E k \in 0..INODE_DIRECT_NUM - 1 : p = <<"direct", k>>
      <4>1. PICK k \in 0..INODE_DIRECT_NUM - 1 : p = <<"direct", k>>
        BY <3>1
      <4>2. At(m, i, p) = D[k] /\ At(new, i, p) = D1[k]
        BY <2>7, <4>1, AtDirect DEF D
      <4>3. CASE D[k] = D1[k] /\ cont[D1[k]] = m.sector[D1[k]]
        BY <2>7, <4>2, <4>3 DEF KeepsAt
      <4>4. CASE D1[k] \in ToSet(q1)
        BY <2>9, <4>2, <4>4 DEF TakesAt
      <4> QED BY <2>11, <2>13, <4>2, <4>3, <4>4
    <3>2. CASE \E k \in 0..INDEX_NUM - 1 : p = <<"slot", k>>
      <4>1. PICK k \in 0..INDEX_NUM - 1 : p = <<"slot", k>>
        BY <3>2
      <4>2. At(m, i, p) = S[k] /\ At(new, i, p) = S1[k]
        BY <2>3, <4>1, AtSlot DEF S
      <4>3. CASE S[k] = S1[k] /\ cont[S1[k]] = m.sector[S1[k]]
        BY <2>7, <4>2, <4>3 DEF KeepsAt
      <4>4. CASE S1[k] \in ToSet(q2)
        BY <2>9, <4>2, <4>4 DEF TakesAt
      <4> QED BY <2>12, <2>13, <4>2, <4>3, <4>4
    <3>3. CASE p = <<"indirect", 0>>
      <4>1. At(m, i, p) = old /\ At(new, i, p) = x
        BY <2>7, <3>3, AtIndirect DEF old
      <4>2. CASE x = old
        <5>1. m.sector[old].kind = "index" /\ old # None
          BY <1>1, <2>1, <4>2 DEF DenseFile, old
        <5>2. PICK s \in [0..INDEX_NUM - 1 -> Slot] : m.sector[old] = Index(s)
          BY <1>1, <2>1, <4>2, <5>1, SectorKinds
        <5>3. S = s
          BY <5>1, <5>2, SlotsOfIndex DEF S, old
        <5>4. \A k \in 0..INDEX_NUM - 1 : S[k] # None => S1[k] = S[k]
          BY <2>4 DEF Filled
        <5>5. Grown(m.sector[x], cont[x])
          BY <2>5, <2>6, <4>2, <5>2, <5>3, <5>4 DEF Grown
        <5> QED BY <2>7, <3>3, <4>1, <4>2, <5>5 DEF KeepsAt
      <4>3. CASE x # old
        <5>0. ~bits[x] /\ x \in Blocks /\ bits2[x]
          BY <2>1, <2>8, <4>3 DEF old, bits2
        <5>1. x \in L
          BY <2>1, <2>7, <5>0 DEF Switched
        <5>2. InMemory(new, x)
          BY <2>5, <2>7, Kinds DEF InMemory
        <5> QED BY <4>1, <5>1, <5>2 DEF TakesAt
      <4> QED BY <4>2, <4>3
    <3> QED BY <3>1, <3>2, <3>3, PlacesByKind
  <2> QED BY <2>13 DEF Stays
<1> QED BY <1>5, <1>6, <1>7 DEF Grows

----------------------------------------------------------------------------
(* The image as the commands would see it, with what is still on the disk *)

\* Every sector of a file is one.
OnDisk(z) == \A b \in Blocks : z[b] \in Sector

\* The image of memory m, with the sectors of z where nothing has been read.
Complete(m, z) ==
    [inode_bitmap |-> m.inode_bitmap, data_bitmap |-> m.data_bitmap, inode |-> m.inode,
     sector |-> [b \in Blocks |-> IF m.sector[b] = Unread THEN z[b] ELSE m.sector[b]]]

\* The index block of i, if there is one, is in memory.
IndexHeld(m, i) == m.inode[i].indirect # None => InMemory(m, m.inode[i].indirect)

(* Its members. *)
LEMMA CompleteMembers ==
    ASSUME NEW m \in Image, NEW z, OnDisk(z)
    PROVE  /\ Complete(m, z) \in Image
           /\ Complete(m, z).inode_bitmap = m.inode_bitmap /\ Complete(m, z).data_bitmap = m.data_bitmap
           /\ Complete(m, z).inode = m.inode
           /\ \A b \in Blocks : /\ InMemory(m, b) => Complete(m, z).sector[b] = m.sector[b]
                                /\ ~InMemory(m, b) => Complete(m, z).sector[b] = z[b]
           /\ Live(Complete(m, z)) = Live(m) /\ Dirs(Complete(m, z)) = Dirs(m)
<1> DEFINE f == [b \in Blocks |-> IF m.sector[b] = Unread THEN z[b] ELSE m.sector[b]]
<1>1. f \in [Blocks -> Sector]
  BY ImageTyped, ConstantsTyped DEF OnDisk
<1>2. /\ Complete(m, z).inode_bitmap = m.inode_bitmap /\ Complete(m, z).data_bitmap = m.data_bitmap
      /\ Complete(m, z).inode = m.inode /\ Complete(m, z).sector = f
  BY DEF Complete
<1>3. Complete(m, z) \in Image
  <2>1. /\ m.inode_bitmap \in [Inodes -> BOOLEAN] /\ m.data_bitmap \in [Blocks -> BOOLEAN]
        /\ m.inode \in [Inodes -> Inode]
    BY DEF Image
  <2> HIDE DEF f
  <2>2. [inode_bitmap |-> m.inode_bitmap, data_bitmap |-> m.data_bitmap, inode |-> m.inode, sector |-> f] \in Image
    BY <1>1, <2>1 DEF Image
  <2> QED BY <2>2 DEF Complete, f
<1>4. \A b \in Blocks : /\ InMemory(m, b) => f[b] = m.sector[b]
                        /\ ~InMemory(m, b) => f[b] = z[b]
  BY DEF InMemory
<1>5. Live(Complete(m, z)) = Live(m) /\ Dirs(Complete(m, z)) = Dirs(m)
  <2> HIDE DEF f
  <2> QED BY <1>2 DEF Live, Dirs
<1> HIDE DEF f
<1> QED BY <1>2, <1>3, <1>4, <1>5

(* The blocks of i are the same in both, where the index block is in memory; else its slots are *)
(* read as empty.                                                                                *)
LEMMA CompletePlaces ==
    ASSUME NEW m \in Image, NEW z, OnDisk(z), NEW i \in Inodes
    PROVE  /\ IndexHeld(m, i) => \A p \in Places : At(Complete(m, z), i, p) = At(m, i, p)
           /\ IndexHeld(m, i) => Slots(Complete(m, z), i) = Slots(m, i)
           /\ \A p \in Places : At(m, i, p) \in {At(Complete(m, z), i, p), None}
           /\ \A p \in Places : p[1] # "slot" => At(m, i, p) = At(Complete(m, z), i, p)
<1> DEFINE w == Complete(m, z)
           x == m.inode[i].indirect
<1>1. w.inode = m.inode /\ \A b \in Blocks : InMemory(m, b) => w.sector[b] = m.sector[b]
  BY CompleteMembers
<1>2. x \in Slot /\ None \notin Blocks /\ Slots(m, i) \in [0..INDEX_NUM - 1 -> Slot]
  BY ImageTyped, ConstantsTyped
<1>3. w.inode[i].indirect = x /\ w.inode[i].direct = m.inode[i].direct
  BY <1>1
<1> HIDE DEF w
<1>4. ASSUME IndexHeld(m, i) PROVE Slots(w, i) = Slots(m, i)
  <2>1. CASE x = None
    BY <1>3, <2>1 DEF Slots
  <2>2. CASE x # None
    <3>1. w.sector[x] = m.sector[x]
      BY <1>1, <1>2, <1>4, <2>2 DEF IndexHeld, Slot
    <3> HIDE DEF x
    <3> QED BY <1>3, <2>2, <3>1 DEF Slots, x
  <2> QED BY <2>1, <2>2
<1>5. ASSUME ~IndexHeld(m, i) PROVE Slots(m, i) = NoSlots
  <2>1. m.sector[x].kind = "unread"
    BY <1>5, Kinds DEF IndexHeld, InMemory
  <2> QED BY <2>1 DEF Slots
<1>6. Slots(m, i) \in {Slots(w, i), NoSlots}
  BY <1>4, <1>5
<1>7. ASSUME NEW p \in Places
      PROVE  /\ p[1] # "slot" => At(m, i, p) = At(w, i, p)
             /\ At(m, i, p) \in {At(w, i, p), None}
             /\ IndexHeld(m, i) => At(w, i, p) = At(m, i, p)
  <2>1. CASE \E k \in 0..INODE_DIRECT_NUM - 1 : p = <<"direct", k>>
    <3>1. PICK k \in 0..INODE_DIRECT_NUM - 1 : p = <<"direct", k>>
      BY <2>1
    <3>2. At(m, i, p) = m.inode[i].direct[k]
      BY <3>1, AtDirect
    <3>3. At(w, i, p) = w.inode[i].direct[k]
      BY <3>1, AtDirect
    <3> QED BY <1>3, <3>2, <3>3
  <2>2. CASE \E k \in 0..INDEX_NUM - 1 : p = <<"slot", k>>
    <3>1. PICK k \in 0..INDEX_NUM - 1 : p = <<"slot", k>>
      BY <2>2
    <3>2. At(m, i, p) = Slots(m, i)[k] /\ At(w, i, p) = Slots(w, i)[k]
      BY <3>1, AtSlot
    <3>3. Slots(m, i)[k] \in {Slots(w, i)[k], None}
      BY <1>6 DEF NoSlots
    <3> QED BY <1>4, <3>1, <3>2, <3>3
  <2>3. CASE p = <<"indirect", 0>>
    BY <1>3, <2>3, AtIndirect
  <2> QED BY <2>1, <2>2, <2>3, PlacesByKind
<1> QED BY <1>4, <1>7 DEF w

(* A directory that is in memory lists the same in both. *)
LEMMA CompleteChildren ==
    ASSUME NEW m \in Image, NEW z, OnDisk(z), NEW d \in Inodes, m.inode[d].direct[0] \in Blocks,
           InMemory(m, m.inode[d].direct[0])
    PROVE  Children(Complete(m, z), d) = Children(m, d)
<1> DEFINE w == Complete(m, z)
           b == m.inode[d].direct[0]
<1>1. w.inode = m.inode /\ w.sector[b] = m.sector[b]
  BY CompleteMembers
<1>2. w.inode[d].direct[0] = b
  BY <1>1
<1> HIDE DEF w, b
<1> QED BY <1>1, <1>2 DEF Children, w, b

(* A dense file holds its index block. *)
LEMMA DenseHolds ==
    ASSUME NEW m, NEW i, DenseFile(m, i)
    PROVE  IndexHeld(m, i)
  BY Kinds DEF DenseFile, IndexHeld, InMemory

(* What is resized in memory is resized in the whole image. *)
LEMMA CompleteResized ==
    ASSUME NEW m \in Image, NEW z, OnDisk(z), NEW i \in Inodes, IndexHeld(m, i), NEW new, Resized(m, new, i)
    PROVE  Resized(Complete(m, z), Complete(new, z), i)
<1> DEFINE w  == Complete(m, z)
           w2 == Complete(new, z)
<1>1. new \in Image /\ DenseFile(new, i) /\ HoldsOnce(new, i)
  BY DEF Resized
<1>2. /\ w2 \in Image /\ w.inode_bitmap = m.inode_bitmap /\ w2.inode_bitmap = new.inode_bitmap
      /\ w.inode = m.inode /\ w2.inode = new.inode
      /\ w.data_bitmap = m.data_bitmap /\ w2.data_bitmap = new.data_bitmap
  BY <1>1, CompleteMembers
<1>3. /\ \A p \in Places : At(w, i, p) = At(m, i, p)
      /\ \A p \in Places : At(w2, i, p) = At(new, i, p)
      /\ Slots(w2, i) = Slots(new, i)
  BY <1>1, CompletePlaces, DenseHolds
<1>4. \A b \in Blocks : new.sector[b] = m.sector[b] => w2.sector[b] = w.sector[b]
  BY <1>1, CompleteMembers DEF InMemory
<1>5. new.inode[i].indirect # None => w2.sector[new.inode[i].indirect] = new.sector[new.inode[i].indirect]
  <2>1. new.inode[i].indirect \in Slot
    BY <1>1, ImageTyped
  <2>2. IndexHeld(new, i)
    BY <1>1, DenseHolds
  <2> QED BY <1>1, <2>1, <2>2, CompleteMembers DEF IndexHeld, Slot
<1> HIDE DEF w, w2
<1>6. HoldsOnce(w2, i) /\ DenseFile(w2, i)
  <2>1. HoldsOnce(w2, i)
    BY <1>1, <1>2, <1>3 DEF HoldsOnce
  <2>2. DenseFile(w2, i)
    BY <1>1, <1>2, <1>3, <1>5 DEF DenseFile
  <2> QED BY <2>1, <2>2
<1>7. \A p \in Places : At(w2, i, p) # None
         => ~w.data_bitmap[At(w2, i, p)] \/ \E r \in Places : At(w, i, r) = At(w2, i, p)
  BY <1>2, <1>3 DEF Resized
<1>8. \A b \in Blocks : w.data_bitmap[b] /\ (\A r \in Places : At(w, i, r) # b)
         => w2.data_bitmap[b] /\ w2.sector[b] = w.sector[b]
  BY <1>2, <1>3, <1>4 DEF Resized
<1>9. w2.inode_bitmap = w.inode_bitmap /\ (\A j \in Inodes \ {i} : w2.inode[j] = w.inode[j]) /\ w2.inode[i].type = w.inode[i].type
  BY <1>2 DEF Resized
<1>10. Resized(w, w2, i)
  BY <1>2, <1>6, <1>7, <1>8, <1>9 DEF Resized
<1> QED BY <1>10 DEF w, w2

(* Two resizes are one. *)
LEMMA ResizedTwice ==
    ASSUME NEW m, NEW a, NEW b, NEW i \in Inodes, Resized(m, a, i), Resized(a, b, i)
    PROVE  Resized(m, b, i)
<1>1. /\ b \in Image /\ b.inode_bitmap = m.inode_bitmap /\ (\A j \in Inodes \ {i} : b.inode[j] = m.inode[j])
      /\ b.inode[i].type = m.inode[i].type /\ HoldsOnce(b, i) /\ DenseFile(b, i)
  BY DEF Resized
<1>2. ASSUME NEW p \in Places, At(b, i, p) # None
      PROVE  ~m.data_bitmap[At(b, i, p)] \/ \E r \in Places : At(m, i, r) = At(b, i, p)
  <2>1. At(b, i, p) \in Blocks
    BY <1>1, <1>2, AtTyped DEF Slot
  <2>2. CASE ~a.data_bitmap[At(b, i, p)]
    BY <2>1, <2>2 DEF Resized
  <2>3. CASE \E r \in Places : At(a, i, r) = At(b, i, p)
    BY <1>2, <2>3 DEF Resized
  <2> QED BY <1>2, <2>2, <2>3 DEF Resized
<1>3. ASSUME NEW c \in Blocks, m.data_bitmap[c], \A r \in Places : At(m, i, r) # c
      PROVE  b.data_bitmap[c] /\ b.sector[c] = m.sector[c]
  <2>1. a.data_bitmap[c] /\ a.sector[c] = m.sector[c]
    BY <1>3 DEF Resized
  <2>2. \A r \in Places : At(a, i, r) # c
    BY <1>3, NoneIsNoBlock DEF Resized
  <2> QED BY <2>1, <2>2 DEF Resized
<1> QED BY <1>1, <1>2, <1>3 DEF Resized

(* An index block that grows has always been one. *)
LEMMA GrownKinds ==
    ASSUME NEW old, NEW new, Grown(old, new)
    PROVE  old # Unread /\ new # Unread /\ old.kind = "index" /\ new.kind = "index"
  BY Kinds DEF Grown

(* It grows from one to the next. *)
LEMMA GrownOn ==
    ASSUME NEW a, NEW b, NEW c, Grown(a, b), Grown(b, c)
    PROVE  Grown(a, c)
<1>1. PICK s \in [0..INDEX_NUM - 1 -> Slot], t \in [0..INDEX_NUM - 1 -> Slot] :
         a = Index(s) /\ b = Index(t) /\ \A k \in 0..INDEX_NUM - 1 : s[k] # None => t[k] = s[k]
  BY DEF Grown
<1>2. PICK t2 \in [0..INDEX_NUM - 1 -> Slot], u \in [0..INDEX_NUM - 1 -> Slot] :
         b = Index(t2) /\ c = Index(u) /\ \A k \in 0..INDEX_NUM - 1 : t2[k] # None => u[k] = t2[k]
  BY DEF Grown
<1>3. t2 = t
  BY <1>1, <1>2, Kinds
<1>4. \A k \in 0..INDEX_NUM - 1 : s[k] # None => u[k] = s[k]
  BY <1>1, <1>2, <1>3
<1>5. a = Index(s) /\ c = Index(u)
  BY <1>1, <1>2
<1> QED BY <1>4, <1>5 DEF Grown

(* Of two lists the larger one will do. *)
LEMMA StaysMore ==
    ASSUME NEW m, NEW new, NEW i, NEW L, NEW M, L \subseteq M, Stays(m, new, i, L)
    PROVE  Stays(m, new, i, M)
  BY DEF Stays, TakesAt

(* Nothing is done. *)
LEMMA StaysSame ==
    ASSUME NEW m, NEW i, NEW L
    PROVE  Stays(m, m, i, L)
  BY DEF Stays, KeepsAt

(* One after the other. *)
LEMMA StaysOn ==
    ASSUME NEW m, NEW a, NEW b, NEW i, NEW L, NEW M, Stays(m, a, i, L), Stays(a, b, i, M)
    PROVE  Stays(m, b, i, L \cup M)
<1> SUFFICES ASSUME NEW p \in Places, At(b, i, p) # None
             PROVE  KeepsAt(m, b, i, p) \/ TakesAt(b, i, p, L \cup M)
  BY DEF Stays
<1> DEFINE x == At(b, i, p)
<1>1. CASE TakesAt(b, i, p, M)
  BY <1>1 DEF TakesAt
<1>2. CASE KeepsAt(a, b, i, p)
  <2>1. At(a, i, p) = x /\ (b.sector[x] = a.sector[x] \/ (p = <<"indirect", 0>> /\ Grown(a.sector[x], b.sector[x])))
    BY <1>2 DEF KeepsAt
  <2>2. CASE TakesAt(a, i, p, L)
    <3>1. x \in L /\ a.sector[x] # Unread
      BY <2>1, <2>2 DEF TakesAt, InMemory
    <3>2. b.sector[x] # Unread
      BY <2>1, <3>1, GrownKinds
    <3> QED BY <3>1, <3>2 DEF TakesAt, InMemory
  <2>3. CASE KeepsAt(m, a, i, p)
    <3>1. At(m, i, p) = x /\ (a.sector[x] = m.sector[x] \/ (p = <<"indirect", 0>> /\ Grown(m.sector[x], a.sector[x])))
      BY <2>1, <2>3 DEF KeepsAt
    <3>2. b.sector[x] = m.sector[x] \/ (p = <<"indirect", 0>> /\ Grown(m.sector[x], b.sector[x]))
      BY <2>1, <3>1, GrownOn
    <3> QED BY <3>1, <3>2 DEF KeepsAt
  <2> QED BY <2>1, <2>2, <2>3 DEF Stays
<1> QED BY <1>1, <1>2 DEF Stays

(* A growing file marks blocks, and clears none. *)
LEMMA GrowMarks ==
    ASSUME NEW m \in Image, NEW i \in Inodes, HoldsOnce(m, i), DenseFile(m, i), NEW new, Grows(m, new, i)
    PROVE  \A b \in Blocks : m.data_bitmap[b] => new.data_bitmap[b]
<1>1. ASSUME NEW bits, NEW q1, TakesDirects(m, new, i, bits, q1) PROVE \A b \in Blocks : m.data_bitmap[b] => new.data_bitmap[b]
  BY <1>1, AssignedMembers DEF TakesDirects
<1>2. ASSUME NEW bits, NEW q1, NEW q2, NEW x, TakesSlots(m, new, i, bits, q1, q2, x)
      PROVE  \A b \in Blocks : m.data_bitmap[b] => new.data_bitmap[b]
  <2> DEFINE bits2 == [bits EXCEPT ![x] = TRUE]
             cont == [Marked(Marked(m.sector, ToSet(q1), Data), ToSet(q2), Data) EXCEPT
                          ![x] = Index(FillHoles(Slots(m, i), q2))]
             D1 == FillHoles(m.inode[i].direct, q1)
  <2>1. /\ bits \in [Blocks -> BOOLEAN] /\ \A b \in Blocks : m.data_bitmap[b] => bits[b]
        /\ new = Assigned(m, bits2, i, D1, x, cont)
    BY <1>2 DEF TakesSlots
  <2>2. \A b \in Blocks : bits[b] => bits2[b]
    BY <2>1
  <2> HIDE DEF bits2, cont, D1
  <2>3. new.data_bitmap = bits2
    BY <2>1, AssignedMembers
  <2> QED BY <2>1, <2>2, <2>3
<1> QED BY <1>1, <1>2 DEF Grows

----------------------------------------------------------------------------
(* Index blocks as they were *)

Files(w) == Live(w) \ Dirs(w)

IsIndex(w, b) == \E i \in Files(w) : w.inode[i].indirect = b

OlderIndex(old, new) == Grown(old, new) /\ Dense(old.slot)

\* w2 is w, but for index blocks as they were before they grew, and sectors of no inode.
Older(w, w2) ==
    /\ w2 \in Image
    /\ w2.inode_bitmap = w.inode_bitmap /\ w2.data_bitmap = w.data_bitmap /\ w2.inode = w.inode
    /\ \A b \in Blocks : Owned(w, b) => \/ w2.sector[b] = w.sector[b]
                                        \/ IsIndex(w, b) /\ OlderIndex(w2.sector[b], w.sector[b])

(* The blocks of an inode in use are sectors with an owner. *)
LEMMA OwnedBlocks ==
    ASSUME NEW w, BlocksSound(w)
    PROVE  /\ \A i \in Live(w), p \in Places : At(w, i, p) # None =>
                  At(w, i, p) \in Blocks /\ Owned(w, At(w, i, p)) /\ w.data_bitmap[At(w, i, p)]
           /\ \A i \in Live(w) : w.inode[i].indirect # None =>
                  w.inode[i].indirect \in Blocks /\ Owned(w, w.inode[i].indirect)
           /\ \A d \in Dirs(w) : /\ w.inode[d].direct[0] \in Blocks /\ Owned(w, w.inode[d].direct[0])
                                 /\ w.inode[d].indirect = None
                                 /\ w.sector[w.inode[d].direct[0]].kind = "dir"
           /\ \A i \in Files(w) : w.inode[i].indirect # None => w.sector[w.inode[i].indirect].kind = "index"
<1>1. \A i \in Live(w), p \in Places : At(w, i, p) # None =>
                  At(w, i, p) \in Blocks /\ Owned(w, At(w, i, p)) /\ w.data_bitmap[At(w, i, p)]
  BY SoundImage DEF Owned
<1>2. \A i \in Live(w) : w.inode[i].indirect # None =>
                  w.inode[i].indirect \in Blocks /\ Owned(w, w.inode[i].indirect)
  <2> SUFFICES ASSUME NEW i \in Live(w), w.inode[i].indirect # None
               PROVE  w.inode[i].indirect \in Blocks /\ Owned(w, w.inode[i].indirect)
    OBVIOUS
  <2>1. <<"indirect", 0>> \in Places /\ At(w, i, <<"indirect", 0>>) = w.inode[i].indirect
    BY AllPlaces
  <2> QED BY <1>1, <2>1
<1>3. \A d \in Dirs(w) : /\ w.inode[d].direct[0] \in Blocks /\ Owned(w, w.inode[d].direct[0])
                         /\ w.inode[d].indirect = None
                         /\ w.sector[w.inode[d].direct[0]].kind = "dir"
  <2> SUFFICES ASSUME NEW d \in Dirs(w)
               PROVE  /\ w.inode[d].direct[0] \in Blocks /\ Owned(w, w.inode[d].direct[0])
                      /\ w.inode[d].indirect = None
                      /\ w.sector[w.inode[d].direct[0]].kind = "dir"
    OBVIOUS
  <2>1. /\ d \in Live(w) /\ w.inode[d].indirect = None /\ w.inode[d].direct[0] \in Blocks
        /\ w.inode[d].direct[0] = At(w, d, <<"direct", 0>>) /\ <<"direct", 0>> \in Places
    BY SoundImage
  <2>2. w.sector[w.inode[d].direct[0]].kind = "dir"
    BY DEF BlocksSound
  <2> QED BY <2>1, <2>2 DEF Owned
<1>4. \A i \in Files(w) : w.inode[i].indirect # None => w.sector[w.inode[i].indirect].kind = "index"
  BY DEF BlocksSound, Files, DenseFile
<1> QED BY <1>1, <1>2, <1>3, <1>4

(* A slot of an older index block is empty or the same. *)
LEMMA OlderPlaces ==
    ASSUME NEW w, BlocksSound(w), NEW w2, Older(w, w2), NEW i \in Live(w)
    PROVE  /\ \A p \in Places : At(w2, i, p) \in {At(w, i, p), None}
           /\ \A p \in Places : p[1] # "slot" => At(w2, i, p) = At(w, i, p)
           /\ DenseFile(w, i) => DenseFile(w2, i)
<1> DEFINE x == w.inode[i].indirect
<1>1. w \in Image /\ i \in Inodes /\ w2.inode[i].direct = w.inode[i].direct /\ w2.inode[i].indirect = x
  BY SoundImage DEF Older, Live
<1>2. CASE x = None
  <2>1. Slots(w2, i) = Slots(w, i)
    BY <1>1, <1>2 DEF Slots
  <2>2. \A p \in Places : At(w2, i, p) = At(w, i, p)
    BY <1>1, <2>1 DEF At
  <2>3. DenseFile(w, i) => DenseFile(w2, i)
    BY <1>1, <1>2, <2>1 DEF DenseFile
  <2> QED BY <2>2, <2>3
<1>3. CASE x # None /\ w2.sector[x] = w.sector[x]
  <2> HIDE DEF x
  <2>1. Slots(w2, i) = Slots(w, i)
    BY <1>1, <1>3 DEF Slots, x
  <2>2. \A p \in Places : At(w2, i, p) = At(w, i, p)
    BY <1>1, <2>1 DEF At, x
  <2>3. DenseFile(w, i) => DenseFile(w2, i)
    BY <1>1, <1>3, <2>1 DEF DenseFile, x
  <2> QED BY <2>2, <2>3
<1>4. CASE x # None /\ OlderIndex(w2.sector[x], w.sector[x])
  <2>1. PICK s \in [0..INDEX_NUM - 1 -> Slot], t \in [0..INDEX_NUM - 1 -> Slot] :
           /\ w2.sector[x] = Index(s) /\ w.sector[x] = Index(t)
           /\ \A k \in 0..INDEX_NUM - 1 : s[k] # None => t[k] = s[k]
    BY <1>4 DEF OlderIndex, Grown
  <2>2. Dense(s) /\ w2.sector[x].kind = "index"
    BY <1>4, <2>1, Kinds DEF OlderIndex
  <2> HIDE DEF x
  <2>3. Slots(w2, i) = s /\ Slots(w, i) = t
    BY <1>1, <1>4, <2>1, SlotsOfIndex DEF x
  <2>4. ASSUME NEW p \in Places
        PROVE  At(w2, i, p) \in {At(w, i, p), None} /\ (p[1] # "slot" => At(w2, i, p) = At(w, i, p))
    <3>1. CASE \E k \in 0..INODE_DIRECT_NUM - 1 : p = <<"direct", k>>
      <4>1. PICK k \in 0..INODE_DIRECT_NUM - 1 : p = <<"direct", k>>
        BY <3>1
      <4>2. At(w2, i, p) = w2.inode[i].direct[k] /\ At(w, i, p) = w.inode[i].direct[k]
        BY <4>1, AtDirect
      <4>3. At(w2, i, p) = At(w, i, p)
        BY <1>1, <4>2
      <4> QED BY <4>3
    <3>2. CASE \E k \in 0..INDEX_NUM - 1 : p = <<"slot", k>>
      <4>1. PICK k \in 0..INDEX_NUM - 1 : p = <<"slot", k>>
        BY <3>2
      <4>2. At(w2, i, p) = s[k] /\ At(w, i, p) = t[k]
        BY <2>3, <4>1, AtSlot
      <4> QED BY <2>1, <4>1, <4>2
    <3>3. CASE p = <<"indirect", 0>>
      BY <1>1, <3>3, AtIndirect DEF x
    <3> QED BY <3>1, <3>2, <3>3, PlacesByKind
  <2>5. DenseFile(w, i) => DenseFile(w2, i)
    BY <1>1, <1>4, <2>2, <2>3 DEF DenseFile, x
  <2> QED BY <2>4, <2>5
<1>5. x # None => x \in Blocks /\ Owned(w, x)
  BY OwnedBlocks
<1>6. x = None \/ (x # None /\ w2.sector[x] = w.sector[x]) \/ (x # None /\ OlderIndex(w2.sector[x], w.sector[x]))
  BY <1>5 DEF Older
<1> QED BY <1>2, <1>3, <1>4, <1>6

(* With older index blocks an image is as sound, and has the same directories. *)
LEMMA OlderSound ==
    ASSUME NEW w, Sound(w), NEW w2, Older(w, w2)
    PROVE  /\ Sound(w2) /\ Live(w2) = Live(w) /\ Dirs(w2) = Dirs(w) /\ Listing(w2) = Listing(w)
           /\ \A b \in Blocks : Owned(w2, b) => Owned(w, b)
<1>1. BlocksSound(w) /\ TreeOn(Live(w), Listing(w)) /\ w \in Image
  BY DEF Sound, BlocksSound
<1>2. /\ w2 \in Image /\ w2.inode_bitmap = w.inode_bitmap /\ w2.data_bitmap = w.data_bitmap /\ w2.inode = w.inode
  BY DEF Older
<1>3. Live(w2) = Live(w) /\ Dirs(w2) = Dirs(w)
  BY <1>2 DEF Live, Dirs
<1>4. \A i \in Live(w), p \in Places : At(w2, i, p) \in {At(w, i, p), None}
  BY <1>1, OlderPlaces
<1>5. \A i \in Live(w) : HoldsOnce(w2, i)
  <2> SUFFICES ASSUME NEW i \in Live(w) PROVE HoldsOnce(w2, i)
    OBVIOUS
  <2>1. HoldsOnce(w, i)
    BY <1>1 DEF BlocksSound
  <2> QED BY <1>2, <1>4, <2>1 DEF HoldsOnce
<1>6. \A i, j \in Live(w) : i # j =>
           \A p, r \in Places : At(w2, i, p) # None => At(w2, i, p) # At(w2, j, r)
  <2> SUFFICES ASSUME NEW i \in Live(w), NEW j \in Live(w), i # j, NEW p \in Places, NEW r \in Places, At(w2, i, p) # None
               PROVE  At(w2, i, p) # At(w2, j, r)
    OBVIOUS
  <2>1. At(w2, i, p) = At(w, i, p) /\ At(w2, j, r) \in {At(w, j, r), None}
    BY <1>4
  <2>2. At(w, i, p) # At(w, j, r)
    BY <1>1, <2>1 DEF BlocksSound
  <2> QED BY <2>1, <2>2
<1>7. \A i \in Live(w) \ Dirs(w) : DenseFile(w2, i)
  BY <1>1, OlderPlaces DEF BlocksSound
<1>8. ASSUME NEW d \in Dirs(w)
      PROVE  /\ w2.inode[d].direct[0] # None
             /\ w2.sector[w2.inode[d].direct[0]] = w.sector[w.inode[d].direct[0]]
             /\ w2.sector[w2.inode[d].direct[0]].kind = "dir"
  <2> DEFINE b == w.inode[d].direct[0]
  <2>1. b \in Blocks /\ Owned(w, b) /\ w.sector[b].kind = "dir"
    BY <1>1, OwnedBlocks
  <2>2. w2.sector[b] = w.sector[b]
    BY <2>1, GrownKinds DEF Older, OlderIndex
  <2> QED BY <1>2, <2>1, <2>2, ConstantsTyped
<1>9. \A i \in Inodes \ (Live(w) \ Dirs(w)) : OnlyFirst(w2, i)
  BY <1>1, <1>2, OnlyFirstStays DEF BlocksSound
<1>10. BlocksSound(w2)
  BY <1>2, <1>3, <1>5, <1>6, <1>7, <1>8, <1>9 DEF BlocksSound
<1>11. \A d \in Dirs(w) : Children(w2, d) = Children(w, d)
  BY <1>2, <1>8 DEF Children
<1>12. Listing(w2) = Listing(w)
  BY <1>3, <1>11 DEF Listing
<1>13. \A b \in Blocks : Owned(w2, b) => Owned(w, b)
  <2> SUFFICES ASSUME NEW b \in Blocks, Owned(w2, b) PROVE Owned(w, b)
    OBVIOUS
  <2>1. PICK j \in Live(w), p \in Places : At(w2, j, p) = b
    BY <1>3 DEF Owned
  <2>2. At(w, j, p) = b
    BY <1>4, <2>1, NoneIsNoBlock
  <2> QED BY <2>2 DEF Owned
<1> QED BY <1>1, <1>3, <1>10, <1>12, <1>13 DEF Sound

----------------------------------------------------------------------------
(* Where memory m and sectors z may differ *)

\* The root directory is where f put it, and below it there are no directories in directories.
Shallow(w) == /\ w.inode[0].direct[0] = RootBlock
              /\ \A d \in Dirs(w) \ {0} : Flat(w, d)

IsFirstOrIndex(w, b) == \E i \in Files(w) : b \in {w.inode[i].direct[0], w.inode[i].indirect}

\* Sector b, with an owner, is in memory if it is in H, and unless it is about to be sent the disk
\* holds it; what differs there is an index block, and newer text is that of a first sector.
BlockTracks(m, z, H, N, E, b) ==
    /\ b \in H => InMemory(m, b)
    /\ \/ b \in E
       \/ /\ z[b] # Unread
          /\ m.sector[b] \in {Unread, z[b]} \/ IsIndex(m, b)
          /\ b \in N => IsFirstOrIndex(m, b)

\* The disk has index block x as it was before it grew.
IndexTracks(m, z, E, x) == x \in E \/ ~InMemory(m, x) \/ OlderIndex(z[x], m.sector[x])

\* In place p inode j has a sector that is in memory and listed, or what it had.
Carries(m, m2, z, U2, j, p) ==
    LET b == At(Complete(m2, z), j, p)
    IN \/ b \in U2 /\ InMemory(m2, b)
       \/ /\ j \in Live(m) /\ At(Complete(m, z), j, p) = b /\ m2.inode[j].type = m.inode[j].type
          /\ \/ m2.sector[b] = m.sector[b]
             \/ p = <<"indirect", 0>> /\ Grown(m.sector[b], m2.sector[b])

(* The place of a first sector, or of an index block, is the only one. *)
LEMMA PlaceOfFirst ==
    ASSUME NEW m \in Image, NEW z, OnDisk(z), BlocksSound(Complete(m, z)), NEW j \in Live(m), NEW p \in Places,
           NEW b \in Blocks, At(Complete(m, z), j, p) = b, NEW i \in Files(m)
    PROVE  /\ b = m.inode[i].direct[0] => i = j /\ p = <<"direct", 0>>
           /\ b = m.inode[i].indirect => i = j /\ p = <<"indirect", 0>>
<1> DEFINE w == Complete(m, z)
<1>1. w.inode = m.inode /\ Live(w) = Live(m) /\ None # b
  BY CompleteMembers, NoneIsNoBlock
<1> HIDE DEF w
<1>2. i \in Live(w) /\ j \in Live(w) /\ At(w, j, p) = b /\ BlocksSound(w)
  BY <1>1 DEF Files, w
<1>3. /\ <<"direct", 0>> \in Places /\ <<"indirect", 0>> \in Places
      /\ At(w, i, <<"direct", 0>>) = m.inode[i].direct[0] /\ At(w, i, <<"indirect", 0>>) = m.inode[i].indirect
  BY <1>1, ConstantsTyped, AllPlaces
<1>4. ASSUME NEW r \in Places, At(w, i, r) = b PROVE i = j /\ p = r
  <2>1. i = j
    BY <1>1, <1>2, <1>4 DEF BlocksSound
  <2>2. HoldsOnce(w, i)
    BY <1>2 DEF BlocksSound
  <2> QED BY <1>1, <1>2, <1>4, <2>1, <2>2 DEF HoldsOnce
<1> QED BY <1>3, <1>4

----------------------------------------------------------------------------
(* The sectors of a file one by one *)

\* q is f[0], f[1], ... up to the first place that is empty.
Leads(q, f, N) == /\ q \in Seq(Slot) /\ Len(q) \in 0..N
                  /\ \A k \in 1..Len(q) : q[k] = f[k - 1] /\ f[k - 1] # None
                  /\ Len(q) < N => f[Len(q)] = None

(* The elements of a sequence. *)
LEMMA SeqElements ==
    ASSUME NEW S, NEW q \in Seq(S)
    PROVE  /\ DOMAIN q = 1..Len(q) /\ Len(q) \in Nat /\ ToSet(q) \subseteq S
           /\ \A b : b \in ToSet(q) <=> \E k \in 1..Len(q) : q[k] = b
<1>1. DOMAIN q = 1..Len(q) /\ Len(q) \in Nat /\ \A k \in 1..Len(q) : q[k] \in S
  OBVIOUS
<1>2. ToSet(q) = {q[k] : k \in 1..Len(q)}
  BY <1>1 DEF ToSet
<1> QED BY <1>1, <1>2

\* The order of transfer: the index block x, and what it leads to, come after the first direct.
InOrder(q, x, t) == <<q[1], x>> \o t \o Tail(q)

(* None is left out. *)
LEMMA InOrderElements ==
    ASSUME NEW S, NEW q \in Seq(S), q # <<>>, NEW x \in S, NEW t \in Seq(S)
    PROVE  /\ InOrder(q, x, t) \in Seq(S)
           /\ ToSet(InOrder(q, x, t)) = ToSet(q) \cup {x} \cup ToSet(t)
<1> DEFINE all == InOrder(q, x, t)
<1>0. all = <<q[1], x>> \o t \o Tail(q)
  BY DEF InOrder
<1> HIDE DEF all
<1>1. Len(q) \in Nat \ {0} /\ DOMAIN q = 1..Len(q)
  OBVIOUS
<1>2. Tail(q) \in Seq(S) /\ Len(Tail(q)) = Len(q) - 1 /\ \A k \in 1..Len(q) - 1 : Tail(q)[k] = q[k + 1]
  OBVIOUS
<1>3. <<q[1], x>> \in Seq(S) /\ Len(<<q[1], x>>) = 2
  BY <1>1
<1>4. <<q[1], x>> \o t \in Seq(S) /\ Len(<<q[1], x>> \o t) = 2 + Len(t)
  BY <1>3
<1>5. all \in Seq(S) /\ Len(all) = 2 + Len(t) + (Len(q) - 1)
  BY <1>0, <1>2, <1>4
<1>6. /\ all[1] = q[1] /\ all[2] = x
      /\ \A k \in 1..Len(t) : all[2 + k] = t[k]
      /\ \A j \in 2..Len(q) : all[1 + Len(t) + j] = q[j]
  <2> DEFINE h == <<q[1], x>> \o t
  <2>1. h[1] = q[1] /\ h[2] = x /\ \A k \in 1..Len(t) : h[2 + k] = t[k]
    BY <1>3
  <2>2. h \in Seq(S) /\ Len(h) = 2 + Len(t) /\ Len(t) \in Nat
    BY <1>4
  <2>3. all = h \o Tail(q)
    BY <1>0
  <2> HIDE DEF h
  <2>4. \A k \in 1..Len(h) : all[k] = h[k]
    BY <1>2, <2>2, <2>3
  <2>5. ASSUME NEW j \in 2..Len(q) PROVE all[1 + Len(t) + j] = q[j]
    <3>1. /\ j - 1 \in 1..Len(q) - 1 /\ (j - 1) + 1 = j /\ Len(h) + (j - 1) = 1 + Len(t) + j
          /\ j - 1 \in 1..Len(Tail(q))
      BY <1>1, <1>2, <2>2
    <3>2. Tail(q)[j - 1] = q[j]
      BY <1>2, <3>1
    <3>3. all[Len(h) + (j - 1)] = Tail(q)[j - 1]
      BY <1>2, <2>2, <2>3, <3>1
    <3> QED BY <3>1, <3>2, <3>3
  <2>6. all[1] = q[1] /\ all[2] = x
    BY <2>1, <2>2, <2>4
  <2>7. \A k \in 1..Len(t) : all[2 + k] = t[k]
    BY <2>1, <2>2, <2>4
  <2> QED BY <2>5, <2>6, <2>7
<1>7. \A b : b \in ToSet(all) <=> \E k \in 1..Len(all) : all[k] = b
  <2>1. \A s \in Seq(S) : \A b : b \in ToSet(s) <=> \E k \in 1..Len(s) : s[k] = b
    BY SeqElements
  <2>2. all \in Seq(S)
    BY <1>5
  <2> QED BY <2>1, <2>2
<1>8. \A b : b \in ToSet(q) <=> \E k \in 1..Len(q) : q[k] = b
  BY SeqElements
<1>9. \A b : b \in ToSet(t) <=> \E k \in 1..Len(t) : t[k] = b
  BY SeqElements
<1>12. Len(all) \in Nat /\ 1 \in 1..Len(all) /\ 2 \in 1..Len(all)
  BY <1>1, <1>5
<1>10. ToSet(q) \cup {x} \cup ToSet(t) \subseteq ToSet(all)
  <2>1. x \in ToSet(all)
    BY <1>6, <1>7, <1>12
  <2>2. ASSUME NEW b \in ToSet(t) PROVE b \in ToSet(all)
    <3>1. PICK k \in 1..Len(t) : t[k] = b
      BY <1>9
    <3>2. 2 + k \in 1..Len(all) /\ all[2 + k] = b
      BY <1>1, <1>5, <1>6, <3>1
    <3> QED BY <1>7, <3>2
  <2>3. ASSUME NEW b \in ToSet(q) PROVE b \in ToSet(all)
    <3>1. PICK k \in 1..Len(q) : q[k] = b
      BY <1>8
    <3>2. CASE k = 1
      BY <1>6, <1>7, <1>12, <3>1, <3>2
    <3>3. CASE k # 1
      <4>1. k \in 2..Len(q)
        BY <3>1, <3>3
      <4>2. 1 + Len(t) + k \in 1..Len(all) /\ all[1 + Len(t) + k] = b
        BY <1>1, <1>5, <1>6, <3>1, <4>1
      <4> QED BY <1>7, <4>2
    <3> QED BY <3>2, <3>3
  <2> QED BY <2>1, <2>2, <2>3
<1>11. ASSUME NEW b \in ToSet(all) PROVE b \in ToSet(q) \cup {x} \cup ToSet(t)
  <2>1. PICK k \in 1..Len(all) : all[k] = b
    BY <1>7
  <2>2. CASE k = 1
    BY <1>1, <1>6, <1>8, <2>1, <2>2
  <2>3. CASE k = 2
    BY <1>6, <2>1, <2>3
  <2>4. CASE k > 2 /\ k <= 2 + Len(t)
    <3>1. k - 2 \in 1..Len(t) /\ all[2 + (k - 2)] = b
      BY <2>1, <2>4
    <3> QED BY <1>6, <1>9, <3>1
  <2>5. CASE k > 2 + Len(t)
    <3>1. PICK j \in 2..Len(q) : k = 1 + Len(t) + j
      <4>1. k - (1 + Len(t)) \in 2..Len(q) /\ k = 1 + Len(t) + (k - (1 + Len(t)))
        BY <1>1, <1>5, <2>1, <2>5
      <4> QED BY <4>1
    <3>2. j \in 1..Len(q) /\ q[j] = b
      BY <1>6, <2>1, <3>1
    <3> QED BY <1>8, <3>2
  <2> QED BY <2>1, <2>2, <2>3, <2>4, <2>5
<1> QED BY <1>5, <1>10, <1>11 DEF all

----------------------------------------------------------------------------
(* The entries a command looks at *)

(* An entry of a directory leads to an inode in use. *)
LEMMA EntryLive ==
    ASSUME NEW w, Sound(w), NEW d \in Dirs(w), NEW k \in 1..Len(Children(w, d))
    PROVE  /\ Children(w, d)[k] \in Entry /\ Children(w, d)[k].loc \in Live(w)
           /\ Children(w, d)[k].name = "." => Children(w, d)[k].loc = d
           /\ Children(w, d)[k].name = ".." => Children(w, d)[k].loc \in Dirs(w)
<1> DEFINE C == Listing(w)
<1>1. d \in DOMAIN C /\ C[d] = Children(w, d) /\ DOMAIN C = Dirs(w)
  BY DEF Listing
<1>2. Children(w, d) \in Seq(Entry)
  BY SoundImage DEF Sound
<1>3. /\ C[d][k].name = "." => C[d][k].loc = d
      /\ C[d][k].name = ".." => \E l \in Nat : Lists(C, C[d][k].loc, l, d)
      /\ C[d][k].name \notin {".", ".."} => C[d][k].loc \in Live(w) \ {0}
  <2> HIDE DEF C
  <2>1. k \in 1..Len(C[d])
    BY <1>1
  <2> QED BY <1>1, <2>1 DEF Sound, TreeOn, EntriesLead, C
<1> HIDE DEF C
<1>4. C[d][k].name = ".." => C[d][k].loc \in Dirs(w)
  BY <1>1, <1>3 DEF Lists
<1>5. Dirs(w) \subseteq Live(w)
  BY DEF Dirs
<1> QED BY <1>1, <1>2, <1>3, <1>4, <1>5

\* The names of a directory in memory are those of the directory, or there are none.
ListsSame(m, w, d) == /\ Children(m, d) \in Seq(Entry)
                      /\ Children(m, d) = Children(w, d) \/ Children(m, d) = <<>>

(* What is in memory of a directory is right. *)
LEMMA MemoryChildren ==
    ASSUME NEW m \in Image, NEW z, OnDisk(z), BlocksSound(Complete(m, z)), NEW d \in Dirs(m)
    PROVE  /\ m.inode[d].direct[0] \in Blocks /\ d \in Inodes
           /\ InMemory(m, m.inode[d].direct[0]) => Children(m, d) = Children(Complete(m, z), d)
           /\ ListsSame(m, Complete(m, z), d)
<1> DEFINE w == Complete(m, z)
           b == m.inode[d].direct[0]
<1>1. /\ w \in Image /\ w.inode = m.inode /\ Dirs(w) = Dirs(m)
  BY CompleteMembers
<1>2. d \in Inodes
  BY DEF Dirs, Live
<1>3. b \in Blocks /\ Children(w, d) \in Seq(Entry)
  <2>1. w.inode[d].direct[0] \in Blocks /\ Children(w, d) \in Seq(Entry)
    <3> HIDE DEF w
    <3> QED BY <1>1, SoundImage DEF w
  <2> QED BY <1>1, <2>1
<1>4. InMemory(m, b) => Children(m, d) = Children(w, d)
  BY <1>2, <1>3, CompleteChildren
<1>5. ~InMemory(m, b) => Children(m, d) = <<>>
  <2> SUFFICES ASSUME ~InMemory(m, b) PROVE Children(m, d) = <<>>
    OBVIOUS
  <2>1. m.sector[m.inode[d].direct[0]] = Unread
    BY DEF InMemory
  <2>2. Unread.kind # "dir"
    BY Kinds
  <2> QED BY <2>1, <2>2 DEF Children
<1>6. <<>> \in Seq(Entry)
  OBVIOUS
<1> QED BY <1>2, <1>3, <1>4, <1>5, <1>6 DEF ListsSame

\* Position k of directory d is one that a search for job j may find.
Matches(m, d, j, k) ==
    /\ k \in 1..Len(Children(m, d)) /\ Children(m, d)[k].name = j.name
    /\ j.op \in {"d", "w", "i", "cat", "rm"} => m.inode[Children(m, d)[k].loc].type = File
    /\ j.op \in {"cd", "rmdir"} => m.inode[Children(m, d)[k].loc].type = Directory
    /\ j.op \in {"d", "w", "i", "cat", "rm", "cd", "rmdir", "r"}

(* Sequences put together. *)
LEMMA Joined ==
    ASSUME NEW S, NEW x \in S, NEW y \in S, NEW q \in Seq(S)
    PROVE  /\ <<>> \in Seq(S) /\ <<x>> \in Seq(S) /\ <<x>> \o <<>> \in Seq(S) /\ <<x>> \o q \in Seq(S)
           /\ <<x>> \o <<y>> \in Seq(S) /\ <<x>> \o <<y>> \o q \in Seq(S)
<1>1. <<>> \in Seq(S) /\ <<x>> \in Seq(S) /\ <<y>> \in Seq(S)
  OBVIOUS
<1>2. <<x>> \o <<>> \in Seq(S) /\ <<x>> \o q \in Seq(S) /\ <<x>> \o <<y>> \in Seq(S)
  BY <1>1, ConcatProperties
<1>3. <<x>> \o <<y>> \o q \in Seq(S)
  <2> DEFINE t == <<x>> \o <<y>>
  <2>1. t \in Seq(S)
    BY <1>2
  <2> HIDE DEF t
  <2>2. t \o q \in Seq(S)
    BY <2>1, ConcatProperties
  <2> QED BY <2>2 DEF t
<1> QED BY <1>1, <1>2, <1>3

(* Sectors that hold the root directory have a number of their own. *)
LEMMA BlockNumbers == 0 \notin Blocks /\ 1 \notin Blocks /\ 2 \notin Blocks /\ 3 \notin Blocks /\ Blocks \subseteq Nat
  BY FileSystemAssumption DEF Blocks, RootBlock

----------------------------------------------------------------------------
(* How many sectors a file has *)

(* What is filled from the left is filled up to its number. *)
LEMMA DenseCount ==
    ASSUME NEW N \in Nat, NEW s \in [0..N - 1 -> Slot], Dense(s)
    PROVE  Cardinality(Used(s)) \in 0..N /\ \A k \in 0..N - 1 : s[k] # None <=> k < Cardinality(Used(s))
<1> DEFINE u == Used(s)
           c == Cardinality(u)
<1>1. IsFiniteSet(u) /\ u \in SUBSET (0..N - 1) /\ c \in 0..N
  BY PlacesFinite
<1>2. \A k \in u : 0..k \subseteq u
  BY DEF Dense
<1> HIDE DEF u
<1>3. \A k \in u : k + 1 <= c
  <2> SUFFICES ASSUME NEW k \in u PROVE k + 1 <= c
    OBVIOUS
  <2>1. k \in Nat /\ 0..k \in SUBSET u
    BY <1>1, <1>2
  <2>2. Cardinality(0..k) = k - 0 + 1
    BY <2>1, FS_Interval
  <2>3. Cardinality(0..k) <= c
    BY <1>1, <2>1, FS_Subset
  <2> QED BY <1>1, <2>1, <2>2, <2>3
<1>4. u \in SUBSET (0..c - 1)
  BY <1>1, <1>3
<1>5. IsFiniteSet(0..c - 1) /\ Cardinality(0..c - 1) = c
  <2>1. c \in Nat
    BY <1>1
  <2> HIDE DEF c
  <2> QED BY <2>1, FS_Interval
<1>6. Cardinality(0..c - 1) = Cardinality(u) => 0..c - 1 = u
  BY <1>4, <1>5, FS_Subset
<1>7. u = 0..c - 1
  BY <1>5, <1>6
<1>8. \A k \in 0..N - 1 : k \in u <=> s[k] # None
  BY DEF u, Used
<1> HIDE DEF c
<1>9. \A k \in 0..N - 1 : k \in u <=> k < c
  BY <1>1, <1>7
<1> QED BY <1>1, <1>8, <1>9 DEF c, u

(* More blocks, put in from the left, add to the number. *)
LEMMA DenseFill ==
    ASSUME NEW N \in Nat, NEW s \in [0..N - 1 -> Slot], Dense(s),
           NEW q \in Seq(Blocks), Cardinality(Used(s)) + Len(q) <= N
    PROVE  Cardinality(Used(FillHoles(s, q))) = Cardinality(Used(s)) + Len(q)
<1> DEFINE c == Cardinality(Used(s))
           Rank(j) == Cardinality({h \in 0..j : s[h] = None})
           t == FillHoles(s, q)
<1>1. c \in 0..N /\ \A k \in 0..N - 1 : s[k] # None <=> k < c
  BY DenseCount
<1>2. Len(q) \in Nat /\ \A a \in 1..Len(q) : q[a] # None
  BY NoneIsNoBlock
<1>3. t = [j \in 0..N - 1 |-> IF s[j] = None /\ Rank(j) <= Len(q) THEN q[Rank(j)] ELSE s[j]]
  BY DEF FillHoles
<1> HIDE DEF c, t
<1>4. ASSUME NEW j \in 0..N - 1, ~(j < c) PROVE Rank(j) = j - c + 1
  <2>1. {h \in 0..j : s[h] = None} = c..j
    BY <1>1, <1>4
  <2>2. c \in Int /\ j \in Int /\ c <= j
    BY <1>1, <1>4
  <2>3. Cardinality(c..j) = j - c + 1
    BY <2>2, FS_Interval
  <2> QED BY <2>1, <2>3
<1>5. ASSUME NEW j \in 0..N - 1 PROVE t[j] # None <=> j < c + Len(q)
  <2>1. CASE j < c
    <3>1. s[j] # None /\ t[j] = s[j]
      BY <1>1, <1>3, <2>1
    <3> QED BY <1>1, <1>2, <2>1, <3>1
  <2>2. CASE ~(j < c)
    <3>1. s[j] = None /\ Rank(j) = j - c + 1
      BY <1>1, <1>4, <2>2
    <3>2. j - c + 1 \in Nat /\ j - c + 1 >= 1
      BY <1>1, <2>2
    <3>3. t[j] = IF Rank(j) <= Len(q) THEN q[Rank(j)] ELSE None
      BY <1>3, <3>1
    <3> HIDE DEF Rank
    <3>4. CASE j < c + Len(q)
      <4>1. j - c + 1 \in 1..Len(q)
        BY <1>1, <1>2, <3>2, <3>4
      <4> QED BY <1>2, <3>1, <3>3, <3>4, <4>1
    <3>5. CASE ~(j < c + Len(q))
      <4>1. ~(j - c + 1 <= Len(q))
        BY <1>1, <1>2, <3>2, <3>5
      <4> QED BY <3>1, <3>3, <3>5, <4>1
    <3> QED BY <3>4, <3>5
  <2> QED BY <2>1, <2>2
<1>6. DOMAIN t = 0..N - 1
  BY <1>3
<1>7. Used(t) = {j \in 0..N - 1 : t[j] # None}
  BY <1>6 DEF Used
<1>8. Used(t) = 0..(c + Len(q)) - 1
  <2>1. c + Len(q) <= N
    BY DEF c
  <2> QED BY <1>1, <1>2, <1>5, <1>7, <2>1
<1>9. Cardinality(0..(c + Len(q)) - 1) = c + Len(q)
  <2>1. c + Len(q) \in Nat
    BY <1>1, <1>2
  <2> HIDE DEF c
  <2> DEFINE n == c + Len(q)
  <2>2. n \in Nat
    BY <2>1
  <2> HIDE DEF n
  <2>3. Cardinality(0..n - 1) = n
    BY <2>2, FS_Interval
  <2> QED BY <2>3 DEF n
<1> QED BY <1>8, <1>9 DEF c, t

(* A file that could grow within its capacity has the size it was given. *)
LEMMA SizeAfter ==
    ASSUME NEW m \in Image, NEW i \in Inodes, HoldsOnce(m, i), DenseFile(m, i), NEW size \in Nat,
           get_file_size(m, i) <= size, size <= Capacity, file_resize(m, i, size).ok
    PROVE  get_file_size(file_resize(m, i, size).mem, i) = size
<1> DEFINE now == get_file_size(m, i)
           n == size - now
           new == file_resize(m, i, size).mem
<1>1. now \in Nat
  BY SizeTyped
<1>2. CASE now = size
  <2>1. file_resize(m, i, size) = [ok |-> TRUE, mem |-> m]
    BY <1>2 DEF file_resize
  <2> QED BY <1>2, <2>1
<1>3. CASE now # size
  <2>1. file_resize(m, i, size) = Expand(m, i, n) /\ n \in Nat \ {0}
    <3>1. now < size
      BY <1>1, <1>3
    <3>2. file_resize(m, i, size) = Expand(m, i, n)
      <4>1. now < size /\ ~(now > size)
        <5> HIDE DEF now
        <5> QED BY <1>1, <3>1
      <4> QED BY <4>1 DEF file_resize
    <3> HIDE DEF now
    <3> QED BY <1>1, <3>1, <3>2
  <2> DEFINE free   == FreeBlocks(m)
             q      == FirstFit(free, n)
             D      == m.inode[i].direct
             S      == Slots(m, i)
             c      == Cardinality(Used(D))
             e      == Cardinality(Used(S))
             holes  == INODE_DIRECT_NUM - Cardinality(Used(m.inode[i].direct))
             direct == SubSeq(q, 1, Min({n, holes}))
             rest   == SubSeq(q, holes + 1, n)
             bits   == Marked(m.data_bitmap, ToSet(q), TRUE)
             taken  == [m EXCEPT !.data_bitmap = Marked(@, ToSet(q), TRUE),
                                 !.inode[i].direct = FillHoles(@, direct),
                                 !.sector = Marked(@, ToSet(direct), Data)]
  <2>2. /\ ~(Cardinality(free) < n)
        /\ Expand(m, i, n) = IF n <= holes THEN [ok |-> TRUE, mem |-> taken] ELSE ExpandIndex(taken, i, rest)
    <3>1. Expand(m, i, n) = IF Cardinality(free) < n THEN [ok |-> FALSE, mem |-> m]
                            ELSE IF n <= holes THEN [ok |-> TRUE, mem |-> taken] ELSE ExpandIndex(taken, i, rest)
      BY DEF Expand
    <3> HIDE DEF free, taken, holes, n, rest
    <3> QED BY <2>1, <3>1
  <2>3. /\ D \in [0..INODE_DIRECT_NUM - 1 -> Slot] /\ S \in [0..INDEX_NUM - 1 -> Slot]
        /\ INODE_DIRECT_NUM \in Nat /\ INDEX_NUM \in Nat /\ Dense(D) /\ Dense(S)
        /\ m.data_bitmap \in [Blocks -> BOOLEAN]
    BY ImageTyped, ConstantsTyped DEF DenseFile
  <2>4. c \in 0..INODE_DIRECT_NUM /\ e \in 0..INDEX_NUM
    <3> HIDE DEF D, S
    <3> QED BY <2>3, DenseCount
  <2>5. now = c + e
    BY SizeTyped
  <2>6. holes = INODE_DIRECT_NUM - c /\ holes \in Nat
    BY <2>3, <2>4
  <2>7. q \in Seq(free) /\ Len(q) = n /\ Different(q) /\ free \subseteq Blocks
    <3> HIDE DEF free, n
    <3>1. free \in SUBSET Int /\ IsFiniteSet(free) /\ Cardinality(free) \in Nat /\ free \in SUBSET Blocks
      BY FreeBlocksFinite DEF free
    <3>2. n <= Cardinality(free) /\ n \in Nat
      BY <2>1, <2>2, <3>1
    <3> QED BY <3>1, <3>2, FirstFitProperties
  <2>8. q \in Seq(Blocks)
    BY <2>7
  <2>9. taken.inode[i].direct = FillHoles(D, direct) /\ taken.inode[i].indirect = m.inode[i].indirect
    <3> HIDE DEF direct, q
    <3>1. m.inode \in [Inodes -> Inode] /\ m.inode[i] \in Inode
      BY ImageTyped
    <3> QED BY <3>1 DEF Inode, Image
  <2> DEFINE k == Min({n, holes})
  <2>10. k = (IF n <= holes THEN n ELSE holes) /\ k \in Nat
    <3> HIDE DEF n, holes
    <3> QED BY <2>1, <2>6, MinMaxOfTwo
  <2>11. direct \in Seq(Blocks) /\ Len(direct) = k /\ Different(direct) /\ \A a \in 1..k : direct[a] = q[a]
    <3> HIDE DEF q, n, holes, k
    <3>1. k <= Len(q) /\ 1 \in Nat \ {0} /\ 1 <= k + 1 /\ k - 1 + 1 = k
      BY <2>1, <2>6, <2>7, <2>10
    <3>2. /\ SubSeq(q, 1, k) \in Seq(Blocks) /\ Len(SubSeq(q, 1, k)) = k - 1 + 1 /\ Different(SubSeq(q, 1, k))
          /\ \A a \in 1..k - 1 + 1 : 1 + a - 1 \in 1..Len(q) /\ SubSeq(q, 1, k)[a] = q[1 + a - 1]
      <4> DEFINE f == 1
      <4>1. f \in Nat \ {0} /\ f <= k + 1
        BY <3>1
      <4> HIDE DEF f
      <4>2. /\ SubSeq(q, f, k) \in Seq(Blocks) /\ Len(SubSeq(q, f, k)) = k - f + 1 /\ Different(SubSeq(q, f, k))
            /\ \A a \in 1..k - f + 1 : f + a - 1 \in 1..Len(q) /\ SubSeq(q, f, k)[a] = q[f + a - 1]
        BY <2>7, <2>8, <2>10, <3>1, <4>1, Stretch
      <4> QED BY <4>2 DEF f
    <3>3. \A a \in 1..k : SubSeq(q, 1, k)[a] = q[a]
      <4> SUFFICES ASSUME NEW a \in 1..k PROVE SubSeq(q, 1, k)[a] = q[a]
        OBVIOUS
      <4>1. 1 + a - 1 = a
        OBVIOUS
      <4> QED BY <3>1, <3>2, <4>1
    <3> QED BY <3>1, <3>2, <3>3 DEF k
  <2>12. Cardinality(Used(FillHoles(D, direct))) = c + k
    <3>1. c + Len(direct) <= INODE_DIRECT_NUM
      <4> HIDE DEF holes, n, k, direct, c
      <4> QED BY <2>1, <2>3, <2>4, <2>6, <2>10, <2>11
    <3> HIDE DEF D, direct, k
    <3>2. Cardinality(Used(FillHoles(D, direct))) = Cardinality(Used(D)) + Len(direct)
      BY <2>3, <2>11, <3>1, DenseFill
    <3> QED BY <2>11, <3>2
  <2>13. \A b \in ToSet(direct) : b \in Blocks /\ ~m.data_bitmap[b]
    <3> SUFFICES ASSUME NEW b \in ToSet(direct) PROVE b \in Blocks /\ ~m.data_bitmap[b]
      OBVIOUS
    <3> HIDE DEF direct, q, k
    <3>1. PICK a \in 1..Len(direct) : direct[a] = b
      BY <2>11, SeqElements
    <3>2. a \in 1..Len(q)
      <4>1. k <= n
        <5> HIDE DEF n, holes
        <5> QED BY <2>1, <2>6, <2>10
      <4> QED BY <2>1, <2>7, <2>10, <2>11, <3>1, <4>1
    <3>3. b \in free
      BY <2>7, <2>11, <3>1, <3>2
    <3> QED BY <3>3 DEF FreeBlocks
  <2>14. Slots(taken, i) = S
    <3>1. CASE m.inode[i].indirect = None
      <4> HIDE DEF taken
      <4> QED BY <2>9, <3>1 DEF Slots
    <3>2. CASE m.inode[i].indirect # None
      <4> DEFINE x == m.inode[i].indirect
      <4>1. x \in Blocks /\ m.data_bitmap[x] /\ m.sector \in [Blocks -> Sector]
        BY <3>2, HeldPlaces, ImageTyped
      <4>2. x \notin ToSet(direct)
        BY <2>13, <4>1
      <4>3. taken.sector = Marked(m.sector, ToSet(direct), Data)
        <5> HIDE DEF direct, q
        <5> QED BY DEF Image
      <4>4. taken.sector[x] = m.sector[x]
        <5> HIDE DEF taken, direct, x
        <5> QED BY <4>1, <4>2, <4>3 DEF Marked
      <4> HIDE DEF taken
      <4> QED BY <2>9, <3>2, <4>4 DEF Slots
    <3> QED BY <3>1, <3>2
  <2>15. CASE n <= holes
    <3>1. new = taken
      <4> HIDE DEF taken, n, holes
      <4>1. Expand(m, i, n) = [ok |-> TRUE, mem |-> taken]
        BY <2>2, <2>15
      <4> QED BY <2>1, <4>1
    <3>2. get_file_size(new, i) = Cardinality(Used(FillHoles(D, direct))) + e
      <4> HIDE DEF taken
      <4> QED BY <2>9, <2>14, <3>1 DEF get_file_size
    <3>3. get_file_size(new, i) = c + n + e
      <4> HIDE DEF taken, n, holes, new, D, S, direct, k
      <4> QED BY <2>10, <2>12, <2>15, <3>2
    <3>4. get_file_size(new, i) = size
      <4> HIDE DEF new, c, e, now
      <4> QED BY <1>1, <2>4, <2>5, <3>3
    <3> HIDE DEF c, e, now, n, k
    <3> QED BY <3>4
  <2>16. CASE ~(n <= holes)
    <3>1. file_resize(m, i, size) = ExpandIndex(taken, i, rest)
      <4> HIDE DEF taken, n, holes, rest
      <4> QED BY <2>1, <2>2, <2>16
    <3> DEFINE x == IF taken.inode[i].indirect = None THEN FirstFit(FreeBlocks(taken), 1)[1] ELSE taken.inode[i].indirect
               full == [taken EXCEPT !.data_bitmap[x] = TRUE, !.inode[i].indirect = x,
                                     !.sector = [Marked(@, ToSet(rest), Data) EXCEPT
                                                    ![x] = Index(FillHoles(Slots(taken, i), rest))]]
    <3>2. new = full /\ ~(taken.inode[i].indirect = None /\ FreeBlocks(taken) = {})
      <4> HIDE DEF taken, rest
      <4>1. ExpandIndex(taken, i, rest) =
               IF taken.inode[i].indirect = None /\ FreeBlocks(taken) = {} THEN [ok |-> FALSE, mem |-> taken]
               ELSE [ok |-> TRUE, mem |-> full]
        BY DEF ExpandIndex
      <4> HIDE DEF full
      <4> QED BY <3>1, <4>1
    <3>3. taken.inode \in [Inodes -> Inode] /\ taken \in Image
      <4>1. /\ Taken(m, bits, direct) /\ bits \in [Blocks -> BOOLEAN]
            /\ \A b \in Blocks : m.data_bitmap[b] => bits[b]
        <5>1. ToSet(q) \subseteq Blocks
          <6> HIDE DEF q
          <6> QED BY <2>8, SeqElements
        <5>2. bits \in [Blocks -> BOOLEAN] /\ \A b \in Blocks : bits[b] <=> b \in ToSet(q) \/ m.data_bitmap[b]
          <6> HIDE DEF q
          <6> QED BY <2>3, <5>1 DEF Marked
        <5> HIDE DEF bits
        <5>3. \A a \in 1..Len(direct) : ~m.data_bitmap[direct[a]] /\ bits[direct[a]]
          <6> SUFFICES ASSUME NEW a \in 1..Len(direct) PROVE ~m.data_bitmap[direct[a]] /\ bits[direct[a]]
            OBVIOUS
          <6> HIDE DEF direct, q, k
          <6>1. direct[a] \in ToSet(direct) /\ direct[a] = q[a]
            BY <2>11, SeqElements
          <6>2. a \in 1..Len(q)
            <7>1. k <= n
              <8> HIDE DEF n, holes
              <8> QED BY <2>1, <2>6, <2>10
            <7> QED BY <2>1, <2>7, <2>10, <2>11, <7>1
          <6>3. q[a] \in ToSet(q)
            BY <2>8, <6>2, SeqElements
          <6> QED BY <2>13, <5>1, <5>2, <6>1, <6>3
        <5> HIDE DEF direct
        <5> QED BY <2>11, <5>2, <5>3 DEF Taken
      <4>2. taken = Assigned(m, bits, i, FillHoles(D, direct), m.inode[i].indirect, Marked(m.sector, ToSet(direct), Data))
        <5>1. taken = AssignedDirects(m, bits, i, FillHoles(D, direct), Marked(m.sector, ToSet(direct), Data))
          BY DEF Image, AssignedDirects
        <5> HIDE DEF bits, D, direct, taken
        <5> QED BY <5>1, AssignedDirect
      <4> HIDE DEF bits, direct, taken, q
      <4>3. taken \in Image
        BY <4>1, <4>2, TakenResizes
      <4> QED BY <4>3, ImageTyped
    <3>4. /\ new.inode[i].direct = FillHoles(D, direct) /\ new.inode[i].indirect = x
      <4> HIDE DEF taken, rest, x
      <4>1. taken.inode[i] \in Inode
        BY <3>3
      <4>2. full.inode = [taken.inode EXCEPT ![i].indirect = x]
        BY <3>3 DEF Image
      <4> HIDE DEF full
      <4>3. new.inode[i].direct = taken.inode[i].direct /\ new.inode[i].indirect = x
        BY <3>2, <3>3, <4>1, <4>2 DEF Inode
      <4> QED BY <2>9, <4>3
    <3>5. x \in Blocks
      <4>1. CASE taken.inode[i].indirect = None
        <5> DEFINE fr == FreeBlocks(taken)
        <5>1. fr \in SUBSET Int /\ IsFiniteSet(fr) /\ fr # {} /\ fr \in SUBSET Blocks
          BY <3>2, <4>1, FreeBlocksFinite
        <5> HIDE DEF fr
        <5>2. FirstFit(fr, 1)[1] \in fr
          BY <5>1, FirstOfFree
        <5> QED BY <4>1, <5>1, <5>2 DEF fr
      <4>2. CASE taken.inode[i].indirect # None
        <5> HIDE DEF taken
        <5> QED BY <3>3, <4>2 DEF Inode, Slot
      <4> QED BY <4>1, <4>2
    <3>6. new.sector[x] = Index(FillHoles(S, rest))
      <4> HIDE DEF taken, rest, x, S
      <4>1. full.sector = [Marked(taken.sector, ToSet(rest), Data) EXCEPT ![x] = Index(FillHoles(Slots(taken, i), rest))]
        BY <3>3 DEF Image
      <4>2. x \in DOMAIN Marked(taken.sector, ToSet(rest), Data)
        BY <3>3, <3>5 DEF Marked, Image
      <4> HIDE DEF full
      <4> QED BY <2>14, <3>2, <4>1, <4>2
    <3>7. Slots(new, i) = FillHoles(S, rest)
      <4> HIDE DEF new, x, S, rest
      <4>1. x # None
        BY <3>5, NoneIsNoBlock
      <4> QED BY <3>4, <3>6, <4>1, SlotsOfIndex
    <3>8. rest \in Seq(Blocks) /\ Len(rest) = n - holes
      <4> HIDE DEF q, n, holes
      <4>1. holes + 1 \in Nat \ {0} /\ holes + 1 <= n + 1 /\ n <= Len(q) /\ n \in Nat /\ n - (holes + 1) + 1 = n - holes
        BY <2>1, <2>6, <2>7, <2>16
      <4>2. SubSeq(q, holes + 1, n) \in Seq(Blocks) /\ Len(SubSeq(q, holes + 1, n)) = n - (holes + 1) + 1
        BY <2>7, <2>8, <4>1, Stretch
      <4> QED BY <4>1, <4>2
    <3>9. e + Len(rest) <= INDEX_NUM
      <4>1. size <= INODE_DIRECT_NUM + INDEX_NUM /\ n = size - now
        BY DEF Capacity
      <4> HIDE DEF e, rest, holes, n, now, c
      <4> QED BY <1>1, <2>1, <2>3, <2>4, <2>5, <2>6, <3>8, <4>1
    <3>10. Cardinality(Used(FillHoles(S, rest))) = e + (n - holes)
      <4> HIDE DEF S, rest
      <4> QED BY <2>3, <3>8, <3>9, DenseFill
    <3>11. get_file_size(new, i) = (c + k) + (e + (n - holes))
      <4> HIDE DEF new, D, S, rest, direct, k
      <4>1. get_file_size(new, i) = Cardinality(Used(FillHoles(D, direct))) + Cardinality(Used(FillHoles(S, rest)))
        BY <3>4, <3>7 DEF get_file_size
      <4> QED BY <2>12, <3>10, <4>1
    <3>12. k = holes
      <4> HIDE DEF k, n, holes
      <4> QED BY <2>10, <2>16
    <3>13. n = size - now
      OBVIOUS
    <3>14. get_file_size(new, i) = size
      <4> HIDE DEF new, c, e, now, k, n, holes
      <4> QED BY <1>1, <2>1, <2>3, <2>4, <2>5, <2>6, <3>11, <3>12, <3>13
    <3> HIDE DEF c, e, now, k, n, holes
    <3> QED BY <3>14
  <2> QED BY <2>15, <2>16
<1> QED BY <1>2, <1>3

----------------------------------------------------------------------------
(* What is in memory of a file *)

(* The sectors of a file are what its places hold. *)
LEMMA BlocksAtPlaces ==
    ASSUME NEW m \in Image, NEW i \in Inodes
    PROVE  /\ BlocksOf(m, i) \subseteq Blocks
           /\ \A b : b \in BlocksOf(m, i) <=> b # None /\ \E p \in Places : At(m, i, p) = b
<1>1. ASSUME NEW b \in BlocksOf(m, i) PROVE b # None /\ b \in Blocks /\ \E p \in Places : At(m, i, p) = b
  <2>1. PICK x \in References(m, i) : x[3] = b
    BY DEF BlocksOf
  <2>2. <<x[1], x[2]>> \in Places /\ At(m, i, <<x[1], x[2]>>) = b /\ b # None
    BY <2>1, ReferencePlaces
  <2> DEFINE p == <<x[1], x[2]>>
  <2>3. p \in Places /\ At(m, i, p) = b /\ b # None
    BY <2>2
  <2> HIDE DEF p
  <2>4. b \in Slot
    BY <2>3, AtTyped
  <2> QED BY <2>3, <2>4 DEF Slot
<1>2. ASSUME NEW p \in Places, At(m, i, p) # None PROVE At(m, i, p) \in BlocksOf(m, i)
  <2> DEFINE b == At(m, i, p)
  <2>1. /\ DOMAIN m.inode[i].direct = 0..INODE_DIRECT_NUM - 1
        /\ DOMAIN Slots(m, i) = 0..INDEX_NUM - 1
    BY ImageTyped
  <2>2. \E x \in References(m, i) : x[3] = b
    <3>1. ASSUME NEW k \in 0..INODE_DIRECT_NUM - 1, p = <<"direct", k>> PROVE \E x \in References(m, i) : x[3] = b
      <4>1. m.inode[i].direct[k] = b
        BY <3>1, AtDirect
      <4>2. k \in Used(m.inode[i].direct)
        BY <1>2, <2>1, <4>1 DEF Used
      <4>3. <<"direct", k, m.inode[i].direct[k]>> \in References(m, i)
        BY <4>2 DEF References
      <4> QED BY <4>1, <4>3
    <3>2. ASSUME NEW k \in 0..INDEX_NUM - 1, p = <<"slot", k>> PROVE \E x \in References(m, i) : x[3] = b
      <4>1. Slots(m, i)[k] = b
        BY <3>2, AtSlot
      <4>2. k \in Used(Slots(m, i))
        BY <1>2, <2>1, <4>1 DEF Used
      <4>3. <<"slot", k, Slots(m, i)[k]>> \in References(m, i)
        BY <4>2 DEF References
      <4> QED BY <4>1, <4>3
    <3>3. ASSUME p = <<"indirect", 0>> PROVE \E x \in References(m, i) : x[3] = b
      <4>1. m.inode[i].indirect = b
        BY <3>3, AtIndirect
      <4>2. <<"indirect", 0, m.inode[i].indirect>> \in References(m, i)
        BY <1>2, <4>1 DEF References
      <4> QED BY <4>1, <4>2
    <3> QED BY <3>1, <3>2, <3>3, PlacesByKind
  <2> HIDE DEF b
  <2> QED BY <2>2 DEF BlocksOf, b
<1> QED BY <1>1, <1>2

\* All sectors of inode i are in memory.
AllHeld(m, i) == \A p \in Places : At(m, i, p) # None => InMemory(m, At(m, i, p))

(* What has been read stays read, whatever becomes of the file. *)
LEMMA FileResizeMemory ==
    ASSUME NEW m \in Image, NEW i \in Inodes, HoldsOnce(m, i), DenseFile(m, i), NEW size \in Nat,
           NEW b \in Blocks, InMemory(m, b)
    PROVE  InMemory(file_resize(m, i, size).mem, b)
<1> DEFINE now == get_file_size(m, i)
           new == file_resize(m, i, size).mem
<1>1. now \in Nat /\ m.sector \in [Blocks -> Sector]
  BY SizeTyped, ImageTyped
<1> HIDE DEF now
<1>2. Data # Unread /\ \A s : Index(s) # Unread
  BY Kinds
<1>3. CASE now < size
  <2>1. new = Expand(m, i, size - now).mem /\ size - now \in Nat
    BY <1>1, <1>3 DEF file_resize, now
  <2>2. Grows(m, new, i)
    BY <2>1, ExpandResizes
  <2> HIDE DEF new
  <2>3. ASSUME NEW bits, NEW q1, TakesDirects(m, new, i, bits, q1) PROVE InMemory(new, b)
    <3>1. new.sector = Marked(m.sector, ToSet(q1), Data)
      BY <2>3, AssignedMembers DEF TakesDirects
    <3> QED BY <1>1, <1>2, <3>1 DEF Marked, InMemory
  <2>4. ASSUME NEW bits, NEW q1, NEW q2, NEW x, TakesSlots(m, new, i, bits, q1, q2, x) PROVE InMemory(new, b)
    <3> DEFINE c == Marked(Marked(m.sector, ToSet(q1), Data), ToSet(q2), Data)
               y == Index(FillHoles(Slots(m, i), q2))
    <3>1. new.sector = [c EXCEPT ![x] = y]
      BY <2>4, AssignedMembers DEF TakesSlots
    <3>2. y # Unread /\ c[b] # Unread /\ b \in DOMAIN c
      BY <1>1, <1>2 DEF Marked, InMemory
    <3> HIDE DEF c, y
    <3> QED BY <3>1, <3>2 DEF InMemory
  <2> QED BY <2>2, <2>3, <2>4 DEF Grows, new
<1>4. CASE size < now
  <2> DEFINE n == now - size
  <2>1. new = Shrink(m, i, n)
    BY <1>1, <1>4 DEF file_resize, now
  <2> HIDE DEF n
  <2>2. Shrink(m, i, n).sector = IF m.inode[i].indirect = None THEN m.sector
                                 ELSE [m.sector EXCEPT ![m.inode[i].indirect] = Index(SlotsLeft(m, i, n))]
    BY DEF Shrink, Image
  <2> DEFINE y == Index(SlotsLeft(m, i, n))
  <2>3. y # Unread
    BY <1>2
  <2> HIDE DEF new, y
  <2> QED BY <1>1, <2>1, <2>2, <2>3 DEF InMemory, new, y
<1>5. CASE size = now
  BY <1>1, <1>5 DEF file_resize, now
<1> QED BY <1>1, <1>3, <1>4, <1>5

(* A file that is in memory stays there. *)
LEMMA HeldStays ==
    ASSUME NEW m, NEW new, NEW i, NEW L, AllHeld(m, i), Stays(m, new, i, L)
    PROVE  AllHeld(new, i)
<1> SUFFICES ASSUME NEW p \in Places, At(new, i, p) # None PROVE InMemory(new, At(new, i, p))
  BY DEF AllHeld
<1>1. CASE TakesAt(new, i, p, L)
  BY <1>1 DEF TakesAt
<1>2. CASE KeepsAt(m, new, i, p)
  <2>1. At(m, i, p) = At(new, i, p) /\ InMemory(m, At(m, i, p))
    BY <1>2 DEF KeepsAt, AllHeld
  <2>2. CASE new.sector[At(new, i, p)] = m.sector[At(new, i, p)]
    BY <2>1, <2>2 DEF InMemory
  <2>3. CASE Grown(m.sector[At(new, i, p)], new.sector[At(new, i, p)])
    BY <2>3, GrownKinds DEF InMemory
  <2> QED BY <1>2, <2>2, <2>3 DEF KeepsAt
<1> QED BY <1>1, <1>2 DEF Stays

(* i gives an empty file one sector first, if there is one. *)
LEMMA GrownByOne ==
    ASSUME NEW m \in Image, NEW i \in Inodes, HoldsOnce(m, i), DenseFile(m, i),
           NEW grown, grown = file_resize(m, i, Max({get_file_size(m, i), 1}))
    PROVE  /\ ~grown.ok => grown.mem = m
           /\ grown.ok => get_file_size(grown.mem, i) = Max({get_file_size(m, i), 1})
           /\ Max({get_file_size(m, i), 1}) \in Nat /\ Max({get_file_size(m, i), 1}) >= get_file_size(m, i)
           /\ Max({get_file_size(m, i), 1}) >= 1
<1> DEFINE now == get_file_size(m, i)
           one == Max({now, 1})
<1>1. now \in Nat /\ now = Cardinality(Used(m.inode[i].direct)) + Cardinality(Used(Slots(m, i)))
      /\ Cardinality(Used(m.inode[i].direct)) \in Nat /\ Cardinality(Used(Slots(m, i))) \in Nat
  BY SizeTyped
<1>2. one = IF now <= 1 THEN 1 ELSE now
  <2> HIDE DEF now
  <2>1. \A a, b \in Int : Max({a, b}) = IF a <= b THEN b ELSE a
    BY MinMaxOfTwo
  <2> QED BY <1>1, <2>1
<1>3. one \in Nat /\ one >= now /\ one >= 1
  <2> HIDE DEF now, one
  <2> QED BY <1>1, <1>2
<1>4. CASE now >= 1
  <2>1. one = now
    <3> HIDE DEF now, one
    <3> QED BY <1>1, <1>2, <1>4
  <2>2. ~(now < one) /\ ~(now > one)
    <3> HIDE DEF now, one
    <3> QED BY <1>1, <2>1
  <2>3. file_resize(m, i, one) = [ok |-> TRUE, mem |-> m]
    BY <2>2 DEF file_resize
  <2>4. grown.ok /\ grown.mem = m
    <3> HIDE DEF one
    <3> QED BY <2>3 DEF one
  <2> QED BY <1>3, <2>1, <2>4
<1>5. CASE ~(now >= 1)
  <2>1. one = 1 /\ now = 0 /\ Cardinality(Used(m.inode[i].direct)) = 0
    <3> HIDE DEF now, one
    <3> QED BY <1>1, <1>2, <1>5
  <2>2. file_resize(m, i, 1) = Expand(m, i, 1)
    <3>1. 1 - now = 1 /\ now < 1 /\ ~(now > 1)
      <4> HIDE DEF now, one
      <4> QED BY <2>1
    <3>2. file_resize(m, i, 1) = Expand(m, i, 1 - now)
      BY <3>1 DEF file_resize
    <3> QED BY <3>1, <3>2
  <2>3. grown = file_resize(m, i, 1)
    BY <2>1
  <2>4. ~grown.ok => grown.mem = m
    <3>1. 1 <= INODE_DIRECT_NUM - Cardinality(Used(m.inode[i].direct))
      BY <2>1, ConstantsTyped
    <3>2. Expand(m, i, 1).ok \/ Expand(m, i, 1).mem = m
      BY <3>1 DEF Expand
    <3> QED BY <2>2, <2>3, <3>2
  <2>5. grown.ok => get_file_size(grown.mem, i) = 1
    <3>1. 1 <= Capacity /\ get_file_size(m, i) <= 1
      BY <2>1, ConstantsTyped DEF Capacity
    <3> QED BY <2>3, <3>1, SizeAfter
  <2> QED BY <1>3, <2>1, <2>4, <2>5
<1> QED BY <1>4, <1>5

(* A file that is resized is one still, and is its own index block's owner. *)
LEMMA ResizedFile ==
    ASSUME NEW m, NEW new, NEW i \in Files(m), Resized(m, new, i)
    PROVE  /\ i \in Files(new) /\ Files(new) = Files(m) /\ IndexHeld(new, i)
           /\ new \in Image /\ i \in Inodes /\ HoldsOnce(new, i) /\ DenseFile(new, i)
<1>1. new.inode_bitmap = m.inode_bitmap /\ \A j \in Inodes : new.inode[j].type = m.inode[j].type
  BY DEF Resized
<1>2. Live(new) = Live(m) /\ Dirs(new) = Dirs(m)
  BY <1>1 DEF Live, Dirs
<1>3. i \in Inodes
  BY DEF Files, Live
<1> QED BY <1>2, <1>3, DenseHolds DEF Files, Resized

\* The sectors of N that are marked.
Left(N, m) == {b \in N : m.data_bitmap[b]}

----------------------------------------------------------------------------
(* What is left and what is written when a file is resized *)

(* Directs are places. *)
LEMMA DirectsIn ==
    ASSUME NEW b \in Image, NEW i \in Inodes, NEW V, \A p \in Places : At(b, i, p) # None => At(b, i, p) \in V
    PROVE  \A k \in 0..INODE_DIRECT_NUM - 1 :
               b.inode[i].direct[k] # None => b.inode[i].direct[k] \in V /\ b.inode[i].direct[k] \in Blocks
<1>1. \A k \in 0..INODE_DIRECT_NUM - 1 : <<"direct", k>> \in Places /\ At(b, i, <<"direct", k>>) = b.inode[i].direct[k]
  BY AtDirect
<1>2. b.inode[i].direct \in [0..INODE_DIRECT_NUM - 1 -> Slot]
  BY ImageTyped
<1> QED BY <1>1, <1>2 DEF Slot

\* Data is written into the sectors of S, which are directs of i.
Written(b, S) == [b EXCEPT !.sector = Marked(@, S, Data)]

InDirects(b, i, S) == \A x \in S : \E k \in 0..INODE_DIRECT_NUM - 1 : x = b.inode[i].direct[k] /\ x \in Blocks

(* A file of no sector has nothing in any place. *)
LEMMA NoBlockAt ==
    ASSUME NEW a, NEW i, NoBlocks(a, i)
    PROVE  \A p \in Places : At(a, i, p) = None
<1>1. \A k \in 0..INODE_DIRECT_NUM - 1 : a.inode[i].direct[k] = None
  BY DEF NoBlocks
<1>2. Slots(a, i) = NoSlots /\ a.inode[i].indirect = None
  BY DEF NoBlocks, Slots
<1>3. \A k \in 0..INDEX_NUM - 1 : NoSlots[k] = None
  BY DEF NoSlots
<1> SUFFICES ASSUME NEW p \in Places PROVE At(a, i, p) = None
  OBVIOUS
<1>4. CASE \E k \in 0..INODE_DIRECT_NUM - 1 : p = <<"direct", k>>
  <2>1. PICK k \in 0..INODE_DIRECT_NUM - 1 : p = <<"direct", k>>
    BY <1>4
  <2>2. At(a, i, p) = a.inode[i].direct[k]
    BY <2>1, AtDirect
  <2> QED BY <1>1, <2>2
<1>5. CASE \E k \in 0..INDEX_NUM - 1 : p = <<"slot", k>>
  <2>1. PICK k \in 0..INDEX_NUM - 1 : p = <<"slot", k>>
    BY <1>5
  <2>2. At(a, i, p) = Slots(a, i)[k]
    BY <2>1, AtSlot
  <2> QED BY <1>2, <1>3, <2>2
<1>6. CASE p = <<"indirect", 0>>
  BY <1>2, <1>6, AtIndirect
<1> QED BY <1>4, <1>5, <1>6, PlacesByKind

(* A file without sectors that grows holds blocks that have just been taken. *)
LEMMA GrownIsSwitched ==
    ASSUME NEW a \in Image, NEW i \in Inodes, NoBlocks(a, i), NEW b, Resized(a, b, i), NEW p \in Places, At(b, i, p) # None
    PROVE  At(b, i, p) \in Switched(a, b)
<1>1. b \in Image /\ b.data_bitmap[At(b, i, p)]
  BY DEF Resized, HoldsOnce
<1>2. At(b, i, p) \in Blocks
  BY <1>1, AtTyped DEF Slot
<1>3. ASSUME NEW r \in Places, At(a, i, r) = At(b, i, p) PROVE FALSE
  <2>1. At(a, i, r) = None
    BY NoBlockAt
  <2> QED BY <1>3, <2>1
<1>4. ~a.data_bitmap[At(b, i, p)]
  BY <1>3 DEF Resized
<1>5. a.data_bitmap \in [Blocks -> BOOLEAN] /\ b.data_bitmap \in [Blocks -> BOOLEAN]
  BY <1>1, ImageTyped
<1> QED BY <1>1, <1>2, <1>4, <1>5 DEF Switched

(* The sectors that w writes are the directs of the file, if these follow one another. *)
LEMMA TextIsOwn ==
    ASSUME NEW a \in Image, NEW i \in Inodes, HoldsOnce(a, i), DenseFile(a, i), NoBlocks(a, i),
           NEW size \in TextSizes, size > 0, NEW b, b = file_resize(a, i, size).mem, file_resize(a, i, size).ok,
           \A j \in Used(b.inode[i].direct) : b.inode[i].direct[j] = b.inode[i].direct[0] + j
    PROVE  InDirects(b, i, b.inode[i].direct[0]..b.inode[i].direct[0] + size - 1)
<1> DEFINE dir == b.inode[i].direct
<1>1. size \in Nat /\ size <= INODE_DIRECT_NUM /\ INODE_DIRECT_NUM \in Nat
  BY FileSystemAssumption DEF TextSizes
<1>2. \A j \in 0..size - 1 : dir[j] # None
  BY <1>1, GrownFromNothing
<1>3. Resized(a, b, i)
  BY <1>1, FileResizes
<1>4. dir \in [0..INODE_DIRECT_NUM - 1 -> Slot]
  BY <1>3, ImageTyped DEF Resized
<1>5. \A j \in Used(dir) : dir[j] = dir[0] + j
  OBVIOUS
<1> SUFFICES ASSUME NEW x \in dir[0]..dir[0] + size - 1
             PROVE \E k \in 0..INODE_DIRECT_NUM - 1 : x = dir[k] /\ x \in Blocks
  BY DEF InDirects
<1> HIDE DEF dir
<1>6. 0 \in 0..size - 1 /\ 0 \in 0..INODE_DIRECT_NUM - 1
  BY <1>1
<1>7. dir[0] \in Blocks /\ dir[0] \in Int
  BY <1>2, <1>4, <1>6 DEF Slot, Blocks, RootBlock
<1>8. x - dir[0] \in 0..size - 1 /\ x - dir[0] \in 0..INODE_DIRECT_NUM - 1 /\ x = dir[0] + (x - dir[0])
  BY <1>1, <1>7
<1>9. dir[x - dir[0]] # None /\ dir[x - dir[0]] \in Blocks
  BY <1>2, <1>4, <1>8 DEF Slot
<1>10. x - dir[0] \in Used(dir)
  BY <1>4, <1>8, <1>9 DEF Used
<1> QED BY <1>5, <1>8, <1>9, <1>10

(* Text written into the directs of a file leaves the rest of the file alone. *)
LEMMA WrittenStays ==
    ASSUME NEW b \in Image, NEW i \in Inodes, HoldsOnce(b, i), DenseFile(b, i),
           NEW S, InDirects(b, i, S), NEW text, text = Written(b, S), NEW L, S \subseteq L
    PROVE  /\ Resized(b, text, i) /\ Stays(b, text, i, L)
           /\ text.data_bitmap = b.data_bitmap /\ text.inode = b.inode
<1>0. \A x \in S : \E k \in 0..INODE_DIRECT_NUM - 1 : x = b.inode[i].direct[k] /\ x \in Blocks
  BY DEF InDirects
<1>1. Resized(b, b, i)
  BY SameResizes
<1>2. Resized(b, text, i)
  BY <1>0, <1>1, WrittenResizes DEF Written
<1>3. b.sector \in [Blocks -> Sector] /\ b = [inode_bitmap |-> b.inode_bitmap, data_bitmap |-> b.data_bitmap, inode |-> b.inode, sector |-> b.sector]
  BY ImageTyped
<1>4. text.data_bitmap = b.data_bitmap /\ text.inode = b.inode /\ text.sector = Marked(b.sector, S, Data)
  BY <1>3 DEF Written
<1>5. \A x \in Blocks : text.sector[x] = IF x \in S THEN Data ELSE b.sector[x]
  BY <1>3, <1>4 DEF Marked
<1>6. b.inode[i].indirect # None => b.inode[i].indirect \in Blocks /\ b.inode[i].indirect \notin S
  <2>1. \A k \in 0..INODE_DIRECT_NUM - 1 : b.inode[i].direct[k] # None => b.inode[i].direct[k] # b.inode[i].indirect
    BY HeldPlaces
  <2>2. b.inode[i].indirect # None => b.inode[i].indirect \in Blocks
    BY HeldPlaces
  <2> QED BY <1>0, <2>1, <2>2, NoneIsNoBlock
<1>7. Slots(text, i) = Slots(b, i)
  <2>1. text.inode[i].indirect = b.inode[i].indirect
    BY <1>4
  <2>2. CASE b.inode[i].indirect = None
    BY <2>1, <2>2 DEF Slots
  <2>3. CASE b.inode[i].indirect # None
    <3>1. text.sector[b.inode[i].indirect] = b.sector[b.inode[i].indirect]
      BY <1>5, <1>6, <2>3
    <3> QED BY <2>1, <3>1 DEF Slots
  <2> QED BY <2>2, <2>3
<1>8. \A p \in Places : At(text, i, p) = At(b, i, p)
  BY <1>4, <1>7 DEF At
<1>9. \A p \in Places : At(b, i, p) # None => At(b, i, p) \in Blocks
  BY AtTyped DEF Slot
<1>10. ASSUME NEW p \in Places, At(text, i, p) # None PROVE KeepsAt(b, text, i, p) \/ TakesAt(text, i, p, L)
  <2>1. CASE At(text, i, p) \in S
    <3>1. text.sector[At(text, i, p)] = Data
      BY <1>5, <1>8, <1>9, <1>10, <2>1
    <3> QED BY <2>1, <3>1, Kinds DEF TakesAt, InMemory
  <2>2. CASE At(text, i, p) \notin S
    <3>1. text.sector[At(text, i, p)] = b.sector[At(text, i, p)]
      BY <1>5, <1>8, <1>9, <1>10, <2>2
    <3> QED BY <1>8, <3>1 DEF KeepsAt
  <2> QED BY <2>1, <2>2
<1> QED BY <1>2, <1>4, <1>10 DEF Stays

----------------------------------------------------------------------------
(* Removing, seen from the whole image *)

(* What an entry is removed from in memory it is removed from in the whole image. *)
LEMMA CompleteRemoved ==
    ASSUME NEW m \in Image, NEW z, OnDisk(z), NEW e \in Inodes, m.inode[e].direct[0] \in Blocks, NEW i, NEW ch,
           NEW m2, Removed(m, m2, e, i, ch)
    PROVE  /\ Removed(Complete(m, z), Complete(m2, z), e, i, ch)
           /\ InMemory(m2, m.inode[e].direct[0])
           /\ \A b \in Blocks \ {m.inode[e].direct[0]} : Complete(m2, z).sector[b] = Complete(m, z).sector[b]
<1> DEFINE x == m.inode[e].direct[0]
           W == Complete(m, z)
           V == Complete(m2, z)
<1>1. /\ m2 \in Image /\ m2.inode = m.inode
      /\ \A j \in Inodes : m2.inode_bitmap[j] <=> m.inode_bitmap[j] /\ j # i
      /\ \A b \in Blocks : m2.data_bitmap[b] <=> m.data_bitmap[b] /\ b # m.inode[i].direct[0]
      /\ \A b \in Blocks \ {x} : m2.sector[b] = m.sector[b]
      /\ m2.sector[x] = Dir(ch) /\ x \in Blocks
  BY DEF Removed
<1>2. /\ W \in Image /\ W.inode_bitmap = m.inode_bitmap /\ W.data_bitmap = m.data_bitmap /\ W.inode = m.inode
      /\ \A b \in Blocks : (InMemory(m, b) => W.sector[b] = m.sector[b]) /\ (~InMemory(m, b) => W.sector[b] = z[b])
  BY CompleteMembers
<1>3. /\ V \in Image /\ V.inode_bitmap = m2.inode_bitmap /\ V.data_bitmap = m2.data_bitmap /\ V.inode = m2.inode
      /\ \A b \in Blocks : (InMemory(m2, b) => V.sector[b] = m2.sector[b]) /\ (~InMemory(m2, b) => V.sector[b] = z[b])
  BY <1>1, CompleteMembers
<1> HIDE DEF x, W, V
<1>4. InMemory(m2, x)
  BY <1>1, Kinds DEF InMemory
<1>5. V.sector[x] = Dir(ch)
  BY <1>1, <1>3, <1>4
<1>6. \A b \in Blocks \ {x} : V.sector[b] = W.sector[b]
  BY <1>1, <1>2, <1>3 DEF InMemory
<1>7. W.inode[e].direct[0] = x
  BY <1>2 DEF x
<1>8. Removed(W, V, e, i, ch)
  BY <1>1, <1>2, <1>3, <1>5, <1>6, <1>7 DEF Removed
<1> QED BY <1>4, <1>6, <1>8 DEF x, W, V

\* Memory m2 is m without inode i, which is in entry k of directory e.
OffTree(m, m2, z, e, k, i) ==
    /\ Live(m2) = Live(m) \ {i} /\ Dirs(m2) = Dirs(m) \ {i} /\ e \in Dirs(m) /\ e # i
    /\ Children(Complete(m2, z), e) = RemoveAt(Children(Complete(m, z), e), k)
    /\ \A f \in Dirs(m) \ {e, i} : Children(Complete(m2, z), f) = Children(Complete(m, z), f)

(* What an inode leaves behind that had at most one sector and listed nothing. *)
LEMMA RemovalOffTree ==
    ASSUME NEW m \in Image, NEW z, OnDisk(z), Sound(Complete(m, z)),
           NEW e, NEW k, NEW i, Lists(Listing(Complete(m, z)), e, k, i), OnlyFirst(Complete(m, z), i),
           \A l, j : ~Lists(Listing(Complete(m, z)), i, l, j),
           InMemory(m, m.inode[e].direct[0]),
           NEW m2, Removed(m, m2, e, i, RemoveAt(Children(m, e), k))
    PROVE  OffTree(m, m2, z, e, k, i) /\ Sound(Complete(m2, z))
<1> DEFINE W == Complete(m, z)
           V == Complete(m2, z)
           x == m.inode[e].direct[0]
<1>1. OnDisk(z) /\ Sound(W) /\ BlocksSound(W) /\ m \in Image
  BY DEF Sound
<1>2. /\ W.inode_bitmap = m.inode_bitmap /\ W.data_bitmap = m.data_bitmap /\ W.inode = m.inode
      /\ Live(W) = Live(m) /\ Dirs(W) = Dirs(m)
  BY <1>1, CompleteMembers
<1>3. e \in Dirs(m) /\ e \in Live(m) /\ e \in Inodes
  BY <1>2 DEF Lists, Listing, Dirs, Live
<1>4. x \in Blocks /\ Owned(W, x) /\ At(W, e, <<"direct", 0>>) = x
  <2>1. e \in Dirs(W) /\ W.inode[e].direct[0] = x
    BY <1>2, <1>3
  <2>2. x \in Blocks /\ Owned(W, x)
    BY <1>1, <2>1, OwnedBlocks
  <2>3. At(W, e, <<"direct", 0>>) = W.inode[e].direct[0]
    BY DEF At
  <2> QED BY <2>1, <2>2, <2>3
<1>5. Children(m, e) = Children(W, e)
  BY <1>1, <1>3, <1>4, CompleteChildren
<1>6. m2 \in Image /\ m2.inode = m.inode
  BY DEF Removed
<1>7. /\ Removed(W, V, e, i, RemoveAt(Children(W, e), k))
      /\ InMemory(m2, x) /\ \A b \in Blocks \ {x} : V.sector[b] = W.sector[b]
  BY <1>1, <1>3, <1>4, <1>5, CompleteRemoved
<1>8. /\ V.inode = m.inode /\ Live(V) = Live(m2) /\ Dirs(V) = Dirs(m2)
  BY <1>1, <1>6, CompleteMembers
<1>10. Lists(Listing(W), e, k, i) /\ OnlyFirst(W, i) /\ \A l, j : ~Lists(Listing(W), i, l, j)
  OBVIOUS
<1> HIDE DEF W, V, x
<1>11. /\ Sound(V) /\ Live(V) = Live(W) \ {i} /\ Dirs(V) = Dirs(W) \ {i} /\ e # i
       /\ Children(V, e) = RemoveAt(Children(W, e), k)
       /\ \A f \in Dirs(W) \ {e, i} : Children(V, f) = Children(W, f)
  BY <1>1, <1>7, <1>10, RemovalKeepsSound
<1> QED BY <1>2, <1>3, <1>8, <1>11 DEF V, W, OffTree

\* Bits of x that are set were set in m.
OnlyClears(m, x) == \A b \in Blocks : /\ m.data_bitmap[b] \in BOOLEAN /\ x.data_bitmap[b] \in BOOLEAN
                                      /\ x.data_bitmap[b] => m.data_bitmap[b]

(* What is listed, if bits are only cleared. *)
LEMMA ClearedOn ==
    ASSUME NEW m, NEW a, NEW b, OnlyClears(m, a), OnlyClears(a, b)
    PROVE  Switched(m, a) \cup Switched(a, b) = Switched(m, b) /\ OnlyClears(m, b)
<1>1. ASSUME NEW x \in Blocks
      PROVE  m.data_bitmap[x] # b.data_bitmap[x] <=> m.data_bitmap[x] # a.data_bitmap[x] \/ a.data_bitmap[x] # b.data_bitmap[x]
  <2>1. /\ m.data_bitmap[x] \in BOOLEAN /\ a.data_bitmap[x] \in BOOLEAN /\ b.data_bitmap[x] \in BOOLEAN
        /\ a.data_bitmap[x] => m.data_bitmap[x]
        /\ b.data_bitmap[x] => a.data_bitmap[x]
    BY DEF OnlyClears
  <2> QED BY ONLY <2>1
<1>2. Switched(m, a) \cup Switched(a, b) = Switched(m, b)
  BY <1>1 DEF Switched
<1> QED BY <1>2 DEF OnlyClears

(* What is left of the sectors of N. *)
LEMMA LeftOn ==
    ASSUME NEW a, NEW b, OnlyClears(a, b), NEW N, N \subseteq Blocks
    PROVE  Left(Left(N, a), b) = Left(N, b)
BY DEF Left, OnlyClears

(* What stays of all other inodes when file_delete takes a file. *)
Deleted(m, z, new, e, k, i) ==
    /\ Live(new) = Live(m) \ {i} /\ Dirs(new) = Dirs(m) \ {i} /\ e \in Dirs(m) /\ e # i
    /\ Children(Complete(new, z), e) = RemoveAt(Children(Complete(m, z), e), k)
    /\ \A f \in Dirs(m) \ {e, i} : Children(Complete(new, z), f) = Children(Complete(m, z), f)
    /\ \A j \in Inodes \ {i} : new.inode[j] = m.inode[j]
    /\ \A b \in Blocks : InMemory(m, b) => InMemory(new, b)
    /\ \A b \in Blocks : new.data_bitmap[b] => m.data_bitmap[b]
    /\ \A b \in Blocks : m.data_bitmap[b] \in BOOLEAN /\ new.data_bitmap[b] \in BOOLEAN

(* No directory lists itself under a name. *)
LEMMA ListsOther ==
    ASSUME NEW L, NEW C, TreeOn(L, C), NEW d, NEW k, NEW i, Lists(C, d, k, i)
    PROVE  i # d /\ i \in L /\ i # 0
<1>1. i \in L \ {0}
  BY DEF Lists, TreeOn, EntriesLead
<1>2. ASSUME i = d PROVE FALSE
  <2>1. {d} \in SUBSET (L \ {0}) /\ {d} # {}
    BY <1>1, <1>2
  <2>2. \E j \in {d}, e \in DOMAIN C \ {d} : \E l \in Nat : Lists(C, e, l, j)
    BY <2>1 DEF TreeOn, NoneCutOff
  <2>3. PICK e \in DOMAIN C \ {d}, l \in Nat : Lists(C, e, l, d)
    BY <2>2
  <2>4. Lists(C, d, k, d) /\ d \in L
    BY <1>1, <1>2
  <2>5. e = d
    BY <2>3, <2>4 DEF TreeOn, ListedOnce
  <2> QED BY <2>3, <2>5
<1> QED BY <1>1, <1>2

\* Entry k of d is still directory i; what i lists are files whose index blocks are in memory.
InDirectory(m, x, z, d, k, i) ==
    /\ Lists(Listing(Complete(x, z)), d, k, i) /\ i \in Dirs(x) /\ d # i
    /\ x.inode[d] = m.inode[d] /\ x.inode[i] = m.inode[i]
    /\ InMemory(x, m.inode[d].direct[0]) /\ InMemory(x, m.inode[i].direct[0])
    /\ \A l \in 1..Len(Children(Complete(x, z), i)) :
          LET e == Children(Complete(x, z), i)[l]
          IN e.name \in {".", ".."} \/ (e.loc \in Files(x) /\ IndexHeld(x, e.loc))

----------------------------------------------------------------------------
(* Adding, seen from the whole image *)

(* What is added in memory is added to the whole image. *)
LEMMA CompleteAdded ==
    ASSUME NEW m \in Image, NEW z, OnDisk(z), NEW d \in Inodes, m.inode[d].direct[0] \in Blocks, NEW i, NEW b \in Blocks, NEW ch,
           NEW m2, Added(m, m2, d, i, b, ch), InMemory(m2, b)
    PROVE  /\ Added(Complete(m, z), Complete(m2, z), d, i, b, ch)
           /\ Complete(m2, z).sector[b] = m2.sector[b] /\ InMemory(m2, m.inode[d].direct[0])
           /\ Complete(m2, z).inode = m2.inode /\ m2 \in Image
           /\ \A x \in Blocks \ {m.inode[d].direct[0], b} : m2.sector[x] = m.sector[x]
<1> DEFINE W == Complete(m, z)
           V == Complete(m2, z)
           x == m.inode[d].direct[0]
<1>1. /\ m2 \in Image
      /\ \A j \in Inodes : m2.inode_bitmap[j] <=> m.inode_bitmap[j] \/ j = i
      /\ \A y \in Blocks : m2.data_bitmap[y] <=> m.data_bitmap[y] \/ y = b
      /\ \A j \in Inodes \ {i} : m2.inode[j] = m.inode[j]
      /\ StartsAt(m, m2, i, b)
      /\ \A y \in Blocks \ {x, b} : m2.sector[y] = m.sector[y]
      /\ m2.sector[x] = Dir(ch)
  BY DEF Added
<1>2. /\ W.inode_bitmap = m.inode_bitmap /\ W.data_bitmap = m.data_bitmap /\ W.inode = m.inode
      /\ \A y \in Blocks : /\ InMemory(m, y) => W.sector[y] = m.sector[y]
                           /\ ~InMemory(m, y) => W.sector[y] = z[y]
  BY CompleteMembers
<1>3. /\ V \in Image /\ V.inode_bitmap = m2.inode_bitmap /\ V.data_bitmap = m2.data_bitmap /\ V.inode = m2.inode
      /\ \A y \in Blocks : /\ InMemory(m2, y) => V.sector[y] = m2.sector[y]
                           /\ ~InMemory(m2, y) => V.sector[y] = z[y]
  BY <1>1, CompleteMembers
<1>4. InMemory(m2, x)
  BY <1>1, Kinds DEF InMemory
<1> HIDE DEF W, V
<1>5. V.sector[x] = Dir(ch) /\ V.sector[b] = m2.sector[b]
  BY <1>1, <1>3, <1>4
<1>6. \A y \in Blocks \ {x, b} : V.sector[y] = W.sector[y]
  BY <1>1, <1>2, <1>3 DEF InMemory
<1>7. StartsAt(W, V, i, b)
  BY <1>1, <1>2, <1>3 DEF StartsAt
<1>8. W.inode[d].direct[0] = x
  BY <1>2
<1> HIDE DEF x
<1>9. Added(W, V, d, i, b, ch)
  BY <1>1, <1>2, <1>3, <1>5, <1>6, <1>7, <1>8 DEF Added
<1> QED BY <1>1, <1>3, <1>4, <1>5, <1>9 DEF W, V, x

(* Other inodes have what they had. *)
LEMMA AddedPlaces ==
    ASSUME NEW w, Sound(w), NEW d \in Dirs(w), NEW i \in Inodes \ Live(w), NEW b \in Blocks, ~w.data_bitmap[b],
           NEW ch, NEW v, Added(w, v, d, i, b, ch)
    PROVE  /\ Live(v) = Live(w) \cup {i} /\ i # 0
           /\ \A j \in Live(w), p \in Places : At(v, j, p) = At(w, j, p)
           /\ \A p \in Places : At(v, i, p) # None => At(v, i, p) = b
           /\ \A j \in Live(w), p \in Places : At(w, j, p) # b
           /\ \A e \in Dirs(w) \ {d} : Children(v, e) = Children(w, e)
           /\ Children(v, d) = ch
           /\ \A j \in Dirs(w) : j \in Dirs(v) /\ j # i
           /\ \A j \in Dirs(v) : j \in Dirs(w) \/ j = i
<1> DEFINE x == w.inode[d].direct[0]
<1>1. /\ v \in Image
      /\ \A j \in Inodes : v.inode_bitmap[j] <=> w.inode_bitmap[j] \/ j = i
      /\ \A j \in Inodes \ {i} : v.inode[j] = w.inode[j]
      /\ StartsAt(w, v, i, b)
      /\ \A y \in Blocks \ {x, b} : v.sector[y] = w.sector[y]
      /\ v.sector[x] = Dir(ch)
  BY DEF Added
<1>2. BlocksSound(w) /\ w \in Image /\ TreeOn(Live(w), Listing(w))
  BY DEF Sound, BlocksSound
<1>3. Live(v) = Live(w) \cup {i}
  BY <1>1 DEF Live
<1>4. 0 \in Live(w) /\ i # 0
  BY <1>2 DEF TreeOn, DirectoriesOf
<1>5. \A j \in Live(w), p \in Places : At(w, j, p) # None => At(w, j, p) \in Blocks /\ At(w, j, p) # b
  BY <1>2, OwnedBlocks
<1>6. \A j \in Live(w), p \in Places : At(w, j, p) # b
  BY <1>5, NoneIsNoBlock
<1>7. x \in Blocks /\ x # b /\ d \in Live(w)
  BY <1>2, SoundImage
<1>8. ASSUME NEW j \in Live(w), NEW p \in Places PROVE At(v, j, p) = At(w, j, p)
  <2>1. v.inode[j] = w.inode[j] /\ j # i
    BY <1>1 DEF Live
  <2>2. w.inode[j].indirect # None => w.inode[j].indirect \in Blocks \ {x, b}
    <3>1. ASSUME w.inode[j].indirect # None PROVE w.inode[j].indirect \in Blocks /\ w.inode[j].indirect # b
      BY <1>2, <1>5, <3>1, AtIndirect
    <3>2. ASSUME w.inode[j].indirect # None, w.inode[j].indirect = x PROVE FALSE
      <4>1. <<"direct", 0>> \in Places /\ At(w, d, <<"direct", 0>>) = x
        BY <1>2, SoundImage
      <4>2. <<"indirect", 0>> \in Places /\ At(w, j, <<"indirect", 0>>) = x
        BY <3>2, AtIndirect
      <4>3. CASE j = d
        BY <1>2, <3>2, <4>3, SoundImage
      <4>4. CASE j # d
        BY <1>2, <1>7, <4>1, <4>2, <4>4, NoneIsNoBlock DEF BlocksSound
      <4> QED BY <4>3, <4>4
    <3> QED BY <3>1, <3>2
  <2>3. Slots(v, j) = Slots(w, j)
    <3>1. CASE w.inode[j].indirect = None
      BY <2>1, <3>1 DEF Slots
    <3>2. CASE w.inode[j].indirect # None
      <4>1. v.sector[w.inode[j].indirect] = w.sector[w.inode[j].indirect]
        BY <1>1, <2>2, <3>2
      <4> QED BY <2>1, <4>1 DEF Slots
    <3> QED BY <3>1, <3>2
  <2> QED BY <2>1, <2>3 DEF At
<1>9. \A p \in Places : At(v, i, p) # None => At(v, i, p) = b
  <2>1. OnlyFirst(w, i)
    BY <1>2 DEF BlocksSound
  <2> QED BY <1>1, <2>1, OneSector
<1>10. ASSUME NEW e \in Dirs(w) \ {d} PROVE Children(v, e) = Children(w, e)
  <2>1. e \in Inodes \ {i} /\ e \in Live(w)
    BY DEF Dirs, Live
  <2>2. w.inode[e].direct[0] \in Blocks \ {x}
    BY <1>2, SoundImage
  <2>3. w.inode[e].direct[0] # b
    BY <1>2, <1>6, <2>1, SoundImage
  <2>4. v.inode[e] = w.inode[e] /\ v.sector[w.inode[e].direct[0]] = w.sector[w.inode[e].direct[0]]
    BY <1>1, <2>1, <2>2, <2>3
  <2> QED BY <2>4 DEF Children
<1>11. Children(v, d) = ch
  <2>1. v.inode[d] = w.inode[d]
    BY <1>1, <1>7 DEF Live
  <2>2. v.sector[v.inode[d].direct[0]] = Dir(ch)
    BY <1>1, <2>1
  <2> QED BY <2>2, Kinds DEF Children
<1>12. \A j \in Dirs(w) : j \in Dirs(v) /\ j # i
  BY <1>1, <1>3 DEF Dirs, Live
<1>13. \A j \in Dirs(v) : j \in Dirs(w) \/ j = i
  BY <1>1, <1>3 DEF Dirs, Live
<1> QED BY <1>3, <1>4, <1>6, <1>8, <1>9, <1>10, <1>11, <1>12, <1>13

\* m2 is m with inode i, whose sector is b, in directory d under that name: a file, or a directory in the root.
AddedTo(m, m2, d, i, b, name) ==
    /\ i \in Inodes \ Live(m) /\ b \in Blocks /\ ~m.data_bitmap[b] /\ name \in Names
    /\ \A k \in 1..Len(Children(m, d)) : Children(m, d)[k].name # name
    /\ InMemory(m, m.inode[d].direct[0])
    /\ Added(m, m2, d, i, b, Append(Children(m, d), [name |-> name, loc |-> i]))
    /\ \/ m2.inode[i].type = File /\ m2.sector[b] = Data
       \/ /\ m2.inode[i].type = Directory /\ d = 0
          /\ m2.sector[b] = Dir(<<[name |-> ".", loc |-> i], [name |-> "..", loc |-> d]>>)

(* A new inode has directories in it only if it is the root. *)
LEMMA AddedShallow ==
    ASSUME NEW w, Sound(w), Shallow(w), NEW d \in Dirs(w), NEW i \in Inodes \ Live(w), NEW b \in Blocks, ~w.data_bitmap[b],
           NEW name \in Names, NEW v, Added(w, v, d, i, b, Append(Children(w, d), [name |-> name, loc |-> i])),
           \/ v.inode[i].type = File
           \/ /\ v.inode[i].type = Directory /\ d = 0
              /\ v.sector[b] = Dir(<<[name |-> ".", loc |-> i], [name |-> "..", loc |-> d]>>)
    PROVE  Shallow(v)
<1> DEFINE ch == Append(Children(w, d), [name |-> name, loc |-> i])
<1>0. Added(w, v, d, i, b, ch)
  OBVIOUS
<1> HIDE DEF ch
<1>1. /\ Live(v) = Live(w) \cup {i} /\ i # 0
      /\ \A e \in Dirs(w) \ {d} : Children(v, e) = Children(w, e)
      /\ Children(v, d) = ch
      /\ \A j \in Dirs(w) : j \in Dirs(v) /\ j # i
      /\ \A j \in Dirs(v) : j \in Dirs(w) \/ j = i
  BY <1>0, AddedPlaces
<1>2. v \in Image /\ \A j \in Inodes \ {i} : v.inode[j] = w.inode[j]
  BY DEF Added
<1>3. v.inode[i].direct[0] = b
  BY DEF Added, StartsAt
<1>4. 0 \in Inodes
  BY ConstantsTyped
<1>5. v.inode[0].direct[0] = RootBlock
  BY <1>1, <1>2, <1>4 DEF Shallow
<1>6. Children(w, d) \in Seq(Entry)
  BY SoundImage DEF Sound
<1>7. ASSUME NEW e \in Dirs(w), NEW k \in 1..Len(Children(w, e)), e # 0
      PROVE  Children(w, e)[k].name \in {".", ".."} \/ Children(w, e)[k].loc \notin Dirs(v)
  <2>1. Children(w, e)[k].name \in {".", ".."} \/ Children(w, e)[k].loc \notin Dirs(w)
    BY <1>7 DEF Shallow, Flat
  <2>2. Children(w, e)[k].loc \in Live(w)
    BY EntryLive
  <2> QED BY <1>1, <2>1, <2>2
<1>8. ASSUME NEW e \in Dirs(v) \ {0} PROVE Flat(v, e)
  <2>1. CASE e = i
    <3>1. /\ v.inode[i].type = Directory
          /\ v.sector[b] = Dir(<<[name |-> ".", loc |-> i], [name |-> "..", loc |-> d]>>)
      BY <2>1 DEF Dirs, File, Directory
    <3> DEFINE two == <<[name |-> ".", loc |-> i], [name |-> "..", loc |-> d]>>
    <3>2. Len(two) = 2 /\ two[1].name = "." /\ two[2].name = ".."
      OBVIOUS
    <3>3. v.sector[b] = Dir(two)
      BY <3>1
    <3> HIDE DEF two
    <3>4. Children(v, i) = two
      BY <1>3, <3>3, Kinds DEF Children
    <3>5. \A j \in 1..Len(two) : two[j].name \in {".", ".."}
      BY <3>2
    <3> QED BY <2>1, <3>4, <3>5 DEF Flat
  <2>2. CASE e \in Dirs(w) /\ e # d
    <3>1. Children(v, e) = Children(w, e)
      BY <1>1, <2>2
    <3>2. \A k \in 1..Len(Children(w, e)) : Children(w, e)[k].name \in {".", ".."} \/ Children(w, e)[k].loc \notin Dirs(v)
      BY <1>7, <2>2
    <3> QED BY <3>1, <3>2 DEF Flat
  <2>3. CASE e = d
    <3>1. v.inode[i].type = File
      BY <2>3
    <3>2. i \notin Dirs(v)
      BY <3>1 DEF Dirs, File, Directory
    <3>3. Len(ch) = Len(Children(w, d)) + 1 /\ ch[Len(Children(w, d)) + 1].loc = i
          /\ \A k \in 1..Len(Children(w, d)) : ch[k] = Children(w, d)[k]
      BY <1>6 DEF ch
    <3>4. \A k \in 1..Len(Children(w, d)) : Children(w, d)[k].name \in {".", ".."} \/ Children(w, d)[k].loc \notin Dirs(v)
      BY <1>7, <2>3
    <3>5. Len(Children(w, d)) \in Nat
      BY <1>6
    <3>6. \A k \in 1..Len(ch) : ch[k].name \in {".", ".."} \/ ch[k].loc \notin Dirs(v)
      BY <3>2, <3>3, <3>4, <3>5
    <3> QED BY <1>1, <2>3, <3>6 DEF Flat
  <2> QED BY <1>1, <2>1, <2>2, <2>3
<1> QED BY <1>5, <1>8 DEF Shallow

\* What is listed after mk or mkdir.
AddedList(m, m2, d, U) == U \cup ({m.inode[d].direct[0]} \cup Switched(m, m2))

----------------------------------------------------------------------------
(* Paths *)

(* cd of one name, or of none, goes one step, or none. *)
LEMMA WalkOne ==
    ASSUME NEW x, NEW d
    PROVE  /\ \A g : Walk(g, <<x>>, d) => g[Len(<<x>>)] = Enter(d, x)
           /\ \A g : Walk(g, <<>>, d) => g[Len(<<>>)] = d
<1>1. ASSUME NEW g, Walk(g, <<x>>, d) PROVE g[Len(<<x>>)] = Enter(d, x)
  <2>1. g = [n \in 0..1 |-> IF n = 0 THEN d ELSE Enter(g[n - 1], x)]
    <3>1. Len(<<x>>) = 1 /\ <<x>>[1] = x
      OBVIOUS
    <3>2. g = [n \in 0..1 |-> IF n = 0 THEN d ELSE Enter(g[n - 1], <<x>>[n])]
      BY <1>1, <3>1 DEF Walk
    <3>3. \A n \in 0..1 : n # 0 => n = 1
      OBVIOUS
    <3> QED BY <3>1, <3>2, <3>3
  <2>2. 0 \in 0..1 /\ 1 \in 0..1 /\ 1 - 1 = 0
    OBVIOUS
  <2>3. g[0] = d
    BY <2>1, <2>2
  <2>4. g[1] = Enter(g[1 - 1], x)
    BY <2>1, <2>2
  <2> QED BY <2>2, <2>3, <2>4
<1>2. ASSUME NEW g, Walk(g, <<>>, d) PROVE g[Len(<<>>)] = d
  BY <1>2 DEF Walk
<1> QED BY <1>1, <1>2

(* Paths of one name, or of none. *)
LEMMA PathOne ==
    ASSUME NEW S, NEW x \in S
    PROVE  <<x>> \in Seq(S) /\ <<>> \in Seq(S)
OBVIOUS

----------------------------------------------------------------------------
(* Sectors that are sent or read *)

(* With older index blocks the tree is as shallow. *)
LEMMA OlderShallow ==
    ASSUME NEW w, Sound(w), Shallow(w), NEW w2, Older(w, w2)
    PROVE  Shallow(w2)
<1>1. Dirs(w2) = Dirs(w) /\ Listing(w2) = Listing(w) /\ w2.inode = w.inode
  BY OlderSound DEF Older
<1>2. \A d \in Dirs(w) : Children(w2, d) = Children(w, d)
  <2> TAKE d \in Dirs(w)
  <2>1. Listing(w)[d] = Children(w, d) /\ Listing(w2)[d] = Children(w2, d)
    BY <1>1 DEF Listing
  <2> QED BY <1>1, <2>1
<1>3. \A d \in Dirs(w) \ {0} : Flat(w2, d)
  BY <1>1, <1>2 DEF Shallow, Flat
<1> QED BY <1>1, <1>3 DEF Shallow

(* An index block is no older than itself. *)
LEMMA IndexItself ==
    ASSUME NEW w, BlocksSound(w), NEW i \in Files(w), w.inode[i].indirect # None
    PROVE  OlderIndex(w.sector[w.inode[i].indirect], w.sector[w.inode[i].indirect])
<1> DEFINE x == w.inode[i].indirect
           c == w.sector[x]
<1>1. w \in Image /\ DenseFile(w, i) /\ i \in Inodes /\ i \in Live(w)
  BY DEF BlocksSound, Files, Live
<1>2. x \in Blocks /\ c.kind = "index"
  <2>1. w.inode[i].indirect \in Blocks
    BY <1>1, OwnedBlocks
  <2>2. w.sector[w.inode[i].indirect].kind = "index"
    BY OwnedBlocks
  <2> QED BY <2>1, <2>2
<1>3. c \in Sector
  BY <1>1, <1>2 DEF Image
<1>4. c.kind = "index"
  BY <1>2
<1>5. x # None /\ Dense(Slots(w, i))
  BY <1>1 DEF DenseFile
<1>6. Slots(w, i) = c.slot
  BY <1>4, <1>5 DEF Slots
<1> HIDE DEF c
<1>7. PICK s \in [0..INDEX_NUM - 1 -> Slot] : c = Index(s)
  BY <1>3, <1>4, SectorKinds
<1>8. c.slot = s
  BY <1>7, Kinds
<1>9. Grown(c, c)
  BY <1>7 DEF Grown
<1>10. OlderIndex(c, c)
  BY <1>5, <1>6, <1>9 DEF OlderIndex
<1> QED BY <1>10 DEF c

(* Of what a file has in memory the index is right. *)
LEMMA HeldItself ==
    ASSUME NEW m \in Image, NEW z, OnDisk(z), BlocksSound(Complete(m, z)), NEW i \in Files(m),
           NEW x, x = m.inode[i].indirect, x # None, InMemory(m, x)
    PROVE  OlderIndex(m.sector[x], m.sector[x])
<1> DEFINE w == Complete(m, z)
<1>1. w.inode = m.inode /\ Files(w) = Files(m)
  BY CompleteMembers DEF Files
<1>2. w.inode[i].indirect = x /\ i \in Files(w)
  BY <1>1
<1>3. x \in Blocks
  <2>1. i \in Live(w) /\ BlocksSound(w)
    BY <1>2 DEF Files
  <2> HIDE DEF w
  <2> QED BY <1>2, <2>1, OwnedBlocks
<1>4. w.sector[x] = m.sector[x]
  BY <1>3, CompleteMembers
<1> HIDE DEF w
<1>5. OlderIndex(w.sector[x], w.sector[x])
  BY <1>2, IndexItself DEF w
<1> QED BY <1>4, <1>5

(* Owners are inodes of the memory. *)
LEMMA OwnedAt ==
    ASSUME NEW m \in Image, NEW z, OnDisk(z), NEW b, Owned(Complete(m, z), b)
    PROVE  \E i \in Live(m), p \in Places : At(Complete(m, z), i, p) = b
BY CompleteMembers DEF Owned

\* Memory m with c in sector s.
Placed(m, s, c) == [m EXCEPT !.sector[s] = c]

(* Its members. *)
LEMMA PlacedMembers ==
    ASSUME NEW m \in Image, NEW s \in Blocks, NEW c \in Sector
    PROVE  /\ Placed(m, s, c) \in Image
           /\ Placed(m, s, c).inode_bitmap = m.inode_bitmap /\ Placed(m, s, c).data_bitmap = m.data_bitmap
           /\ Placed(m, s, c).inode = m.inode
           /\ \A b \in Blocks : Placed(m, s, c).sector[b] = IF b = s THEN c ELSE m.sector[b]
           /\ Live(Placed(m, s, c)) = Live(m) /\ Dirs(Placed(m, s, c)) = Dirs(m) /\ Files(Placed(m, s, c)) = Files(m)
<1> DEFINE m2 == Placed(m, s, c)
<1>1. m2 = [inode_bitmap |-> m.inode_bitmap, data_bitmap |-> m.data_bitmap, inode |-> m.inode,
            sector |-> [m.sector EXCEPT ![s] = c]]
  BY DEF Placed, Image
<1>2. m2 \in Image
  BY <1>1 DEF Image
<1>3. m.sector \in [Blocks -> Sector]
  BY DEF Image
<1>4. /\ m2.inode_bitmap = m.inode_bitmap /\ m2.data_bitmap = m.data_bitmap /\ m2.inode = m.inode
      /\ \A b \in Blocks : m2.sector[b] = IF b = s THEN c ELSE m.sector[b]
  BY <1>1, <1>3
<1>5. Live(m2) = Live(m) /\ Dirs(m2) = Dirs(m) /\ Files(m2) = Files(m)
  BY <1>4 DEF Live, Dirs, Files
<1> QED BY <1>2, <1>4, <1>5
=============================================================================
