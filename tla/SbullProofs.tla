------------------------------ MODULE SbullProofs ------------------------------
(***************************************************************************)
(* Theorems about the disk of sbull.c, for any number of processes,        *)
(* sectors and segments: what the queue and the bios keep, that the medium *)
(* is at rest while anybody has the disk open, and that the disk           *)
(* implements SectorDisk.                                                  *)
(***************************************************************************)
EXTENDS Sbull, FiniteSetTheorems, SequenceTheorems, TLAPS

(* Sums of lengths *)

\* Induction: a set of naturals has a least element.
LEMMA LeastElement ==
  ASSUME NEW T, T \subseteq Nat, T # {}
  PROVE  \E x \in T : \A y \in T : x <= y
<1> DEFINE less == {ss \in Nat \X Nat : ss[1] < ss[2]}
<1>1. IsWellFoundedOn(less, Nat)  BY NatLessThanWellFounded DEF OpToRel
<1>2. PICK x \in T : \A y \in T : ~(<<y, x>> \in less)
  <2> HIDE DEF less
  <2>. QED  BY <1>1, WFMin
<1>3. ASSUME NEW y \in T PROVE x <= y
  <2>1. ~(y < x)  BY <1>2
  <2>. QED  BY <2>1
<1>. QED  BY <1>3

\* Induction up to a bound, over a set.
LEMMA UpTo ==
  ASSUME NEW n \in Nat, NEW T, 0 \in T, \A i \in 0..n - 1 : i \in T => i + 1 \in T
  PROVE  0..n \subseteq T
<1> DEFINE U == {i \in 0..n : i \notin T}
<1>1. SUFFICES ASSUME U # {} PROVE FALSE  OBVIOUS
<1>2. U \subseteq Nat  OBVIOUS
<1>3. PICK k \in U : \A y \in U : k <= y
  <2> HIDE DEF U
  <2>. QED  BY <1>1, <1>2, LeastElement
<1>4. k # 0 /\ k \in 0..n  OBVIOUS
<1>5. k - 1 \in 0..n - 1 /\ k - 1 \notin U  BY <1>3, <1>4
<1>6. k - 1 \in T  BY <1>5
<1>7. k - 1 + 1 \in T  BY <1>5, <1>6
<1>. QED  BY <1>4, <1>7

LEMMA MaxIs ==
  ASSUME NEW n \in Nat, NEW T \in SUBSET (1..n), T # {}
  PROVE  Max(T) \in T /\ \A y \in T : y <= Max(T)
<1> DEFINE V == {n - x : x \in T}
<1>0. \A x \in T : x \in Int /\ n - x \in Nat  OBVIOUS
<1>1. V \subseteq Nat /\ V # {}  BY <1>0
<1>2. PICK v \in V : \A y \in V : v <= y
  <2> HIDE DEF V
  <2>. QED  BY <1>1, LeastElement
<1>3. PICK x \in T : v = n - x  BY <1>2
<1>4. ASSUME NEW y \in T PROVE x >= y
  <2>1. n - x <= n - y /\ x \in Int /\ y \in Int  BY <1>0, <1>2, <1>3, <1>4
  <2>. QED  BY <2>1
<1>. QED  BY <1>4 DEF Max

\* The equation that the fold of SumOf solves, over the subsets of 1..k.
Folds(t, k, w) ==
  w = [ss \in SUBSET (1..k) |-> IF ss = {} THEN 0 ELSE w[ss \ {Max(ss)}] + t[Max(ss)]]

LEMMA FoldExists ==
  ASSUME NEW n \in Nat, NEW t \in [1..n -> Nat] PROVE \E w : Folds(t, n, w)
<1> DEFINE T == {k \in 0..n : \E w : Folds(t, k, w)}
<1>1. 0 \in T
  <2> DEFINE w == [ss \in SUBSET (1..0) |-> 0]
  <2>1. \A ss \in SUBSET (1..0) : ss = {}  OBVIOUS
  <2>2. Folds(t, 0, w)  BY <2>1 DEF Folds
  <2>. QED  BY <2>2
<1>2. ASSUME NEW k \in 0..n - 1, k \in T PROVE k + 1 \in T
  <2>1. PICK w : Folds(t, k, w)  BY <1>2
  <2> DEFINE v == [ss \in SUBSET (1..k + 1) |-> IF k + 1 \in ss THEN w[ss \ {k + 1}] + t[k + 1] ELSE w[ss]]
  <2>2. ASSUME NEW ss \in SUBSET (1..k + 1)
        PROVE  v[ss] = IF ss = {} THEN 0 ELSE v[ss \ {Max(ss)}] + t[Max(ss)]
    <3>1. CASE k + 1 \in ss
      <4>1. Max(ss) \in ss /\ Max(ss) >= k + 1  BY <3>1, MaxIs
      <4>2. Max(ss) = k + 1
        <5>1. Max(ss) \in 1..k + 1  BY <4>1
        <5>. QED  BY <4>1, <5>1
      <4>3. ss \ {k + 1} \in SUBSET (1..k + 1) /\ k + 1 \notin ss \ {k + 1}  OBVIOUS
      <4>4. v[ss \ {k + 1}] = w[ss \ {k + 1}]  BY <4>3
      <4>. QED  BY <3>1, <4>2, <4>4
    <3>2. CASE k + 1 \notin ss
      <4>1. ss \in SUBSET (1..k)  BY <3>2
      <4>2. ss # {} => ss \ {Max(ss)} \in SUBSET (1..k) /\ k + 1 \notin ss \ {Max(ss)}  BY <3>2, <4>1
      <4>3. v[ss] = w[ss]  BY <3>2
      <4>4. ss # {} => v[ss \ {Max(ss)}] = w[ss \ {Max(ss)}]  BY <4>2
      <4>5. w[ss] = IF ss = {} THEN 0 ELSE w[ss \ {Max(ss)}] + t[Max(ss)]  BY <2>1, <4>1 DEF Folds
      <4>. QED  BY <4>3, <4>4, <4>5
    <3>. QED  BY <3>1, <3>2
  <2>3. v = [ss \in SUBSET (1..k + 1) |-> v[ss]]  OBVIOUS
  <2>4. Folds(t, k + 1, v)
    <3> HIDE DEF v
    <3>. QED  BY <2>2, <2>3 DEF Folds
  <2>. QED  BY <2>4
<1>3. 0..n \subseteq T
  <2> HIDE DEF T
  <2>. QED  BY <1>1, <1>2, UpTo
<1>. QED  BY <1>3

\* The partial sums.
Sums(t, f) ==
  /\ f \in [0..Len(t) -> Nat]
  /\ f[0] = 0 /\ \A i \in 0..Len(t) - 1 : f[i + 1] = f[i] + t[i + 1]

LEMMA SumOfIs ==
  ASSUME NEW t \in Seq(Nat) PROVE \E f : Sums(t, f) /\ SumOf(t) = f[Len(t)]
<1>1. PICK n \in Nat : n = Len(t) /\ DOMAIN t = 1..n /\ t \in [1..n -> Nat]  OBVIOUS
<1>2. PICK w : Folds(t, n, w) /\ SumOf(t) = w[1..n]
  <2> DEFINE eq(w) == w = [ss \in SUBSET (1..n) |-> IF ss = {} THEN 0 ELSE w[ss \ {Max(ss)}] + t[Max(ss)]]
  <2>1. SumOf(t) = (CHOOSE w : eq(w))[1..n]
    BY <1>1 DEF SumOf, FoldLeft, MapThenFoldSet
  <2>2. \E w : eq(w)  BY <1>1, FoldExists DEF Folds
  <2>3. PICK w : w = (CHOOSE u : eq(u)) /\ eq(w)
    <3> HIDE DEF eq
    <3>. QED  BY <2>2
  <2>. QED  BY <2>1, <2>3 DEF Folds
<1>3. w[1..0] = 0  BY <1>2 DEF Folds
<1>4. ASSUME NEW i \in 0..n - 1 PROVE w[1..i + 1] = w[1..i] + t[i + 1]
  <2>1. 1..i + 1 \in SUBSET (1..n) /\ i + 1 \in 1..i + 1  OBVIOUS
  <2>2. Max(1..i + 1) \in 1..i + 1 /\ i + 1 <= Max(1..i + 1)  BY <2>1, MaxIs
  <2>3. Max(1..i + 1) = i + 1  BY <2>2
  <2>4. (1..i + 1) \ {i + 1} = 1..i  OBVIOUS
  <2>. QED  BY <1>2, <2>1, <2>3, <2>4 DEF Folds
<1> DEFINE T == {i \in 0..n : w[1..i] \in Nat}
<1>5. 0 \in T  BY <1>3
<1>6. ASSUME NEW i \in 0..n - 1, i \in T PROVE i + 1 \in T
  <2>1. t[i + 1] \in Nat  BY <1>1
  <2>. QED  BY <1>4, <1>6, <2>1
<1>7. 0..n \subseteq T
  <2> HIDE DEF T
  <2>. QED  BY <1>5, <1>6, UpTo
<1> DEFINE f == [i \in 0..n |-> w[1..i]]
<1>8. f \in [0..n -> Nat]  BY <1>7
<1>9. Sums(t, f)  BY <1>1, <1>3, <1>4, <1>8 DEF Sums
<1>. QED  BY <1>1, <1>2, <1>9

\* Where each segment has its memory: one after the other, in the bio's.
OffsetIn(s, i) == SumOf(SubSeq(s, 1, i))

LEMMA OffsetNext ==
  ASSUME NEW s \in Seq(Nat)
  PROVE  /\ OffsetIn(s, 0) = 0 /\ OffsetIn(s, Len(s)) = SumOf(s)
         /\ \A i \in 0..Len(s) : OffsetIn(s, i) \in Nat
         /\ \A i \in 0..Len(s) - 1 : OffsetIn(s, i + 1) = OffsetIn(s, i) + s[i + 1]
<1>1. ASSUME NEW i \in 0..Len(s)
      PROVE  /\ SubSeq(s, 1, i) \in Seq(Nat) /\ Len(SubSeq(s, 1, i)) = i
             /\ \A j \in 1..i : SubSeq(s, 1, i)[j] = s[j]
  OBVIOUS
<1>2. ASSUME NEW i \in 0..Len(s), NEW f, Sums(SubSeq(s, 1, i), f)
      PROVE  /\ f \in [0..i -> Nat]
             /\ f[0] = 0 /\ \A j \in 0..i - 1 : f[j + 1] = f[j] + s[j + 1]
  BY <1>1, <1>2 DEF Sums
<1>3. \A i \in 0..Len(s) : \E f : Sums(SubSeq(s, 1, i), f) /\ OffsetIn(s, i) = f[i]
  BY <1>1, SumOfIs DEF OffsetIn
<1>4. OffsetIn(s, 0) = 0  BY <1>2, <1>3
<1>5. SubSeq(s, 1, Len(s)) = s  OBVIOUS
<1>6. \A i \in 0..Len(s) : OffsetIn(s, i) \in Nat  BY <1>2, <1>3
<1>7. ASSUME NEW i \in 0..Len(s) - 1 PROVE OffsetIn(s, i + 1) = OffsetIn(s, i) + s[i + 1]
  <2>0. i \in Nat /\ i \in 0..Len(s) /\ i + 1 \in 0..Len(s) /\ Len(s) \in Nat  OBVIOUS
  <2>1. PICK f : Sums(SubSeq(s, 1, i), f) /\ OffsetIn(s, i) = f[i]  BY <1>3, <2>0
  <2>2. PICK g : Sums(SubSeq(s, 1, i + 1), g) /\ OffsetIn(s, i + 1) = g[i + 1]  BY <1>3, <2>0
  <2>3. f[0] = 0 /\ \A j \in 0..i - 1 : f[j + 1] = f[j] + s[j + 1]  BY <1>2, <2>0, <2>1
  <2>4. g[0] = 0 /\ \A j \in 0..i : g[j + 1] = g[j] + s[j + 1]
    <3>1. i + 1 - 1 = i  OBVIOUS
    <3>. QED  BY <1>2, <2>0, <2>2, <3>1
  <2> DEFINE T == {j \in 0..i : g[j] = f[j]}
  <2>5. 0 \in T  BY <2>3, <2>4
  <2>6. \A j \in 0..i - 1 : j \in T => j + 1 \in T  BY <2>3, <2>4
  <2>7. 0..i \subseteq T
    <3> HIDE DEF T
    <3>. QED  BY <2>0, <2>5, <2>6, UpTo
  <2>8. g[i] = f[i] /\ g[i + 1] = g[i] + s[i + 1]  BY <2>4, <2>7
  <2>. QED  BY <2>1, <2>2, <2>8
<1>. QED  BY <1>4, <1>5, <1>6, <1>7 DEF OffsetIn

LEMMA OffsetsGrow ==
  ASSUME NEW s \in Seq(Nat), NEW i \in 0..Len(s) PROVE OffsetIn(s, i) <= SumOf(s)
<1>1. PICK n \in Nat : n = Len(s)  OBVIOUS
<1> DEFINE T == {j \in 0..n : \A k \in 0..n : k <= j => OffsetIn(s, k) <= OffsetIn(s, j)}
<1>2. \A j \in 0..n : OffsetIn(s, j) \in Nat  BY <1>1, OffsetNext
<1>3. 0 \in T
  <2>1. \A k \in 0..n : k <= 0 => k = 0  BY <1>1
  <2>. QED  BY <1>2, <2>1
<1>4. ASSUME NEW j \in 0..n - 1, j \in T PROVE j + 1 \in T
  <2>1. s[j + 1] \in Nat /\ j + 1 \in 0..n  BY <1>1
  <2>2. OffsetIn(s, j + 1) = OffsetIn(s, j) + s[j + 1]  BY <1>1, OffsetNext
  <2>3. OffsetIn(s, j) <= OffsetIn(s, j + 1)  BY <1>2, <2>1, <2>2
  <2>4. ASSUME NEW k \in 0..n, k <= j + 1 PROVE OffsetIn(s, k) <= OffsetIn(s, j + 1)
    <3>1. k = j + 1 \/ k <= j  BY <1>1, <2>4
    <3>2. CASE k <= j  BY <1>2, <1>4, <2>1, <2>3, <3>2
    <3>. QED  BY <1>2, <2>1, <3>1, <3>2
  <2>. QED  BY <2>1, <2>4
<1>5. n \in T
  <2>1. 0..n \subseteq T
    <3> HIDE DEF T
    <3>. QED  BY <1>3, <1>4, UpTo
  <2>. QED  BY <1>1, <2>1
<1>. QED  BY <1>1, <1>5, OffsetNext

LEMMA NextMultiple == ASSUME NEW j \in Int, NEW c \in Int PROVE (j + 1) * c = j * c + c
BY Z3

\* Segments of one length.
LEMMA OffsetsEqual ==
  ASSUME NEW s \in Seq(Nat), s # <<>>, \A i \in DOMAIN s : s[i] = s[1], NEW i \in 0..Len(s)
  PROVE  OffsetIn(s, i) = i * s[1]
<1>1. PICK n \in Nat : n = Len(s) /\ DOMAIN s = 1..n /\ n # 0  OBVIOUS
<1>2. PICK c \in Nat : c = s[1]  BY <1>1
<1> DEFINE T == {j \in 0..n : OffsetIn(s, j) = j * c}
<1>3. 0 \in T
  <2>1. 0 * c = 0  BY <1>2
  <2>. QED  BY <2>1, OffsetNext
<1>4. ASSUME NEW j \in 0..n - 1, j \in T PROVE j + 1 \in T
  <2>1. OffsetIn(s, j + 1) = OffsetIn(s, j) + s[j + 1]  BY <1>1, OffsetNext
  <2>2. j \in Int /\ j + 1 \in 0..n /\ j + 1 \in DOMAIN s  BY <1>1
  <2>3. s[j + 1] = c  BY <1>2, <2>2
  <2>4. (j + 1) * c = j * c + c
    <3>1. j \in Int /\ c \in Int  BY <1>2
    <3>. QED  BY ONLY <3>1, NextMultiple, Zenon
  <2>. QED  BY <1>4, <2>1, <2>2, <2>3, <2>4
<1>5. 0..n \subseteq T
  <2> HIDE DEF T
  <2>. QED  BY <1>3, <1>4, UpTo
<1>. QED  BY <1>1, <1>2, <1>5
-----------------------------------------------------------------------------
(* Bios and their segments *)

LEMMA BioFacts ==
  ASSUME NEW b \in Bios
  PROVE  /\ b.op \in {"read", "write", "special"}
         /\ b.first \in Nat /\ b.first < NSectors
         /\ b.segs \in Seq(Nat \ {0}) /\ b.segs \in Seq(Nat) /\ b.segs # <<>>
         /\ Count(b) \in Nat /\ b.first + Count(b) <= NSectors
         /\ [op |-> b.op, first |-> b.first, count |-> Count(b)] \in Requests
         /\ b.op # "special" => b.segs \in Shapes
<1>1. NSectors \in Nat \ {0}  BY SectorsAssumption
<1>2. \/ b \in [op : {"read", "write"}, first : 0..NSectors - 1, segs : Shapes]
      \/ b \in [op : {"special"}, first : {0}, segs : {<<1>>}]
  BY DEF Bios
<1>3. b.segs \in Shapes \/ b.segs = <<1>>  BY <1>2
<1>4. b.segs \in Seq(Nat \ {0}) /\ b.segs # <<>>
  <2>1. <<1>> \in Seq(Nat \ {0}) /\ <<1>> # <<>>  OBVIOUS
  <2>. QED  BY <1>3, <2>1, ShapesAssumption
<1>5. b.segs \in Seq(Nat)
  <2>1. b.segs \in [1..Len(b.segs) -> Nat \ {0}] /\ Len(b.segs) \in Nat  BY <1>4
  <2>2. b.segs \in [1..Len(b.segs) -> Nat]  BY <2>1
  <2>. QED  BY <2>1, <2>2
<1>6. Count(b) \in Nat
  <2>1. Len(b.segs) \in 0..Len(b.segs)  BY <1>5
  <2>. QED  BY <1>5, <2>1, OffsetNext DEF Count
<1>7. b.first + Count(b) <= NSectors  BY DEF Bios
<1>. QED  BY <1>1, <1>2, <1>4, <1>5, <1>6, <1>7 DEF Requests

\* Products, out of the way of the provers' arithmetic.
LEMMA ProductNat == ASSUME NEW i \in Nat, NEW c \in Nat PROVE i * c \in Nat
BY Z3

LEMMA SegmentFacts ==
  ASSUME NEW b \in Bios
  PROVE  /\ Len(b.segs) \in Nat \ {0}
         /\ Offset(b, 0) = 0 /\ Offset(b, Len(b.segs)) = Count(b)
         /\ \A i \in 0..Len(b.segs) : Offset(b, i) \in Nat /\ Offset(b, i) <= Count(b)
         /\ \A i \in 0..Len(b.segs) - 1 :
              /\ b.segs[i + 1] \in Nat \ {0}
              /\ Offset(b, i + 1) = Offset(b, i) + b.segs[i + 1]
              /\ Offset(b, i) + b.segs[i + 1] <= Count(b)
              /\ SegmentSectors(b, i) \in 1..b.segs[i + 1]
              /\ SegmentSector(b, i) \in Nat
<1>1. b.segs \in Seq(Nat \ {0}) /\ b.segs \in Seq(Nat) /\ b.segs # <<>> /\ b.first \in Nat
  BY BioFacts
<1>2. Len(b.segs) \in Nat \ {0}  BY <1>1
<1>3. \A i \in 0..Len(b.segs) - 1 : i + 1 \in 1..Len(b.segs) /\ i + 1 \in 0..Len(b.segs)  BY <1>2
<1>4. \A i \in 1..Len(b.segs) : b.segs[i] \in Nat \ {0}  BY <1>1
<1>5. \A i \in 0..Len(b.segs) : Offset(b, i) = OffsetIn(b.segs, i)  BY DEF Offset, OffsetIn
<1>6. \A i \in 0..Len(b.segs) : Offset(b, i) \in Nat /\ Offset(b, i) <= Count(b)
  BY <1>1, <1>5, OffsetNext, OffsetsGrow DEF Count
<1>7. Offset(b, 0) = 0 /\ Offset(b, Len(b.segs)) = Count(b)
  <2>1. 0 \in 0..Len(b.segs) /\ Len(b.segs) \in 0..Len(b.segs)  BY <1>2
  <2>. QED  BY <1>1, <1>5, <2>1, OffsetNext DEF Count
<1>8. ASSUME NEW i \in 0..Len(b.segs) - 1
      PROVE  /\ b.segs[i + 1] \in Nat \ {0}
             /\ Offset(b, i + 1) = Offset(b, i) + b.segs[i + 1]
             /\ Offset(b, i) + b.segs[i + 1] <= Count(b)
             /\ SegmentSectors(b, i) \in 1..b.segs[i + 1]
             /\ SegmentSector(b, i) \in Nat
  <2>1. i \in Nat /\ i \in 0..Len(b.segs) /\ i + 1 \in 0..Len(b.segs) /\ 1 \in 1..Len(b.segs)
    BY <1>2
  <2>2. b.segs[i + 1] \in Nat \ {0} /\ b.segs[1] \in Nat \ {0}  BY <1>3, <1>4, <2>1
  <2>3. Offset(b, i + 1) = Offset(b, i) + b.segs[i + 1]  BY <1>1, <1>5, <2>1, OffsetNext
  <2>4. Offset(b, i) + b.segs[i + 1] <= Count(b)  BY <1>6, <2>1, <2>3
  <2>5. i * b.segs[1] \in Nat  BY <2>1, <2>2, ProductNat
  <2>6. SegmentSector(b, i) \in Nat  BY <1>1, <2>5 DEF SegmentSector, CurSectors
  <2>7. SegmentSectors(b, i) \in 1..b.segs[i + 1]  BY <2>2 DEF SegmentSectors, CurSectors
  <2>. QED  BY <2>2, <2>3, <2>4, <2>6, <2>7
<1>. QED  BY <1>2, <1>6, <1>7, <1>8

\* Segments of one length stand where the driver looks for them.
EqualSegments == \A s \in Shapes : \A i \in DOMAIN s : s[i] = s[1]

LEMMA EqualFacts ==
  ASSUME EqualSegments, NEW b \in Bios, b.op # "special", NEW i \in 0..Len(b.segs) - 1
  PROVE  SegmentSector(b, i) = b.first + Offset(b, i) /\ SegmentSectors(b, i) = b.segs[i + 1]
<1>1. b.segs \in Shapes /\ b.segs \in Seq(Nat) /\ b.segs # <<>> /\ Len(b.segs) \in Nat
  <2>1. b.segs \in Seq(Nat) /\ b.segs # <<>>  BY BioFacts
  <2>2. b.segs \in Shapes  BY BioFacts
  <2>. QED  BY <2>1, <2>2
<1>2. i \in 0..Len(b.segs) /\ i + 1 \in DOMAIN b.segs  BY <1>1
<1>3. b.segs[i + 1] = b.segs[1]  BY <1>1, <1>2 DEF EqualSegments
<1>4. Offset(b, i) = i * b.segs[1]  BY <1>1, <1>2, OffsetsEqual DEF Offset, OffsetIn, EqualSegments
<1>. QED  BY <1>3, <1>4 DEF SegmentSector, SegmentSectors, CurSectors

\* A transfer that stays inside the bio stays inside disk and buffer.
LEMMA TransferTypes ==
  ASSUME TypeOK, NEW p \in Procs, NEW c \in Nat, buffer[p] \in [1..c -> Byte],
         NEW sector \in Nat, NEW m \in Nat \ {0}, NEW n \in Nat, m + n - 1 <= c,
         Transfer(p, sector, m, n)
  PROVE  /\ data' \in [0..NSectors - 1 -> Byte]
         /\ buffer' \in [Procs -> Seq(Byte)] /\ buffer'[p] \in [1..c -> Byte]
         /\ \A q \in Procs : q # p => buffer'[q] = buffer[q]
<1>1. NSectors \in Nat \ {0}  BY SectorsAssumption
<1>2. data \in [0..NSectors - 1 -> Byte] /\ buffer \in [Procs -> Seq(Byte)]  BY DEF TypeOK
<1>3. CASE UNCHANGED <<data, buffer>>  BY <1>2, <1>3
<1>4. CASE data' = [s \in DOMAIN data |-> IF sector <= s /\ s < sector + n
                                           THEN buffer[p][m + s - sector] ELSE data[s]]
           /\ UNCHANGED buffer
  <2>1. ASSUME NEW s \in 0..NSectors - 1, sector <= s, s < sector + n
        PROVE  buffer[p][m + s - sector] \in Byte
    <3>1. m + s - sector \in 1..c  BY <1>1, <2>1
    <3>. QED  BY <3>1
  <2>2. data' \in [0..NSectors - 1 -> Byte]  BY <1>2, <1>4, <2>1
  <2>. QED  BY <1>2, <1>4, <2>2
<1>5. CASE /\ sector + n <= NSectors
           /\ buffer' = [buffer EXCEPT ![p] =
                [j \in DOMAIN buffer[p] |-> IF m <= j /\ j < m + n
                                            THEN data[sector + j - m] ELSE buffer[p][j]]]
           /\ UNCHANGED data
  <2>1. ASSUME NEW j \in 1..c, m <= j, j < m + n PROVE data[sector + j - m] \in Byte
    <3>1. sector + j - m \in 0..NSectors - 1  BY <1>1, <1>5, <2>1
    <3>. QED  BY <1>2, <3>1
  <2>2. DOMAIN buffer[p] = 1..c  OBVIOUS
  <2>3. buffer'[p] \in [1..c -> Byte]  BY <1>2, <1>5, <2>1, <2>2
  <2>4. buffer'[p] \in Seq(Byte)  BY <2>3
  <2>. QED  BY <1>2, <1>5, <2>3, <2>4
<1>. QED  BY <1>1, <1>3, <1>4, <1>5 DEF Transfer
-----------------------------------------------------------------------------
(* What the queue and the processes keep *)

Underway(p) == pc[p] \in {"waiting", "xfer", "done"}

\* A bio has its memory until it is over, and what was moved of it ends in a
\* segment or at the end.
BioHeld(p) ==
  Underway(p) =>
    /\ bio[p] \in Bios /\ buffer[p] \in [1..Count(bio[p]) -> Byte]
    /\ at[p][1] \in 0..Len(bio[p].segs)
    /\ IF at[p][1] = Len(bio[p].segs) THEN at[p][2] = 0
       ELSE at[p][2] < SegmentSectors(bio[p], at[p][1])
    /\ pc[p] = "waiting" => at[p][2] = 0 /\ (mode = "simple" => at[p][1] < Len(bio[p].segs))
    /\ pc[p] = "xfer" => bio[p].op # "special" /\ mode = "noqueue"

BiosHeld == \A p \in Procs : BioHeld(p)

\* Each request is of processes that wait, and each waits in one place.
Queued ==
  /\ \A i \in DOMAIN queue :
       /\ queue[i] # <<>>
       /\ \A j \in DOMAIN queue[i] : pc[queue[i][j]] = "waiting"
  /\ \A i, k \in DOMAIN queue : \A j \in DOMAIN queue[i], l \in DOMAIN queue[k] :
       queue[i][j] = queue[k][l] => i = k /\ j = l

IoInv == TypeOK /\ BiosHeld /\ Queued

\* Steps by what they do: those that leave the bios and the queue alone,
Calls(p) ==
  OpenBegin(p) \/ DelTimerSync(p) \/ Open(p) \/ ReleaseBegin(p) \/ Release(p)
Kernel == Expire \/ Invalidate \/ Unplug \/ QueueEmpty

\* and those that do not.
Transfers ==
  \/ \E p \in Procs : Submit(p) \/ Return(p) \/ MakeRequest(p) \/ BioEndio(p)
  \/ Skip \/ Simple \/ XferRequest \/ FullEnd

LEMMA StepKinds == ASSUME Next PROVE (\E p \in Procs : Calls(p)) \/ Kernel \/ Transfers
BY DEF Next, Proceed, Locked, RequestFn, Calls, Kernel, Transfers

LEMMA TypesInit == Init => TypeOK /\ BiosHeld /\ Queued
<1>1. SUFFICES ASSUME Init PROVE TypeOK /\ BiosHeld /\ Queued  OBVIOUS
<1>2. Blank \in [0..NSectors - 1 -> Byte]  BY SectorsAssumption DEF Blank
<1>3. <<>> \in Seq(Byte) /\ <<>> \in Seq(Seq(Procs))  OBVIOUS
<1>4. TypeOK  BY <1>1, <1>2, <1>3 DEF Init, TypeOK, Locations
<1>. QED  BY <1>1, <1>4 DEF Init, BiosHeld, BioHeld, Underway, Queued

LEMMA IoKept ==
  ASSUME BiosHeld, Queued, TypeOK, UNCHANGED <<mode, io>>,
         \A p \in Procs : IF Underway(p) THEN pc'[p] = pc[p] ELSE ~Underway(p)'
  PROVE  BiosHeld' /\ Queued'
<1>1. UNCHANGED <<bio, at, buffer, queue, mode>>  BY DEF io
<1>2. ASSUME NEW p \in Procs PROVE BioHeld(p)'
  BY <1>1 DEF BiosHeld, BioHeld, Underway
<1>3. \A p \in Procs : pc[p] = "waiting" => pc'[p] = "waiting"  BY DEF Underway
<1>4. \A i \in DOMAIN queue : \A j \in DOMAIN queue[i] : queue[i][j] \in Procs  BY DEF TypeOK
<1>5. Queued'  BY <1>1, <1>3, <1>4 DEF Queued
<1>. QED  BY <1>2, <1>5 DEF BiosHeld

LEMMA GotoIo ==
  ASSUME TypeOK, BiosHeld, Queued, NEW p \in Procs, NEW from, NEW to, Goto(p, from, to),
         {from, to} \cap {"waiting", "xfer", "done"} = {}, UNCHANGED <<mode, io>>
  PROVE  BiosHeld' /\ Queued'
<1>1. pc' = [pc EXCEPT ![p] = to] /\ pc[p] = from /\ DOMAIN pc = Procs  BY DEF Goto, TypeOK
<1>2. \A q \in Procs : IF Underway(q) THEN pc'[q] = pc[q] ELSE ~Underway(q)'
  BY <1>1 DEF Underway
<1>. QED  BY <1>2, IoKept

\* users never falls below the number of the processes that have the disk open.
UsersCount == IsFiniteSet(Opened) /\ users = Cardinality(Opened)

LEMMA CallsTypes ==
  ASSUME TypeOK, UsersCount, NEW p \in Procs, Calls(p)
  PROVE  TypeOK'
<1> USE DEF TypeOK, Goto, Locations, disk, io
<1>1. CASE OpenBegin(p)  BY <1>1 DEF OpenBegin, Down
<1>2. CASE DelTimerSync(p)  BY <1>2 DEF DelTimerSync
<1>3. CASE Open(p)
  <2>1. Blank \in [0..NSectors - 1 -> Byte]  BY SectorsAssumption DEF Blank
  <2>2. data' \in [0..NSectors - 1 -> Byte] /\ media_change' \in BOOLEAN
    BY <1>3, <2>1 DEF Open, CheckDiskChange
  <2>. QED  BY <1>3, <2>2 DEF Open, Up
<1>4. CASE ReleaseBegin(p)  BY <1>4 DEF ReleaseBegin, Down
<1>5. CASE Release(p)
  <2>1. p \in Opened  BY <1>5 DEF Release, Opened
  <2>2. users # 0  BY <2>1, FS_EmptySet DEF UsersCount
  <2>3. users - 1 \in Nat /\ timer' \in BOOLEAN  BY <1>5, <2>2 DEF Release
  <2>. QED  BY <1>5, <2>3 DEF Release, Up
<1>. QED  BY <1>1, <1>2, <1>3, <1>4, <1>5 DEF Calls

LEMMA KernelTypes == ASSUME TypeOK, Kernel PROVE TypeOK'
<1> USE DEF TypeOK, disk, io
<1>1. CASE Expire  BY <1>1 DEF Expire
<1>2. CASE Invalidate  BY <1>2 DEF Invalidate
<1>3. CASE Unplug  BY <1>3 DEF Unplug
<1>4. CASE QueueEmpty  BY <1>4 DEF QueueEmpty
<1>. QED  BY <1>1, <1>2, <1>3, <1>4 DEF Kernel

LEMMA CallsIo ==
  ASSUME TypeOK, BiosHeld, Queued, NEW p \in Procs, Calls(p) PROVE BiosHeld' /\ Queued'
BY GotoIo DEF Calls, OpenBegin, DelTimerSync, Open, ReleaseBegin, Release, io

LEMMA KernelIo == ASSUME TypeOK, BiosHeld, Queued, Kernel PROVE BiosHeld' /\ Queued'
<1>1. UNCHANGED <<mode, pc, io>>
  BY DEF Kernel, Expire, Invalidate, Unplug, QueueEmpty
<1>2. \A p \in Procs : IF Underway(p) THEN pc'[p] = pc[p] ELSE ~Underway(p)'
  BY <1>1 DEF Underway
<1>. QED  BY <1>1, <1>2, IoKept
-----------------------------------------------------------------------------
(* The queue *)

Inserted(s, t, i, e) ==
  \A l \in 1..Len(s) + 1 : t[l] = IF l < i THEN s[l] ELSE IF l = i THEN e ELSE s[l - 1]

LEMMA InsertIs ==
  ASSUME NEW S, NEW s \in Seq(S), NEW e \in S, NEW i \in 1..Len(s) + 1
  PROVE  /\ InsertAt(s, i, e) \in Seq(S) /\ Len(InsertAt(s, i, e)) = Len(s) + 1
         /\ Inserted(s, InsertAt(s, i, e), i, e)
<1>1. /\ SubSeq(s, 1, i - 1) \in Seq(S) /\ Len(SubSeq(s, 1, i - 1)) = i - 1
      /\ \A l \in 1..i - 1 : SubSeq(s, 1, i - 1)[l] = s[l]
  OBVIOUS
<1>2. /\ SubSeq(s, i, Len(s)) \in Seq(S) /\ Len(SubSeq(s, i, Len(s))) = Len(s) - i + 1
      /\ \A l \in 1..Len(s) - i + 1 : SubSeq(s, i, Len(s))[l] = s[i + l - 1]
  OBVIOUS
<1> DEFINE u == SubSeq(s, 1, i - 1) \o <<e>>
<1>3. /\ u \in Seq(S) /\ Len(u) = i
      /\ \A l \in 1..i : u[l] = IF l < i THEN s[l] ELSE e
  <2>1. PICK a \in Seq(S) : a = SubSeq(s, 1, i - 1) /\ Len(a) = i - 1
                            /\ \A l \in 1..i - 1 : a[l] = s[l]
    BY <1>1
  <2>2. <<e>> \in Seq(S) /\ Len(<<e>>) = 1 /\ <<e>>[1] = e  OBVIOUS
  <2>3. /\ u \in Seq(S) /\ Len(u) = Len(a) + 1
        /\ \A l \in 1..Len(a) + 1 : u[l] = IF l <= Len(a) THEN a[l] ELSE <<e>>[l - Len(a)]
    BY <2>1, <2>2, ConcatProperties
  <2>4. Len(a) + 1 = i /\ i \in Nat  BY <2>1
  <2>5. ASSUME NEW l \in 1..i PROVE u[l] = IF l < i THEN s[l] ELSE e
    <3>1. CASE l < i  BY <2>1, <2>3, <2>4, <3>1
    <3>2. CASE l = i  BY <2>2, <2>3, <2>4, <3>2
    <3>. QED  BY <2>4, <3>1, <3>2
  <2>. QED  BY <2>3, <2>4, <2>5
<1>4. InsertAt(s, i, e) = u \o SubSeq(s, i, Len(s))  BY DEF InsertAt
<1> HIDE DEF u
<1>. QED  BY <1>2, <1>3, <1>4 DEF Inserted

\* Who is in a request is in no other place, and waits.
LEMMA EnqueueKeeps ==
  ASSUME TypeOK, Queued, NEW p \in Procs, pc[p] = "idle", NEW b, Enqueue(p, b),
         pc' = [pc EXCEPT ![p] = "waiting"]
  PROVE  queue' \in Seq(Seq(Procs)) /\ Queued'
<1>1. queue \in Seq(Seq(Procs)) /\ pc \in [Procs -> Locations]  BY DEF TypeOK
<1>2. \A i \in DOMAIN queue : \A j \in DOMAIN queue[i] : queue[i][j] \in Procs /\ queue[i][j] # p
  BY <1>1 DEF Queued
<1>3. \A i \in DOMAIN queue : \A j \in DOMAIN queue[i] : pc'[queue[i][j]] = "waiting"
  BY <1>1, <1>2 DEF Queued
<1>4. pc'[p] = "waiting"  BY <1>1
<1>5. ASSUME NEW i \in 1..Len(queue) + 1, queue' = InsertAt(queue, i, <<p>>)
      PROVE  queue' \in Seq(Seq(Procs)) /\ Queued'
  <2>1. <<p>> \in Seq(Procs) /\ <<p>> # <<>> /\ DOMAIN <<p>> = {1}  OBVIOUS
  <2>2. /\ queue' \in Seq(Seq(Procs)) /\ DOMAIN queue' = 1..Len(queue) + 1
        /\ \A l \in 1..Len(queue) + 1 :
             queue'[l] = IF l < i THEN queue[l] ELSE IF l = i THEN <<p>> ELSE queue[l - 1]
    <3>1. Len(queue) \in Nat /\ DOMAIN queue' = 1..Len(queue')
          /\ queue' \in Seq(Seq(Procs)) /\ Len(queue') = Len(queue) + 1
      <4>1. InsertAt(queue, i, <<p>>) \in Seq(Seq(Procs)) /\ Len(InsertAt(queue, i, <<p>>)) = Len(queue) + 1
        BY <1>1, <1>5, <2>1, InsertIs
      <4>. QED  BY <1>1, <1>5, <4>1
    <3>2. \A l \in 1..Len(queue) + 1 :
            queue'[l] = IF l < i THEN queue[l] ELSE IF l = i THEN <<p>> ELSE queue[l - 1]
      <4>1. queue \in Seq(Seq(Procs)) /\ <<p>> \in Seq(Procs) /\ i \in 1..Len(queue) + 1
        BY <1>1, <1>5, <2>1
      <4>2. Inserted(queue, InsertAt(queue, i, <<p>>), i, <<p>>)  BY <4>1, InsertIs
      <4>. QED  BY <1>5, <4>2 DEF Inserted
    <3>. QED  BY <3>1, <3>2
  <2> DEFINE old(l) == IF l < i THEN l ELSE l - 1
  <2>3. \A l \in DOMAIN queue' : l # i => old(l) \in DOMAIN queue /\ queue'[l] = queue[old(l)]
    BY <1>1, <2>2
  <2>4. \A l, k \in DOMAIN queue' : l # i /\ k # i /\ old(l) = old(k) => l = k
    BY <1>1, <2>2
  <2>5. queue'[i] = <<p>>  BY <2>2
  <2> HIDE DEF old
  <2>6. \A l \in DOMAIN queue' : /\ queue'[l] # <<>>
                                 /\ \A j \in DOMAIN queue'[l] : pc'[queue'[l][j]] = "waiting"
    BY <1>3, <1>4, <2>1, <2>3, <2>5 DEF Queued
  <2>7. ASSUME NEW l \in DOMAIN queue', NEW k \in DOMAIN queue',
               NEW j \in DOMAIN queue'[l], NEW h \in DOMAIN queue'[k], queue'[l][j] = queue'[k][h]
        PROVE  l = k /\ j = h
    <3>1. CASE l = i /\ k = i  BY <2>1, <2>5, <3>1
    <3>2. CASE l = i /\ k # i  BY <1>2, <2>1, <2>3, <2>5, <2>7, <3>2
    <3>3. CASE l # i /\ k = i  BY <1>2, <2>1, <2>3, <2>5, <2>7, <3>3
    <3>4. CASE l # i /\ k # i  BY <2>3, <2>4, <2>7, <3>4 DEF Queued
    <3>. QED  BY <3>1, <3>2, <3>3, <3>4
  <2>. QED  BY <2>2, <2>6, <2>7 DEF Queued
<1>6. ASSUME NEW i \in 1..Len(queue), queue' = [queue EXCEPT ![i] = Append(@, p)]
      PROVE  queue' \in Seq(Seq(Procs)) /\ Queued'
  <2>1. queue[i] \in Seq(Procs) /\ i \in DOMAIN queue  BY <1>1, <1>6
  <2>2. PICK n \in Nat : n = Len(queue[i]) /\ DOMAIN queue[i] = 1..n  BY <2>1
  <2>3. /\ queue'[i] = Append(queue[i], p) /\ DOMAIN queue' = DOMAIN queue
        /\ \A l \in DOMAIN queue : l # i => queue'[l] = queue[l]
    BY <1>1, <1>6, <2>1
  <2>4. /\ Append(queue[i], p) \in Seq(Procs) /\ Append(queue[i], p) # <<>>
        /\ DOMAIN Append(queue[i], p) = 1..n + 1
        /\ \A j \in 1..n : Append(queue[i], p)[j] = queue[i][j]
        /\ Append(queue[i], p)[n + 1] = p
    BY <2>1, <2>2
  <2>5. queue' \in Seq(Seq(Procs))  BY <1>1, <1>6, <2>1, <2>4
  <2> DEFINE new(l, j) == l = i /\ j = n + 1
  <2>6. \A l \in DOMAIN queue' : \A j \in DOMAIN queue'[l] :
          IF new(l, j) THEN queue'[l][j] = p
          ELSE j \in DOMAIN queue[l] /\ queue'[l][j] = queue[l][j]
    BY <2>2, <2>3, <2>4
  <2>7. \A l \in DOMAIN queue' : /\ queue'[l] # <<>>
                                 /\ \A j \in DOMAIN queue'[l] : pc'[queue'[l][j]] = "waiting"
    <3> HIDE DEF new
    <3>1. \A l \in DOMAIN queue' : queue'[l] # <<>>  BY <2>3, <2>4 DEF Queued
    <3>. QED  BY <1>3, <1>4, <2>3, <2>6, <3>1
  <2>8. ASSUME NEW l \in DOMAIN queue', NEW k \in DOMAIN queue',
               NEW j \in DOMAIN queue'[l], NEW h \in DOMAIN queue'[k], queue'[l][j] = queue'[k][h]
        PROVE  l = k /\ j = h
    <3>1. CASE new(l, j) /\ new(k, h)  BY <3>1
    <3>2. CASE new(l, j) /\ ~new(k, h)  BY <1>2, <2>3, <2>6, <2>8, <3>2
    <3>3. CASE ~new(l, j) /\ new(k, h)  BY <1>2, <2>3, <2>6, <2>8, <3>3
    <3>4. CASE ~new(l, j) /\ ~new(k, h)
      <4>1. queue[l][j] = queue[k][h] /\ j \in DOMAIN queue[l] /\ h \in DOMAIN queue[k]
        BY <2>6, <2>8, <3>4
      <4>. QED  BY <2>3, <4>1 DEF Queued
    <3>. QED  BY <3>1, <3>2, <3>3, <3>4
  <2>. QED  BY <2>5, <2>7, <2>8 DEF Queued
<1>. QED  BY <1>5, <1>6 DEF Enqueue

\* The bios that are over are the first ones of the first request.
Over(k) == {queue[1][i] : i \in 1..k}

LEMMA CompletedKeeps ==
  ASSUME TypeOK, Queued, queue # <<>>, NEW k \in 0..Len(queue[1]), Completed(k)
  PROVE  /\ queue' \in Seq(Seq(Procs)) /\ Queued'
         /\ pc' \in [Procs -> Locations]
         /\ \A p \in Procs : pc'[p] = IF p \in Over(k) THEN "done" ELSE pc[p]
         /\ \A p \in Over(k) : p \in Procs /\ pc[p] = "waiting"
<1>1. queue \in Seq(Seq(Procs)) /\ pc \in [Procs -> Locations]  BY DEF TypeOK
<1>2. 1 \in DOMAIN queue /\ queue[1] \in Seq(Procs) /\ queue[1] # <<>>  BY <1>1 DEF Queued
<1>3. PICK n \in Nat : n = Len(queue[1]) /\ DOMAIN queue[1] = 1..n /\ k \in 0..n  BY <1>2
<1>4. PICK m \in Nat : m = Len(queue) /\ DOMAIN queue = 1..m /\ m > 0  BY <1>1, <1>2
<1>5. pc' = [p \in Procs |-> IF p \in Over(k) THEN "done" ELSE pc[p]]
  BY DEF Completed, Over
<1>6. pc' \in [Procs -> Locations]  BY <1>1, <1>5 DEF Locations
<1>7. \A p \in Over(k) : p \in Procs /\ pc[p] = "waiting"
  <2>1. \A i \in 1..k : i \in DOMAIN queue[1]  BY <1>3
  <2>. QED  BY <1>2, <2>1 DEF Over, Queued
<1>8. \A i \in DOMAIN queue : \A j \in DOMAIN queue[i] :
        ~(i = 1 /\ j <= k) => pc'[queue[i][j]] = "waiting"
  <2>1. ASSUME NEW i \in DOMAIN queue, NEW j \in DOMAIN queue[i], ~(i = 1 /\ j <= k)
        PROVE  pc'[queue[i][j]] = "waiting"
    <3>1. queue[i][j] \in Procs /\ pc[queue[i][j]] = "waiting"  BY <1>1, <2>1 DEF Queued
    <3>2. queue[i][j] \notin Over(k)
      <4>1. SUFFICES ASSUME NEW h \in 1..k, queue[i][j] = queue[1][h] PROVE FALSE  BY DEF Over
      <4>2. h \in DOMAIN queue[1] /\ h <= k  BY <1>3
      <4>3. i = 1 /\ j = h  BY <1>2, <2>1, <4>1, <4>2 DEF Queued
      <4>. QED  BY <2>1, <4>2, <4>3
    <3>. QED  BY <1>5, <3>1, <3>2
  <2>. QED  BY <2>1
<1>9. CASE k = n
  <2>1. queue' = Tail(queue)  BY <1>3, <1>9 DEF Completed
  <2>2. queue' \in Seq(Seq(Procs)) /\ DOMAIN queue' = 1..m - 1
        /\ \A i \in 1..m - 1 : queue'[i] = queue[i + 1] /\ i + 1 \in DOMAIN queue /\ i + 1 # 1
    BY <1>1, <1>4, <2>1
  <2>3. Queued'
    <3>1. \A i \in DOMAIN queue' : /\ queue'[i] # <<>>
                                   /\ \A j \in DOMAIN queue'[i] : pc'[queue'[i][j]] = "waiting"
      BY <1>8, <2>2 DEF Queued
    <3>2. ASSUME NEW i \in DOMAIN queue', NEW l \in DOMAIN queue',
                 NEW j \in DOMAIN queue'[i], NEW h \in DOMAIN queue'[l], queue'[i][j] = queue'[l][h]
          PROVE  i = l /\ j = h
      <4>1. i + 1 = l + 1 /\ j = h  BY <2>2, <3>2 DEF Queued
      <4>. QED  BY <2>2, <4>1
    <3>. QED  BY <3>1, <3>2 DEF Queued
  <2>. QED  BY <1>5, <1>6, <1>7, <2>2, <2>3
<1>10. CASE k # n
  <2> DEFINE rest == SubSeq(queue[1], k + 1, n)
  <2>1. queue' = [queue EXCEPT ![1] = rest]  BY <1>3, <1>10 DEF Completed
  <2>2. rest \in Seq(Procs) /\ rest # <<>> /\ DOMAIN rest = 1..n - k
        /\ \A j \in 1..n - k : rest[j] = queue[1][j + k] /\ j + k \in DOMAIN queue[1]
    <3>1. PICK q \in Seq(Procs) : q = queue[1] /\ Len(q) = n /\ DOMAIN q = 1..n  BY <1>2, <1>3
    <3>2. k + 1 \in 1..n  BY <1>3, <1>10
    <3>3. /\ SubSeq(q, k + 1, n) \in Seq(Procs) /\ Len(SubSeq(q, k + 1, n)) = n - k
          /\ \A j \in 1..n - k : SubSeq(q, k + 1, n)[j] = q[k + 1 + j - 1]
      BY <3>1, <3>2
    <3>4. DOMAIN rest = 1..n - k /\ rest # <<>> /\ rest \in Seq(Procs)  BY <3>1, <3>2, <3>3
    <3>5. \A j \in 1..n - k : k + 1 + j - 1 = j + k /\ j + k \in 1..n  BY <1>3
    <3>. QED  BY <3>1, <3>3, <3>4, <3>5
  <2> HIDE DEF rest
  <2>3. /\ queue' \in Seq(Seq(Procs)) /\ DOMAIN queue' = DOMAIN queue /\ queue'[1] = rest
        /\ \A i \in DOMAIN queue : i # 1 => queue'[i] = queue[i]
    BY <1>1, <1>2, <2>1, <2>2
  <2> DEFINE old(i, j) == IF i = 1 THEN j + k ELSE j
  <2>4. \A i \in DOMAIN queue' : \A j \in DOMAIN queue'[i] :
          /\ old(i, j) \in DOMAIN queue[i] /\ queue'[i][j] = queue[i][old(i, j)]
          /\ ~(i = 1 /\ old(i, j) <= k)
    BY <1>3, <2>2, <2>3
  <2>5. ASSUME NEW i \in DOMAIN queue', NEW j \in DOMAIN queue'[i], NEW h \in DOMAIN queue'[i],
               old(i, j) = old(i, h)
        PROVE  j = h
    <3>1. CASE i = 1
      <4>1. j \in Int /\ h \in Int  BY <1>3, <2>2, <2>3, <3>1
      <4>. QED  BY <1>3, <2>5, <3>1, <4>1
    <3>2. CASE i # 1  BY <2>5, <3>2
    <3>. QED  BY <3>1, <3>2
  <2> HIDE DEF old
  <2>6. Queued'
    <3>1. \A i \in DOMAIN queue' : /\ queue'[i] # <<>>
                                   /\ \A j \in DOMAIN queue'[i] : pc'[queue'[i][j]] = "waiting"
      BY <1>8, <2>2, <2>3, <2>4 DEF Queued
    <3>2. ASSUME NEW i \in DOMAIN queue', NEW l \in DOMAIN queue',
                 NEW j \in DOMAIN queue'[i], NEW h \in DOMAIN queue'[l], queue'[i][j] = queue'[l][h]
          PROVE  i = l /\ j = h
      <4>1. i = l /\ old(i, j) = old(l, h)  BY <2>3, <2>4, <3>2 DEF Queued
      <4>. QED  BY <2>5, <4>1
    <3>. QED  BY <3>1, <3>2 DEF Queued
  <2>. QED  BY <1>5, <1>6, <1>7, <2>3, <2>6
<1>. QED  BY <1>9, <1>10
-----------------------------------------------------------------------------
(* The transfers *)

LEMMA BioKept ==
  ASSUME NEW p \in Procs, BioHeld(p), mode' = mode, pc'[p] = pc[p], bio'[p] = bio[p],
         at'[p] = at[p], buffer'[p] = buffer[p]
  PROVE  BioHeld(p)'
BY DEF BioHeld, Underway

\* Where a bio stands, and what is left of its segment.
LEMMA AtFacts ==
  ASSUME TypeOK, NEW p \in Procs, BioHeld(p), Underway(p), at[p][1] < Len(bio[p].segs)
  PROVE  /\ bio[p] \in Bios /\ buffer[p] \in [1..Count(bio[p]) -> Byte]
         /\ at[p] = <<at[p][1], at[p][2]>> /\ at[p][1] \in Nat /\ at[p][2] \in Nat
         /\ at[p][1] \in 0..Len(bio[p].segs) - 1
         /\ at[p][2] < SegmentSectors(bio[p], at[p][1])
<1>1. at[p] \in Nat \X Nat  BY DEF TypeOK
<1>2. bio[p] \in Bios  BY DEF BioHeld
<1>3. Len(bio[p].segs) \in Nat \ {0}  BY <1>2, SegmentFacts
<1>. QED  BY <1>1, <1>2, <1>3 DEF BioHeld

\* After a segment comes the next, or the end.
LEMMA NextSegment ==
  ASSUME NEW p \in Procs, NEW b \in Bios, NEW i \in 0..Len(b.segs) - 1, UNCHANGED bio,
         bio[p] = b, (b.op # "special" /\ mode' = "noqueue") \/ pc'[p] # "xfer",
         at'[p] = <<i + 1, 0>>, buffer'[p] \in [1..Count(b) -> Byte],
         pc'[p] = "waiting" /\ mode' = "simple" => i + 1 # Len(b.segs)
  PROVE  BioHeld(p)'
<1>1. Len(b.segs) \in Nat \ {0}  BY SegmentFacts
<1>2. i + 1 \in 0..Len(b.segs) /\ at'[p][1] = i + 1 /\ at'[p][2] = 0  BY <1>1
<1>3. i + 1 # Len(b.segs) => 0 < SegmentSectors(b, i + 1) /\ i + 1 < Len(b.segs)
  <2>1. SUFFICES ASSUME i + 1 # Len(b.segs) PROVE 0 < SegmentSectors(b, i + 1) /\ i + 1 < Len(b.segs)
    OBVIOUS
  <2>2. i + 1 \in 0..Len(b.segs) - 1  BY <1>1, <2>1
  <2>3. b.segs[i + 1 + 1] \in Nat /\ SegmentSectors(b, i + 1) \in 1..b.segs[i + 1 + 1]
    BY <2>2, SegmentFacts
  <2>. QED  BY <1>1, <2>2, <2>3
<1>. QED  BY <1>2, <1>3 DEF BioHeld

\* A step that moves sectors of p.
Moves(p, i, k, sector, n) ==
  /\ i \in 0..Len(bio[p].segs) - 1 /\ k \in Nat /\ sector \in Nat /\ n \in Nat
  /\ k + n <= bio[p].segs[i + 1]
  /\ Transfer(p, sector, Offset(bio[p], i) + k + 1, n)

LEMMA MovesTypes ==
  ASSUME TypeOK, NEW p \in Procs, BioHeld(p), Underway(p), NEW i, NEW k, NEW sector, NEW n,
         Moves(p, i, k, sector, n)
  PROVE  /\ data' \in [0..NSectors - 1 -> Byte]
         /\ buffer' \in [Procs -> Seq(Byte)] /\ buffer'[p] \in [1..Count(bio[p]) -> Byte]
         /\ \A q \in Procs : q # p => buffer'[q] = buffer[q]
<1>1. bio[p] \in Bios /\ buffer[p] \in [1..Count(bio[p]) -> Byte]  BY DEF BioHeld
<1>2. i \in 0..Len(bio[p].segs) - 1 /\ k \in Nat /\ sector \in Nat /\ n \in Nat  BY DEF Moves
<1>3. /\ Offset(bio[p], i) \in Nat /\ Count(bio[p]) \in Nat /\ bio[p].segs[i + 1] \in Nat
      /\ Offset(bio[p], i) + bio[p].segs[i + 1] <= Count(bio[p])
  <2>1. Len(bio[p].segs) \in Nat /\ i \in 0..Len(bio[p].segs)  BY <1>1, <1>2, SegmentFacts
  <2>2. Offset(bio[p], i) \in Nat  BY <1>1, <2>1, SegmentFacts
  <2>3. bio[p].segs[i + 1] \in Nat /\ Offset(bio[p], i) + bio[p].segs[i + 1] <= Count(bio[p])
    BY <1>1, <1>2, SegmentFacts
  <2>. QED  BY <1>1, <2>2, <2>3, BioFacts
<1>4. PICK m \in Nat \ {0} : m = Offset(bio[p], i) + k + 1  BY <1>2, <1>3
<1>5. m + n - 1 <= Count(bio[p])
  <2>1. k + n <= bio[p].segs[i + 1]  BY DEF Moves
  <2>2. PICK o \in Nat : o = Offset(bio[p], i)  BY <1>3
  <2>3. PICK c \in Nat : c = Count(bio[p])  BY <1>3
  <2>4. PICK s \in Nat : s = bio[p].segs[i + 1]  BY <1>3
  <2>5. k + n <= s /\ o + s <= c /\ m = o + k + 1  BY <1>3, <1>4, <2>1, <2>2, <2>3, <2>4
  <2>6. m + n - 1 <= c  BY <1>2, <2>5
  <2>. QED  BY <2>3, <2>6
<1>6. Transfer(p, sector, m, n)  BY <1>4 DEF Moves
<1>. QED  BY <1>1, <1>2, <1>3, <1>5, <1>6, TransferTypes

\* What each of the three does is such a move.
LEMMA MakeRequestMoves ==
  ASSUME TypeOK, BiosHeld, NEW p \in Procs, MakeRequest(p)
  PROVE  /\ Underway(p) /\ at[p][1] < Len(bio[p].segs)
         /\ Moves(p, at[p][1], at[p][2], SegmentSector(bio[p], at[p][1]) + at[p][2], 1)
<1>1. Underway(p) /\ BioHeld(p) /\ at[p][1] < Len(bio[p].segs)
  BY DEF MakeRequest, Underway, BiosHeld
<1>2. /\ bio[p] \in Bios /\ at[p][1] \in 0..Len(bio[p].segs) - 1 /\ at[p][2] \in Nat
      /\ at[p][2] < SegmentSectors(bio[p], at[p][1])
  BY <1>1, AtFacts
<1>3. /\ bio[p].segs[at[p][1] + 1] \in Nat /\ SegmentSector(bio[p], at[p][1]) \in Nat
      /\ SegmentSectors(bio[p], at[p][1]) \in 1..bio[p].segs[at[p][1] + 1]
  BY <1>2, SegmentFacts
<1>4. at[p][2] + 1 <= bio[p].segs[at[p][1] + 1] /\ SegmentSector(bio[p], at[p][1]) + at[p][2] \in Nat
  BY <1>2, <1>3
<1>. QED  BY <1>1, <1>2, <1>4 DEF MakeRequest, Moves

LEMMA SimpleMoves ==
  ASSUME TypeOK, BiosHeld, Queued, Simple, NEW p, p = queue[1][1]
  PROVE  /\ p \in Procs /\ pc[p] = "waiting" /\ at[p][1] < Len(bio[p].segs) /\ at[p][2] = 0
         /\ Moves(p, at[p][1], 0, bio[p].first + Offset(bio[p], at[p][1]), bio[p].segs[at[p][1] + 1])
<1>1. 1 \in DOMAIN queue /\ queue[1] \in Seq(Procs) /\ queue[1] # <<>>
  BY DEF Simple, Queued, TypeOK
<1>2. 1 \in DOMAIN queue[1]  BY <1>1
<1>3. p \in Procs /\ pc[p] = "waiting"  BY <1>1, <1>2 DEF Queued
<1>4. Underway(p) /\ BioHeld(p) /\ at[p][1] < Len(bio[p].segs) /\ at[p][2] = 0
  BY <1>3 DEF Underway, BiosHeld, BioHeld, Simple
<1>5. bio[p] \in Bios /\ at[p][1] \in 0..Len(bio[p].segs) - 1 /\ at[p][1] \in 0..Len(bio[p].segs)
  <2>1. bio[p] \in Bios /\ at[p][1] \in 0..Len(bio[p].segs) - 1  BY <1>3, <1>4, AtFacts
  <2>. QED  BY <2>1, SegmentFacts
<1>6. bio[p].segs[at[p][1] + 1] \in Nat /\ Offset(bio[p], at[p][1]) \in Nat /\ bio[p].first \in Nat
  BY <1>5, SegmentFacts, BioFacts
<1>7. /\ bio[p].first + Offset(bio[p], at[p][1]) \in Nat
      /\ 0 + bio[p].segs[at[p][1] + 1] <= bio[p].segs[at[p][1] + 1]
      /\ Offset(bio[p], at[p][1]) + 0 + 1 = Offset(bio[p], at[p][1]) + 1
  BY <1>6
<1>. QED  BY <1>3, <1>4, <1>5, <1>6, <1>7 DEF Simple, Moves

LEMMA XferMoves ==
  ASSUME TypeOK, BiosHeld, Queued, XferRequest
  PROVE  \E p \in Procs :
           /\ pc[p] = "waiting" /\ at[p][1] < Len(bio[p].segs) /\ at[p][2] = 0
           /\ bio[p].op # "special"
           /\ at' = [at EXCEPT ![p] = <<at[p][1] + 1, 0>>]
           /\ Moves(p, at[p][1], 0, SegmentSector(bio[p], at[p][1]), SegmentSectors(bio[p], at[p][1]))
<1>1. PICK j \in 1..Len(queue[1]) :
        LET p == queue[1][j]  b == bio[p]  i == at[p][1] IN
          /\ b.op # "special" /\ i < Len(b.segs)
          /\ Transfer(p, SegmentSector(b, i), Offset(b, i) + 1, SegmentSectors(b, i))
          /\ at' = [at EXCEPT ![p] = <<i + 1, 0>>]
  BY DEF XferRequest
<1>2. 1 \in DOMAIN queue /\ queue[1] \in Seq(Procs)  BY DEF XferRequest, TypeOK
<1>3. j \in DOMAIN queue[1]  BY <1>2
<1>4. PICK p : p = queue[1][j]  OBVIOUS
<1>5. p \in Procs /\ pc[p] = "waiting"  BY <1>2, <1>3, <1>4 DEF Queued
<1>6. Underway(p) /\ BioHeld(p) /\ at[p][1] < Len(bio[p].segs) /\ at[p][2] = 0
  BY <1>1, <1>4, <1>5 DEF Underway, BiosHeld, BioHeld
<1>7. bio[p] \in Bios /\ at[p][1] \in 0..Len(bio[p].segs) - 1 /\ at[p][1] \in 0..Len(bio[p].segs)
  <2>1. bio[p] \in Bios /\ at[p][1] \in 0..Len(bio[p].segs) - 1  BY <1>5, <1>6, AtFacts
  <2>. QED  BY <2>1, SegmentFacts
<1>8. /\ bio[p].segs[at[p][1] + 1] \in Nat /\ SegmentSector(bio[p], at[p][1]) \in Nat
      /\ SegmentSectors(bio[p], at[p][1]) \in 1..bio[p].segs[at[p][1] + 1]
      /\ Offset(bio[p], at[p][1]) \in Nat
  BY <1>7, SegmentFacts
<1>9. /\ SegmentSectors(bio[p], at[p][1]) \in Nat
      /\ 0 + SegmentSectors(bio[p], at[p][1]) <= bio[p].segs[at[p][1] + 1]
      /\ Offset(bio[p], at[p][1]) + 0 + 1 = Offset(bio[p], at[p][1]) + 1
  BY <1>8
<1>10. Moves(p, at[p][1], 0, SegmentSector(bio[p], at[p][1]), SegmentSectors(bio[p], at[p][1]))
  BY <1>1, <1>4, <1>7, <1>8, <1>9 DEF Moves
<1>. QED  BY <1>1, <1>4, <1>5, <1>6, <1>10

LEMMA QueueKept ==
  ASSUME TypeOK, Queued, UNCHANGED queue, \A p \in Procs : pc[p] = "waiting" => pc'[p] = "waiting"
  PROVE  Queued'
<1>1. \A i \in DOMAIN queue : \A j \in DOMAIN queue[i] : queue[i][j] \in Procs  BY DEF TypeOK
<1>. QED  BY <1>1 DEF Queued

LEMMA SubmitIo == ASSUME IoInv, NEW p \in Procs, Submit(p) PROVE IoInv'
<1>1. TypeOK /\ BiosHeld /\ Queued  BY DEF IoInv
<1>2. PICK b \in Bios, v \in Byte :
        /\ bio' = [bio EXCEPT ![p] = b]
        /\ at' = [at EXCEPT ![p] = <<0, 0>>]
        /\ buffer' = [buffer EXCEPT ![p] = [i \in 1..Count(b) |-> v]]
        /\ IF mode = "noqueue"
           THEN /\ b.op # "special"
                /\ Goto(p, "idle", "xfer") /\ UNCHANGED queue
           ELSE /\ lock = NULL
                /\ Goto(p, "idle", "waiting") /\ Enqueue(p, b)
        /\ UNCHANGED <<mode, lock, bd_sem, disk>>
  BY DEF Submit
<1>3. /\ pc \in [Procs -> Locations] /\ bio \in [Procs -> Bios \cup {NULL}]
      /\ at \in [Procs -> Nat \X Nat] /\ buffer \in [Procs -> Seq(Byte)]
  BY <1>1 DEF TypeOK
<1>4. PICK to \in {"xfer", "waiting"} :
        /\ Goto(p, "idle", to) /\ (to = "xfer" => b.op # "special" /\ mode = "noqueue")
        /\ mode = "noqueue" => to = "xfer" /\ UNCHANGED queue
        /\ mode # "noqueue" => to = "waiting" /\ Enqueue(p, b)
  BY <1>2
<1>5. /\ pc[p] = "idle" /\ pc' = [pc EXCEPT ![p] = to] /\ pc' \in [Procs -> Locations]
      /\ pc'[p] = to /\ \A q \in Procs : q # p => pc'[q] = pc[q]
  BY <1>3, <1>4 DEF Goto, Locations
<1>6. Count(b) \in Nat /\ Len(b.segs) \in Nat \ {0} /\ 0 < SegmentSectors(b, 0)
  <2>1. Len(b.segs) \in Nat \ {0}  BY SegmentFacts
  <2>2. 0 \in 0..Len(b.segs) - 1  BY <2>1
  <2>3. b.segs[0 + 1] \in Nat /\ SegmentSectors(b, 0) \in 1..b.segs[0 + 1]  BY <2>2, SegmentFacts
  <2>4. 0 < SegmentSectors(b, 0)  BY <2>3
  <2>5. Count(b) \in Nat  BY BioFacts
  <2>. QED  BY <2>1, <2>4, <2>5
<1>7. bio' \in [Procs -> Bios \cup {NULL}] /\ bio'[p] = b /\ \A q \in Procs : q # p => bio'[q] = bio[q]
  BY <1>2, <1>3
<1>8. at' \in [Procs -> Nat \X Nat] /\ at'[p] = <<0, 0>> /\ \A q \in Procs : q # p => at'[q] = at[q]
  BY <1>2, <1>3
<1>9. /\ buffer' \in [Procs -> Seq(Byte)] /\ buffer'[p] \in [1..Count(b) -> Byte]
      /\ \A q \in Procs : q # p => buffer'[q] = buffer[q]
  <2>1. [i \in 1..Count(b) |-> v] \in [1..Count(b) -> Byte]  OBVIOUS
  <2>2. [i \in 1..Count(b) |-> v] \in Seq(Byte)  BY <1>6, <2>1
  <2>. QED  BY <1>2, <1>3, <2>1, <2>2
<1>10. mode' = mode  BY <1>2
<1>11. BioHeld(p)'
  <2>1. at'[p][1] = 0 /\ at'[p][2] = 0  BY <1>8
  <2>. QED  BY <1>4, <1>5, <1>6, <1>7, <1>9, <1>10, <2>1 DEF BioHeld
<1>12. BiosHeld'
  <2>1. ASSUME NEW q \in Procs, q # p PROVE BioHeld(q)'
    BY <1>1, <1>5, <1>7, <1>8, <1>9, <1>10, <2>1, BioKept DEF BiosHeld
  <2>. QED  BY <1>11, <2>1 DEF BiosHeld
<1>13. queue' \in Seq(Seq(Procs)) /\ Queued'
  <2>1. CASE mode = "noqueue"
    <3>1. UNCHANGED queue  BY <1>4, <2>1
    <3>2. \A q \in Procs : pc[q] = "waiting" => pc'[q] = "waiting"  BY <1>5
    <3>. QED  BY <1>1, <3>1, <3>2, QueueKept DEF TypeOK
  <2>2. CASE mode # "noqueue"  BY <1>1, <1>4, <1>5, <2>2, EnqueueKeeps
  <2>. QED  BY <2>1, <2>2
<1>14. TypeOK'  BY <1>1, <1>2, <1>5, <1>7, <1>8, <1>9, <1>13 DEF TypeOK, disk
<1>. QED  BY <1>12, <1>13, <1>14 DEF IoInv

LEMMA ReturnIo == ASSUME IoInv, NEW p \in Procs, Return(p) PROVE IoInv'
<1>1. TypeOK /\ BiosHeld /\ Queued  BY DEF IoInv
<1>2. /\ pc \in [Procs -> Locations] /\ bio \in [Procs -> Bios \cup {NULL}]
      /\ at \in [Procs -> Nat \X Nat] /\ buffer \in [Procs -> Seq(Byte)]
  BY <1>1 DEF TypeOK
<1>3. pc[p] = "done" /\ pc' = [pc EXCEPT ![p] = "idle"]  BY DEF Return, Goto
<1>4. <<>> \in Seq(Byte)  OBVIOUS
<1>5. TypeOK'  BY <1>1, <1>3, <1>4 DEF TypeOK, Return, Locations, disk
<1>6. \A q \in Procs : q # p => BioHeld(q)'
  <2>1. ASSUME NEW q \in Procs, q # p PROVE BioHeld(q)'
    <3>1. pc'[q] = pc[q] /\ bio'[q] = bio[q] /\ at'[q] = at[q] /\ buffer'[q] = buffer[q] /\ mode' = mode
      BY <1>2, <1>3, <2>1 DEF Return
    <3>. QED  BY <1>1, <3>1, BioKept DEF BiosHeld
  <2>. QED  BY <2>1
<1>7. BioHeld(p)'  BY <1>2, <1>3 DEF BioHeld, Underway
<1>8. Queued'
  <2>1. UNCHANGED queue /\ \A q \in Procs : pc[q] = "waiting" => pc'[q] = "waiting"
    BY <1>2, <1>3 DEF Return
  <2>. QED  BY <1>1, <2>1, QueueKept
<1>. QED  BY <1>5, <1>6, <1>7, <1>8 DEF IoInv, BiosHeld

LEMMA BioEndioIo == ASSUME IoInv, NEW p \in Procs, BioEndio(p) PROVE IoInv'
<1>1. TypeOK /\ BiosHeld /\ Queued  BY DEF IoInv
<1>2. pc \in [Procs -> Locations]  BY <1>1 DEF TypeOK
<1>3. /\ pc[p] = "xfer" /\ pc' = [pc EXCEPT ![p] = "done"]
      /\ UNCHANGED <<mode, lock, bd_sem, disk, bio, at, buffer, queue>>
  BY DEF BioEndio, Goto, io
<1>4. TypeOK'  BY <1>1, <1>3 DEF TypeOK, Locations, disk
<1>5. \A q \in Procs : BioHeld(q)'
  <2>1. ASSUME NEW q \in Procs, q # p PROVE BioHeld(q)'
    BY <1>1, <1>2, <1>3, <2>1, BioKept DEF BiosHeld
  <2>2. BioHeld(p)'
    <3>1. Underway(p) /\ BioHeld(p) /\ pc'[p] = "done"  BY <1>1, <1>2, <1>3 DEF Underway, BiosHeld
    <3>. QED  BY <1>3, <3>1 DEF BioHeld
  <2>. QED  BY <2>1, <2>2
<1>6. Queued'
  <2>1. \A q \in Procs : pc[q] = "waiting" => pc'[q] = "waiting"  BY <1>2, <1>3
  <2>. QED  BY <1>1, <1>3, <2>1, QueueKept
<1>. QED  BY <1>4, <1>5, <1>6 DEF IoInv, BiosHeld

LEMMA MakeRequestIo == ASSUME IoInv, NEW p \in Procs, MakeRequest(p) PROVE IoInv'
<1>1. TypeOK /\ BiosHeld /\ Queued /\ BioHeld(p)  BY DEF IoInv, BiosHeld
<1>2. Underway(p) /\ at[p][1] < Len(bio[p].segs)  BY <1>1, MakeRequestMoves
<1>3. PICK i, k : i = at[p][1] /\ k = at[p][2]  OBVIOUS
<1>4. PICK b \in Bios : b = bio[p]  BY <1>1, <1>2, AtFacts
<1>5. /\ i \in 0..Len(b.segs) - 1 /\ i \in Nat /\ k \in Nat /\ at[p] = <<i, k>>
      /\ k < SegmentSectors(b, i)
  BY <1>1, <1>2, <1>3, <1>4, AtFacts
<1>6. Moves(p, i, k, SegmentSector(b, i) + k, 1)  BY <1>1, <1>3, <1>4, MakeRequestMoves
<1>7. /\ data' \in [0..NSectors - 1 -> Byte]
      /\ buffer' \in [Procs -> Seq(Byte)] /\ buffer'[p] \in [1..Count(b) -> Byte]
      /\ \A q \in Procs : q # p => buffer'[q] = buffer[q]
  BY <1>1, <1>2, <1>4, <1>6, MovesTypes
<1>8. /\ at' = [at EXCEPT ![p] = IF k + 1 < SegmentSectors(b, i) THEN <<i, k + 1>> ELSE <<i + 1, 0>>]
      /\ UNCHANGED <<mode, lock, bd_sem, users, media_change, timer, handler, pc, bio, queue>>
      /\ pc[p] = "xfer"
  BY <1>3, <1>4 DEF MakeRequest
<1>9. at \in [Procs -> Nat \X Nat]  BY <1>1 DEF TypeOK
<1>10. /\ at'[p] = IF k + 1 < SegmentSectors(b, i) THEN <<i, k + 1>> ELSE <<i + 1, 0>>
       /\ \A q \in Procs : q # p => at'[q] = at[q]
  BY <1>8, <1>9
<1>11. at' \in [Procs -> Nat \X Nat]
  <2>1. <<i, k + 1>> \in Nat \X Nat /\ <<i + 1, 0>> \in Nat \X Nat  BY <1>5
  <2>. QED  BY <1>8, <1>9, <2>1
<1>12. TypeOK'  BY <1>1, <1>7, <1>8, <1>11 DEF TypeOK
<1>13. BioHeld(p)'
  <2>1. b.op # "special" /\ mode' = "noqueue" /\ pc'[p] = "xfer" /\ bio'[p] = b /\ UNCHANGED bio
    BY <1>1, <1>2, <1>4, <1>8 DEF BioHeld
  <2>2. CASE k + 1 < SegmentSectors(b, i)
    <3>1. at'[p][1] = i  BY <1>10, <2>2
    <3>2. at'[p][2] = k + 1  BY <1>10, <2>2
    <3>3. Len(b.segs) \in Nat  BY SegmentFacts
    <3>4. i \in 0..Len(b.segs) /\ i # Len(b.segs)  BY <1>5, <3>3
    <3>. QED  BY <1>7, <2>1, <2>2, <3>1, <3>2, <3>4 DEF BioHeld
  <2>3. CASE ~(k + 1 < SegmentSectors(b, i))
    <3>1. at'[p] = <<i + 1, 0>>  BY <1>10, <2>3
    <3>. QED  BY <1>4, <1>5, <1>7, <2>1, <3>1, NextSegment
  <2>. QED  BY <2>2, <2>3
<1>14. \A q \in Procs : q # p => BioHeld(q)'
  BY <1>1, <1>7, <1>8, <1>10, BioKept DEF BiosHeld
<1>15. Queued'  BY <1>1, <1>8, QueueKept
<1>. QED  BY <1>12, <1>13, <1>14, <1>15 DEF IoInv, BiosHeld

\* A whole segment of the bio p of a request.
SegmentMoved(p) ==
  /\ pc[p] = "waiting" /\ at[p][1] < Len(bio[p].segs)
  /\ at' = [at EXCEPT ![p] = <<at[p][1] + 1, 0>>]
  /\ \E sector, n : Moves(p, at[p][1], 0, sector, n)
  /\ UNCHANGED <<mode, bio>>

LEMMA SegmentMovedKeeps ==
  ASSUME TypeOK, BiosHeld, NEW p \in Procs, SegmentMoved(p),
         pc'[p] = "done" \/ (pc'[p] = "waiting" /\ (mode = "simple" => at[p][1] + 1 # Len(bio[p].segs))),
         \A q \in Procs : q # p => pc'[q] = pc[q]
  PROVE  /\ data' \in [0..NSectors - 1 -> Byte] /\ buffer' \in [Procs -> Seq(Byte)]
         /\ at' \in [Procs -> Nat \X Nat] /\ BiosHeld'
<1>1. Underway(p) /\ BioHeld(p) /\ at[p][1] < Len(bio[p].segs)  BY DEF SegmentMoved, Underway, BiosHeld
<1>2. PICK b \in Bios : b = bio[p]  BY <1>1, AtFacts
<1>3. PICK i \in Nat : i = at[p][1] /\ i \in 0..Len(b.segs) - 1  BY <1>1, <1>2, AtFacts
<1>4. PICK sector, n : Moves(p, i, 0, sector, n)  BY <1>3 DEF SegmentMoved
<1>5. /\ data' \in [0..NSectors - 1 -> Byte]
      /\ buffer' \in [Procs -> Seq(Byte)] /\ buffer'[p] \in [1..Count(b) -> Byte]
      /\ \A q \in Procs : q # p => buffer'[q] = buffer[q]
  BY <1>1, <1>2, <1>4, MovesTypes
<1>6. at \in [Procs -> Nat \X Nat]  BY DEF TypeOK
<1>7. /\ at' \in [Procs -> Nat \X Nat] /\ at'[p] = <<i + 1, 0>>
      /\ \A q \in Procs : q # p => at'[q] = at[q]
  <2>1. <<i + 1, 0>> \in Nat \X Nat  BY <1>3
  <2>. QED  BY <1>3, <1>6, <2>1 DEF SegmentMoved
<1>8. BioHeld(p)'
  BY <1>2, <1>3, <1>5, <1>7, NextSegment DEF SegmentMoved
<1>9. \A q \in Procs : q # p => BioHeld(q)'
  BY <1>5, <1>7, BioKept DEF BiosHeld, SegmentMoved
<1>. QED  BY <1>5, <1>7, <1>8, <1>9 DEF BiosHeld

LEMMA QueueHead ==
  ASSUME TypeOK, Queued, queue # <<>>
  PROVE  /\ queue[1] \in Seq(Procs) /\ queue[1] # <<>> /\ Len(queue[1]) \in Nat \ {0}
         /\ 1 \in DOMAIN queue /\ queue[1][1] \in Procs
         /\ \A j \in 1..Len(queue[1]) : queue[1][j] \in Procs /\ pc[queue[1][j]] = "waiting"
<1>1. 1 \in DOMAIN queue /\ queue[1] \in Seq(Procs) /\ queue[1] # <<>>  BY DEF Queued, TypeOK
<1>2. \A j \in 1..Len(queue[1]) : j \in DOMAIN queue[1]  BY <1>1
<1>3. Len(queue[1]) \in Nat \ {0} /\ 1 \in 1..Len(queue[1])  BY <1>1
<1>. QED  BY <1>1, <1>2, <1>3 DEF Queued

\* The end of some bios, once they have moved what they had to or are skipped.
LEMMA CompletedIo ==
  ASSUME IoInv, queue # <<>>, NEW k \in 0..Len(queue[1]), Completed(k),
         UNCHANGED <<mode, lock, bd_sem, disk, bio, at, buffer>>
  PROVE  IoInv'
<1>1. TypeOK /\ BiosHeld /\ Queued  BY DEF IoInv
<1>2. /\ queue' \in Seq(Seq(Procs)) /\ Queued' /\ pc' \in [Procs -> Locations]
      /\ \A p \in Procs : pc'[p] = IF p \in Over(k) THEN "done" ELSE pc[p]
      /\ \A p \in Over(k) : p \in Procs /\ pc[p] = "waiting"
  BY <1>1, CompletedKeeps
<1>3. TypeOK'  BY <1>1, <1>2 DEF TypeOK, disk
<1>4. ASSUME NEW p \in Procs PROVE BioHeld(p)'
  <2>1. CASE p \in Over(k)
    <3>1. Underway(p) /\ BioHeld(p) /\ pc'[p] = "done"  BY <1>1, <1>2, <2>1 DEF Underway, BiosHeld
    <3>. QED  BY <3>1 DEF BioHeld
  <2>2. CASE p \notin Over(k)  BY <1>1, <1>2, <2>2, BioKept DEF BiosHeld
  <2>. QED  BY <2>1, <2>2
<1>. QED  BY <1>2, <1>3, <1>4 DEF IoInv, BiosHeld

LEMMA SkipIo == ASSUME IoInv, Skip PROVE IoInv'
<1>1. queue # <<>> /\ TypeOK /\ Queued  BY DEF Skip, IoInv
<1>2. 1 \in 0..Len(queue[1])  BY <1>1, QueueHead
<1>. QED  BY <1>1, <1>2, CompletedIo DEF Skip

LEMMA SimpleIo == ASSUME IoInv, Simple PROVE IoInv'
<1>1. TypeOK /\ BiosHeld /\ Queued  BY DEF IoInv
<1>2. PICK p : p = queue[1][1]  OBVIOUS
<1>3. queue # <<>> /\ p \in Procs /\ Len(queue[1]) \in Nat \ {0} /\ queue[1][1] = p /\ pc[p] = "waiting"
  <2>1. queue # <<>>  BY DEF Simple
  <2>2. 1 \in 1..Len(queue[1])  BY <1>1, <2>1, QueueHead
  <2>. QED  BY <1>1, <1>2, <2>1, <2>2, QueueHead
<1>4. SegmentMoved(p)
  <2>1. at' = [at EXCEPT ![p] = <<at[p][1] + 1, 0>>] /\ UNCHANGED <<mode, bio>>  BY <1>2 DEF Simple
  <2>2. pc[p] = "waiting" /\ at[p][1] < Len(bio[p].segs) /\ \E sector, n : Moves(p, at[p][1], 0, sector, n)
    BY <1>1, <1>2, SimpleMoves
  <2>. QED  BY <2>1, <2>2 DEF SegmentMoved
<1>5. UNCHANGED <<mode, lock, bd_sem, users, media_change, timer, handler, bio>>  BY DEF Simple
<1>6. CASE at[p][1] + 1 = Len(bio[p].segs)
  <2>1. Completed(1)  BY <1>2, <1>6 DEF Simple
  <2>2. 1 \in 0..Len(queue[1]) /\ Over(1) = {p}
    <3>1. 1..1 = {1}  OBVIOUS
    <3>. QED  BY <1>3, <3>1 DEF Over
  <2>3. /\ queue' \in Seq(Seq(Procs)) /\ Queued' /\ pc' \in [Procs -> Locations]
        /\ pc'[p] = "done" /\ \A q \in Procs : q # p => pc'[q] = pc[q]
    BY <1>1, <1>3, <2>1, <2>2, CompletedKeeps
  <2>4. /\ data' \in [0..NSectors - 1 -> Byte] /\ buffer' \in [Procs -> Seq(Byte)]
        /\ at' \in [Procs -> Nat \X Nat] /\ BiosHeld'
    BY <1>1, <1>3, <1>4, <2>3, SegmentMovedKeeps
  <2>. QED  BY <1>1, <1>5, <2>3, <2>4 DEF IoInv, TypeOK
<1>7. CASE at[p][1] + 1 # Len(bio[p].segs)
  <2>1. UNCHANGED <<pc, queue>>  BY <1>2, <1>7 DEF Simple
  <2>2. /\ data' \in [0..NSectors - 1 -> Byte] /\ buffer' \in [Procs -> Seq(Byte)]
        /\ at' \in [Procs -> Nat \X Nat] /\ BiosHeld'
    BY <1>1, <1>3, <1>4, <1>7, <2>1, SegmentMovedKeeps
  <2>3. Queued'  BY <1>1, <2>1, QueueKept
  <2>. QED  BY <1>1, <1>5, <2>1, <2>2, <2>3 DEF IoInv, TypeOK
<1>. QED  BY <1>6, <1>7

LEMMA XferRequestIo == ASSUME IoInv, XferRequest PROVE IoInv'
<1>1. TypeOK /\ BiosHeld /\ Queued  BY DEF IoInv
<1>2. UNCHANGED <<mode, lock, bd_sem, users, media_change, timer, handler, pc, bio, queue>> /\ mode = "full"
  BY DEF XferRequest
<1>3. PICK p \in Procs : SegmentMoved(p)
  <2>1. PICK p \in Procs :
           /\ pc[p] = "waiting" /\ at[p][1] < Len(bio[p].segs)
           /\ at' = [at EXCEPT ![p] = <<at[p][1] + 1, 0>>]
           /\ \E sector, n : Moves(p, at[p][1], 0, sector, n)
    BY <1>1, XferMoves
  <2>. QED  BY <1>2, <2>1 DEF SegmentMoved
<1>4. pc'[p] = "waiting" /\ mode # "simple"  BY <1>2, <1>3 DEF SegmentMoved
<1>5. /\ data' \in [0..NSectors - 1 -> Byte] /\ buffer' \in [Procs -> Seq(Byte)]
      /\ at' \in [Procs -> Nat \X Nat] /\ BiosHeld'
  BY <1>1, <1>2, <1>3, <1>4, SegmentMovedKeeps
<1>6. Queued'  BY <1>1, <1>2, QueueKept
<1>. QED  BY <1>1, <1>2, <1>5, <1>6 DEF IoInv, TypeOK

\* All the bios fit, so that there is a number of them that does.
LEMMA SomeFit ==
  ASSUME NEW n \in Nat, NEW T \in SUBSET (0..n), n \in T
  PROVE  (CHOOSE k \in T : \A l \in T : l <= k) = n
<1>1. \A l \in T : l <= n  OBVIOUS
<1>2. PICK k \in T : k = (CHOOSE h \in T : \A l \in T : l <= h) /\ \A l \in T : l <= k  BY <1>1
<1>. QED  BY <1>1, <1>2

LEMMA FullEnds ==
  ASSUME TypeOK, BiosHeld, Queued, FullEnd PROVE queue # <<>> /\ Completed(Len(queue[1]))
<1>1. queue # <<>>  BY DEF FullEnd
<1>2. PICK n \in Nat : n = Len(queue[1]) /\ DOMAIN queue[1] = 1..n  BY <1>1, QueueHead
<1> DEFINE counts == [j \in DOMAIN queue[1] |-> Count(bio[queue[1][j]])]
           fits   == {k \in 0..Len(counts) : SumOf(SubSeq(counts, 1, k)) <= SectorsXferred}
<1>3. Completed(CHOOSE k \in fits : \A l \in fits : l <= k)  BY DEF FullEnd
<1>4. Len(counts) = n /\ counts \in Seq(Nat)
  <2>1. ASSUME NEW j \in 1..n PROVE Count(bio[queue[1][j]]) \in Nat
    <3>1. PICK q \in Procs : q = queue[1][j] /\ pc[q] = "waiting"  BY <1>1, <1>2, QueueHead
    <3>2. bio[q] \in Bios  BY <3>1 DEF BiosHeld, BioHeld, Underway
    <3>. QED  BY <3>1, <3>2, BioFacts
  <2>2. counts \in [1..n -> Nat]  BY <1>2, <2>1
  <2>3. counts \in Seq(Nat)
    <3> HIDE DEF counts
    <3>. QED  BY <2>2
  <2>. QED  BY <1>2, <2>3
<1>5. n \in fits
  <2>1. SubSeq(counts, 1, n) = counts
    <3> HIDE DEF counts
    <3>. QED  BY <1>4
  <2>2. SectorsXferred = SumOf(counts)  BY DEF SectorsXferred
  <2>3. SumOf(counts) \in Nat
    <3> HIDE DEF counts
    <3>1. \A i \in 0..Len(counts) : OffsetIn(counts, i) \in Nat  BY <1>4, OffsetNext
    <3>2. n \in 0..Len(counts) /\ OffsetIn(counts, n) = SumOf(counts)  BY <1>4, OffsetNext
    <3>. QED  BY <3>1, <3>2
  <2>4. SumOf(SubSeq(counts, 1, n)) <= SectorsXferred
    <3> HIDE DEF counts
    <3>1. PICK x \in Nat : x = SumOf(counts)  BY <2>3
    <3>2. SumOf(SubSeq(counts, 1, n)) = x /\ SectorsXferred = x  BY ONLY <2>1, <2>2, <3>1, Zenon
    <3>3. x <= x  OBVIOUS
    <3>. QED  BY ONLY <3>2, <3>3, Zenon
  <2>5. n \in 0..Len(counts)  BY <1>4
  <2>. QED  BY <2>4, <2>5
<1>6. fits \in SUBSET (0..n)  BY <1>4
<1>7. (CHOOSE k \in fits : \A l \in fits : l <= k) = n
  <2> HIDE DEF fits
  <2>. QED  BY <1>5, <1>6, SomeFit
<1>. QED  BY <1>1, <1>2, <1>3, <1>7

LEMMA FullEndIo == ASSUME IoInv, FullEnd PROVE IoInv'
<1>1. TypeOK /\ BiosHeld /\ Queued  BY DEF IoInv
<1>2. queue # <<>> /\ Completed(Len(queue[1])) /\ Len(queue[1]) \in 0..Len(queue[1])
  BY <1>1, FullEnds, QueueHead
<1>. QED  BY <1>2, CompletedIo DEF FullEnd

LEMMA TransfersIo == ASSUME IoInv, Transfers PROVE IoInv'
BY SubmitIo, ReturnIo, MakeRequestIo, BioEndioIo, SkipIo, SimpleIo, XferRequestIo, FullEndIo
DEF Transfers
-----------------------------------------------------------------------------
(* Who has the disk open *)

Inside == {"idle", "waiting", "xfer", "done"}

\* A transfer leaves all alone that open and release deal with.
LEMMA TransfersKeep ==
  ASSUME IoInv, Transfers
  PROVE  /\ UNCHANGED <<mode, bd_sem, users, media_change, timer, handler>>
         /\ \A p \in Procs : pc'[p] = pc[p] \/ (pc[p] \in Inside /\ pc'[p] \in Inside)
<1> USE DEF disk
<1>1. TypeOK /\ BiosHeld /\ Queued /\ pc \in [Procs -> Locations]  BY DEF IoInv, TypeOK
<1>2. ASSUME NEW p \in Procs, Submit(p) \/ Return(p) \/ MakeRequest(p) \/ BioEndio(p)
      PROVE  /\ UNCHANGED <<mode, bd_sem, users, media_change, timer, handler>>
             /\ \A q \in Procs : pc'[q] = pc[q] \/ (pc[q] \in Inside /\ pc'[q] \in Inside)
  BY <1>1, <1>2 DEF Submit, Return, MakeRequest, BioEndio, Goto, Inside
<1>3. ASSUME queue # <<>>, NEW k \in 0..Len(queue[1]), Completed(k)
      PROVE  \A q \in Procs : pc'[q] = pc[q] \/ (pc[q] \in Inside /\ pc'[q] \in Inside)
  BY <1>1, <1>3, CompletedKeeps DEF Inside
<1>4. queue # <<>> => 1 \in 0..Len(queue[1]) /\ Len(queue[1]) \in 0..Len(queue[1])
  BY <1>1, QueueHead
<1>5. CASE Skip  BY <1>3, <1>4, <1>5 DEF Skip
<1>6. CASE Simple  BY <1>3, <1>4, <1>6 DEF Simple
<1>7. CASE XferRequest  BY <1>7 DEF XferRequest
<1>8. CASE FullEnd
  <2>1. queue # <<>> /\ Completed(Len(queue[1]))  BY <1>1, <1>8, FullEnds
  <2>. QED  BY <1>3, <1>4, <1>8, <2>1 DEF FullEnd
<1>. QED  BY <1>2, <1>5, <1>6, <1>7, <1>8 DEF Transfers

LEMMA CountKept ==
  ASSUME UsersCount, users' = users,
         \A p \in Procs : pc'[p] = pc[p] \/ (pc[p] \in Inside /\ pc'[p] \in Inside)
  PROVE  UsersCount'
<1>1. Opened' = Opened  BY DEF Opened, Inside
<1>. QED  BY <1>1 DEF UsersCount

LEMMA CountGoto ==
  ASSUME TypeOK, UsersCount, users' = users, NEW p \in Procs, NEW from, NEW to, Goto(p, from, to),
         \/ {from, to} \subseteq {"closed", "opening", "synced"}
         \/ {from, to} \subseteq {"idle", "waiting", "xfer", "done", "closing"}
  PROVE  UsersCount'
<1>1. pc[p] = from /\ pc'[p] = to /\ \A q \in Procs : q # p => pc'[q] = pc[q]
  BY DEF Goto, TypeOK
<1>2. Opened' = Opened  BY <1>1 DEF Opened
<1>. QED  BY <1>2 DEF UsersCount

LEMMA CallsCount == ASSUME TypeOK, UsersCount, NEW p \in Procs, Calls(p) PROVE UsersCount'
<1>1. CASE OpenBegin(p)  BY <1>1, CountGoto DEF OpenBegin, disk
<1>2. CASE DelTimerSync(p)  BY <1>2, CountGoto DEF DelTimerSync
<1>3. CASE Open(p)
  <2>1. pc[p] = "synced" /\ pc'[p] = "idle" /\ \A q \in Procs : q # p => pc'[q] = pc[q]
    BY <1>3 DEF Open, Goto, TypeOK
  <2>2. p \notin Opened /\ Opened' = Opened \cup {p}  BY <2>1 DEF Opened
  <2>3. IsFiniteSet(Opened') /\ Cardinality(Opened') = Cardinality(Opened) + 1
    BY <2>2, FS_AddElement DEF UsersCount
  <2>4. users' = users + 1  BY <1>3 DEF Open
  <2>. QED  BY <2>3, <2>4 DEF UsersCount
<1>4. CASE ReleaseBegin(p)  BY <1>4, CountGoto DEF ReleaseBegin, disk
<1>5. CASE Release(p)
  <2>1. pc[p] = "closing" /\ pc'[p] = "closed" /\ \A q \in Procs : q # p => pc'[q] = pc[q]
    BY <1>5 DEF Release, Goto, TypeOK
  <2>2. p \in Opened /\ Opened' = Opened \ {p}  BY <2>1 DEF Opened
  <2>3. IsFiniteSet(Opened') /\ Cardinality(Opened') = Cardinality(Opened) - 1
    BY <2>2, FS_RemoveElement DEF UsersCount
  <2>4. users' = users - 1  BY <1>5 DEF Release
  <2>. QED  BY <2>3, <2>4 DEF UsersCount
<1>. QED  BY <1>1, <1>2, <1>3, <1>4, <1>5 DEF Calls

Invariant == IoInv /\ UsersCount

LEMMA InvariantStep == ASSUME Invariant, [Next]_vars PROVE Invariant'
<1>1. IoInv /\ TypeOK /\ BiosHeld /\ Queued /\ UsersCount  BY DEF Invariant, IoInv
<1>2. CASE UNCHANGED vars
  <2>1. UNCHANGED <<mode, lock, bd_sem, users, media_change, timer, handler, data, pc,
                    bio, at, buffer, queue>>
    BY <1>2 DEF vars, disk, io
  <2>2. TypeOK'  BY <1>1, <2>1 DEF TypeOK
  <2>3. Queued' /\ BiosHeld'
    <3>1. Queued'  BY <1>1, <2>1, QueueKept
    <3>2. BiosHeld'  BY <1>1, <2>1, BioKept DEF BiosHeld
    <3>. QED  BY <3>1, <3>2
  <2>4. UsersCount'  BY <1>1, <2>1, CountKept
  <2>. QED  BY <2>2, <2>3, <2>4 DEF Invariant, IoInv
<1>3. ASSUME NEW p \in Procs, Calls(p) PROVE Invariant'
  BY <1>1, <1>3, CallsTypes, CallsIo, CallsCount DEF Invariant, IoInv
<1>4. CASE Kernel
  <2>1. users' = users /\ pc' = pc
    BY <1>4 DEF Kernel, Expire, Invalidate, Unplug, QueueEmpty, disk
  <2>2. UsersCount'  BY <1>1, <2>1, CountKept
  <2>. QED  BY <1>1, <1>4, <2>2, KernelTypes, KernelIo DEF Invariant, IoInv
<1>5. CASE Transfers
  <2>1. UsersCount'  BY <1>1, <1>5, TransfersKeep, CountKept
  <2>. QED  BY <1>1, <1>5, <2>1, TransfersIo DEF Invariant
<1>. QED  BY <1>2, <1>3, <1>4, <1>5, StepKinds

LEMMA InvariantInit == ASSUME Init PROVE Invariant
<1>1. TypeOK /\ BiosHeld /\ Queued  BY TypesInit
<1>2. Opened = {} /\ users = 0  BY DEF Init, Opened
<1>. QED  BY <1>1, <1>2, FS_EmptySet DEF Invariant, IoInv, UsersCount

\* The types; a process is in one place of the queue and only while it waits,
\* what was moved of a bio ends in a segment or with it, and dev->users counts
\* those that have the disk open: in every mode, whoever interleaves.
THEOREM DiskCorrect == Spec => []Invariant
BY InvariantInit, InvariantStep, PTL DEF Spec
-----------------------------------------------------------------------------
(* The medium *)

\* Who is about to open or to release holds the semaphore of the block_device.
SemHeld == \A p \in Procs : bd_sem = p <=> pc[p] \in {"opening", "synced", "closing"}

\* A process that has deleted the timer finds it so until it is in.
Quiet ==
  /\ users > 0 => ~timer /\ ~handler /\ ~media_change
  /\ (\E p \in Procs : pc[p] = "synced") => ~timer /\ ~handler

Rest == Invariant /\ SemHeld /\ Quiet

LEMMA CallsRest ==
  ASSUME Serial, Rest, NEW p \in Procs, Calls(p) PROVE SemHeld' /\ Quiet'
<1>1. TypeOK /\ SemHeld /\ Quiet  BY DEF Rest, Invariant, IoInv
<1>2. pc \in [Procs -> Locations] /\ users \in Nat /\ NULL \notin Procs
      /\ timer \in BOOLEAN /\ handler \in BOOLEAN /\ media_change \in BOOLEAN
  BY <1>1, ProcsAssumption DEF TypeOK
<1>3. CASE OpenBegin(p)
  <2>1. /\ bd_sem = NULL /\ bd_sem' = p /\ pc'[p] = "opening"
        /\ (\A q \in Procs : q # p => pc'[q] = pc[q])
        /\ UNCHANGED <<users, timer, handler, media_change>>
    BY <1>2, <1>3 DEF OpenBegin, Down, Goto, disk
  <2>2. SemHeld'  BY <1>1, <1>2, <2>1 DEF SemHeld
  <2>3. Quiet'  BY <1>1, <2>1 DEF Quiet
  <2>. QED  BY <2>2, <2>3
<1>4. CASE DelTimerSync(p)
  <2>1. /\ UNCHANGED <<bd_sem, users, handler, media_change>> /\ pc[p] = "opening" /\ pc'[p] = "synced"
        /\ (\A q \in Procs : q # p => pc'[q] = pc[q])
        /\ ~handler /\ ~timer'
    BY <1>2, <1>4 DEF DelTimerSync, Goto
  <2>2. SemHeld'  BY <1>1, <2>1 DEF SemHeld
  <2>3. Quiet'  BY <1>1, <2>1 DEF Quiet
  <2>. QED  BY <2>2, <2>3
<1>5. CASE Open(p)
  <2>1. /\ bd_sem' = NULL /\ users' = users + 1 /\ UNCHANGED <<timer, handler>>
        /\ pc[p] = "synced" /\ pc'[p] = "idle" /\ (\A q \in Procs : q # p => pc'[q] = pc[q])
        /\ IF users = 0 THEN media_change' = FALSE ELSE media_change' = media_change
    BY <1>2, <1>5 DEF Open, Goto, Up, CheckDiskChange
  <2>2. SemHeld'  BY <1>1, <1>2, <2>1 DEF SemHeld
  <2>3. ~timer /\ ~handler  BY <1>1, <2>1 DEF Quiet
  <2>4. ~media_change'
    <3>1. CASE users = 0  BY <2>1, <3>1
    <3>2. CASE users > 0  BY <1>1, <2>1, <3>2 DEF Quiet
    <3>. QED  BY <1>2, <3>1, <3>2
  <2>. QED  BY <2>1, <2>2, <2>3, <2>4 DEF Quiet
<1>6. CASE ReleaseBegin(p)
  <2>1. /\ bd_sem = NULL /\ bd_sem' = p /\ pc'[p] = "closing"
        /\ (\A q \in Procs : q # p => pc'[q] = pc[q])
        /\ UNCHANGED <<users, timer, handler, media_change>>
    BY <1>2, <1>6 DEF ReleaseBegin, Down, Goto, disk
  <2>2. SemHeld'  BY <1>1, <1>2, <2>1 DEF SemHeld
  <2>3. Quiet'  BY <1>1, <2>1 DEF Quiet
  <2>. QED  BY <2>2, <2>3
<1>7. CASE Release(p)
  <2>1. /\ bd_sem' = NULL /\ users' = users - 1 /\ UNCHANGED <<handler, media_change>>
        /\ pc[p] = "closing" /\ pc'[p] = "closed" /\ (\A q \in Procs : q # p => pc'[q] = pc[q])
    BY <1>2, <1>7 DEF Release, Goto, Up
  <2>2. SemHeld'  BY <1>1, <1>2, <2>1 DEF SemHeld
  <2>3. bd_sem = p  BY <1>1, <2>1 DEF SemHeld
  <2>4. \A q \in Procs : pc'[q] # "synced"
    <3>1. \A q \in Procs : q # p => pc[q] # "synced"  BY <1>1, <2>3 DEF SemHeld
    <3>. QED  BY <2>1, <3>1
  <2>5. ASSUME users' > 0 PROVE ~timer' /\ ~handler' /\ ~media_change'
    <3>1. users > 0 /\ users' # 0  BY <1>2, <2>1, <2>5
    <3>2. ~timer /\ ~handler /\ ~media_change  BY <1>1, <3>1 DEF Quiet
    <3>3. timer' = (timer \/ users' = 0)  BY <1>7 DEF Release
    <3>. QED  BY <2>1, <3>1, <3>2, <3>3
  <2>. QED  BY <2>2, <2>4, <2>5 DEF Quiet
<1>. QED  BY <1>3, <1>4, <1>5, <1>6, <1>7 DEF Calls

LEMMA KernelRest == ASSUME Rest, Kernel PROVE SemHeld' /\ Quiet'
<1>1. SemHeld /\ Quiet /\ users \in Nat  BY DEF Rest, Invariant, IoInv, TypeOK
<1>2. UNCHANGED <<pc, bd_sem, users>>
  BY DEF Kernel, Expire, Invalidate, Unplug, QueueEmpty, disk
<1>3. SemHeld'  BY <1>1, <1>2 DEF SemHeld
<1>4. CASE Expire
  <2>1. timer  BY <1>4 DEF Expire
  <2>2. ~(users > 0) /\ ~(\E p \in Procs : pc[p] = "synced")  BY <1>1, <2>1 DEF Quiet
  <2>. QED  BY <1>2, <1>3, <2>2 DEF Quiet
<1>5. CASE Invalidate
  <2>1. handler  BY <1>5 DEF Invalidate
  <2>2. ~(users > 0) /\ ~(\E p \in Procs : pc[p] = "synced")  BY <1>1, <2>1 DEF Quiet
  <2>. QED  BY <1>2, <1>3, <2>2 DEF Quiet
<1>6. CASE Unplug \/ QueueEmpty
  <2>1. UNCHANGED <<timer, handler, media_change>>  BY <1>6 DEF Unplug, QueueEmpty, disk
  <2>. QED  BY <1>1, <1>2, <1>3, <2>1 DEF Quiet
<1>. QED  BY <1>4, <1>5, <1>6 DEF Kernel

LEMMA RestStep == ASSUME Serial, Rest, [Next]_vars PROVE Rest'
<1>1. Invariant'  BY InvariantStep DEF Rest
<1>2. CASE UNCHANGED vars
  <2>1. SemHeld' /\ Quiet'  BY <1>2 DEF Rest, SemHeld, Quiet, vars, disk
  <2>. QED  BY <1>1, <2>1 DEF Rest
<1>3. ASSUME NEW p \in Procs, Calls(p) PROVE Rest'  BY <1>1, <1>3, CallsRest DEF Rest
<1>4. CASE Kernel  BY <1>1, <1>4, KernelRest DEF Rest
<1>5. CASE Transfers
  <2>1. /\ UNCHANGED <<mode, bd_sem, users, media_change, timer, handler>>
        /\ \A p \in Procs : pc'[p] = pc[p] \/ (pc[p] \in Inside /\ pc'[p] \in Inside)
    BY <1>5, TransfersKeep DEF Rest, Invariant
  <2>2. SemHeld'  BY <2>1 DEF Rest, SemHeld, Inside
  <2>3. Quiet'  BY <2>1 DEF Rest, Quiet, Inside
  <2>. QED  BY <1>1, <2>2, <2>3 DEF Rest
<1>. QED  BY <1>2, <1>3, <1>4, <1>5, StepKinds DEF Rest

\* The timer and its handler are at rest while anybody has the disk open, and
\* no open leaves a change of the medium behind: where the block layer
\* serialises open and release of a disk.
THEOREM MediumRests == ASSUME Serial PROVE Spec => []MediumAtRest
<1>1. Init => Rest
  <2>1. SUFFICES ASSUME Init PROVE Rest  OBVIOUS
  <2>2. Invariant  BY <2>1, InvariantInit
  <2>3. SemHeld  BY <2>1, ProcsAssumption DEF Init, SemHeld
  <2>4. Quiet  BY <2>1 DEF Init, Quiet
  <2>. QED  BY <2>2, <2>3, <2>4 DEF Rest
<1>2. Rest /\ [Next]_vars => Rest'  BY RestStep
<1>3. Rest => MediumAtRest  BY DEF Rest, Invariant, IoInv, Quiet, MediumAtRest
<1>. QED  BY <1>1, <1>2, <1>3, PTL DEF Spec
-----------------------------------------------------------------------------
(* The sectors *)

\* sbull_xfer_bio finds each segment where it is.
SegmentsFound == EqualSegments \/ Modes \subseteq {"simple"}

\* What of the bio is ahead when k sectors of segment i were moved.
Remainder(b, i, k) == b.first + Offset(b, i) + k .. b.first + Count(b) - 1
Portion(b, i, k, n) == b.first + Offset(b, i) + k .. b.first + Offset(b, i) + k + n - 1

\* A segment of s sectors that starts at o, in a bio of c sectors that starts
\* at f, on a disk of d: k of them were moved, n are to be.
Within(f, o, c, s, k, n, d) ==
  /\ {f, o, c, s, k, n, d} \subseteq Nat
  /\ f + c <= d /\ o + s <= c /\ k + n <= s
Cut(f, o, c, s, k, n, d) ==
  /\ f + o + k .. f + o + k + n - 1 \subseteq f + o + k .. f + c - 1
  /\ (f + o + k .. f + c - 1) \ (f + o + k .. f + o + k + n - 1) = f + o + (k + n) .. f + c - 1
  /\ k + n = s => f + o + (k + n) .. f + c - 1 = f + (o + s) + 0 .. f + c - 1
  /\ f + o + k + n \in Nat /\ f + o + k + n <= d

LEMMA Intervals ==
  ASSUME NEW f, NEW o, NEW c, NEW s, NEW k, NEW n, NEW d, Within(f, o, c, s, k, n, d)
  PROVE  Cut(f, o, c, s, k, n, d)
<1>1. f \in Nat /\ o \in Nat /\ c \in Nat /\ s \in Nat /\ k \in Nat /\ n \in Nat /\ d \in Nat
  BY DEF Within
<1>2. f + c <= d /\ o + s <= c /\ k + n <= s  BY DEF Within
<1>3. f + o + k .. f + o + k + n - 1 \subseteq f + o + k .. f + c - 1  BY <1>1, <1>2
<1>4. (f + o + k .. f + c - 1) \ (f + o + k .. f + o + k + n - 1) = f + o + (k + n) .. f + c - 1
  BY <1>1, <1>2
<1>5. k + n = s => f + o + (k + n) .. f + c - 1 = f + (o + s) + 0 .. f + c - 1  BY <1>1, <1>2
<1>6. f + o + k + n \in Nat /\ f + o + k + n <= d  BY <1>1, <1>2
<1>. QED  BY <1>3, <1>4, <1>5, <1>6 DEF Cut

LEMMA PortionFacts ==
  ASSUME NEW b \in Bios, NEW i \in 0..Len(b.segs) - 1, NEW k \in Nat, NEW n \in Nat,
         k + n <= b.segs[i + 1]
  PROVE  /\ Portion(b, i, k, n) \subseteq Remainder(b, i, k)
         /\ Remainder(b, i, k) \ Portion(b, i, k, n) = Remainder(b, i, k + n)
         /\ k + n = b.segs[i + 1] => Remainder(b, i, k + n) = Remainder(b, i + 1, 0)
         /\ b.first + Offset(b, i) + k + n \in Nat
         /\ b.first + Offset(b, i) + k + n <= NSectors
<1>1. PICK f \in Nat, c \in Nat : f = b.first /\ c = Count(b) /\ f + c <= NSectors  BY BioFacts
<1>2. PICK o \in Nat, s \in Nat : /\ o = Offset(b, i) /\ s = b.segs[i + 1] /\ o + s <= c
                                  /\ Offset(b, i + 1) = o + s
  <2>1. i \in 0..Len(b.segs) /\ Len(b.segs) \in Nat  BY SegmentFacts
  <2>2. Offset(b, i) \in Nat  BY <2>1, SegmentFacts
  <2>3. /\ b.segs[i + 1] \in Nat /\ Offset(b, i) + b.segs[i + 1] <= Count(b)
        /\ Offset(b, i + 1) = Offset(b, i) + b.segs[i + 1]
    BY SegmentFacts
  <2>. QED  BY <1>1, <2>2, <2>3
<1>3. Portion(b, i, k, n) = f + o + k .. f + o + k + n - 1 /\ Remainder(b, i, k) = f + o + k .. f + c - 1
      /\ Remainder(b, i, k + n) = f + o + (k + n) .. f + c - 1
      /\ Remainder(b, i + 1, 0) = f + (o + s) + 0 .. f + c - 1
  BY <1>1, <1>2 DEF Portion, Remainder
<1>4. k + n <= s /\ NSectors \in Nat  BY <1>2, SectorsAssumption
<1>5. Cut(f, o, c, s, k, n, NSectors)
  <2>1. Within(f, o, c, s, k, n, NSectors)
    <3>1. {f, o, c, s, k, n, NSectors} \subseteq Nat  BY <1>4
    <3>. QED  BY <1>1, <1>2, <1>4, <3>1 DEF Within
  <2>. QED  BY <2>1, Intervals
<1>6. f + o + k + n \in Nat /\ f + o + k + n <= NSectors  BY <1>5 DEF Cut
<1>7. /\ Portion(b, i, k, n) \subseteq Remainder(b, i, k)
      /\ Remainder(b, i, k) \ Portion(b, i, k, n) = Remainder(b, i, k + n)
  BY <1>3, <1>5 DEF Cut
<1>8. k + n = s => Remainder(b, i, k + n) = Remainder(b, i + 1, 0)  BY <1>3, <1>5 DEF Cut
<1>. QED  BY <1>1, <1>2, <1>6, <1>7, <1>8

LEMMA RemainderEnds ==
  ASSUME NEW b \in Bios
  PROVE  /\ Remainder(b, Len(b.segs), 0) = {}
         /\ Remainder(b, 0, 0) = b.first .. b.first + Count(b) - 1
<1>1. PICK f \in Nat, c \in Nat : f = b.first /\ c = Count(b)  BY BioFacts
<1>2. Offset(b, 0) = 0 /\ Offset(b, Len(b.segs)) = c  BY <1>1, SegmentFacts
<1>3. f + c + 0 .. f + c - 1 = {} /\ f + 0 + 0 = f  OBVIOUS
<1>. QED  BY <1>1, <1>2, <1>3 DEF Remainder

LEMMA AheadIs ==
  ASSUME NEW p
  PROVE  Ahead(p) = IF p \notin Pending \/ bio[p].op = "special" THEN {}
                    ELSE Remainder(bio[p], at[p][1], at[p][2])
BY DEF Ahead, Remainder

\* A transfer of the sectors of the segment moves them between the disk and
\* their entries of the memory.
SectorsMoved(p, S) ==
  IF S # {} /\ bio[p].op = "write"
  THEN /\ data' = [s \in 0..NSectors - 1 |->
                     IF s \in S THEN buffer[p][s - bio[p].first + 1] ELSE data[s]]
       /\ UNCHANGED buffer
  ELSE /\ buffer' = [buffer EXCEPT ![p] =
            [j \in DOMAIN @ |-> IF \E s \in S : s - bio[p].first + 1 = j
                                THEN data[bio[p].first + j - 1] ELSE @[j]]]
       /\ UNCHANGED data

\* The sectors of a portion and their entries in the memory.
Entries(f, o, k, n) ==
  LET S == f + o + k .. f + o + k + n - 1 IN
  /\ S # {}
  /\ \A s \in Int : /\ s \in S <=> f + o + k <= s /\ s < f + o + k + n
                    /\ o + k + 1 + s - (f + o + k) = s - f + 1
  /\ \A j \in Int :
       /\ (\E s \in S : s - f + 1 = j) <=> o + k + 1 <= j /\ j < o + k + 1 + n
       /\ f + o + k + j - (o + k + 1) = f + j - 1

LEMMA EntriesAre ==
  ASSUME NEW f \in Nat, NEW o \in Nat, NEW k \in Nat, NEW n \in Nat \ {0}
  PROVE  Entries(f, o, k, n)
<1> DEFINE S == f + o + k .. f + o + k + n - 1
<1>1. f + o + k \in S /\ \A s \in S : s \in Int  OBVIOUS
<1>2. ASSUME NEW s \in Int
      PROVE  /\ s \in S <=> f + o + k <= s /\ s < f + o + k + n
             /\ o + k + 1 + s - (f + o + k) = s - f + 1
  OBVIOUS
<1>3. ASSUME NEW j \in Int
      PROVE  /\ (\E s \in S : s - f + 1 = j) <=> o + k + 1 <= j /\ j < o + k + 1 + n
             /\ f + o + k + j - (o + k + 1) = f + j - 1
  <2>1. ASSUME NEW s \in S, s - f + 1 = j PROVE o + k + 1 <= j /\ j < o + k + 1 + n
    <3>1. s \in Int /\ f + o + k <= s /\ s < f + o + k + n  BY <1>1, <1>2
    <3>. QED  BY <2>1, <3>1
  <2>2. ASSUME o + k + 1 <= j, j < o + k + 1 + n PROVE \E s \in S : s - f + 1 = j
    <3>1. f + j - 1 \in S /\ (f + j - 1) - f + 1 = j  BY <2>2
    <3>. QED  BY <3>1
  <2>3. f + o + k + j - (o + k + 1) = f + j - 1  OBVIOUS
  <2>. QED  BY <2>1, <2>2, <2>3
<1>. QED  BY <1>1, <1>2, <1>3 DEF Entries

LEMMA MovesSectors ==
  ASSUME TypeOK, NEW p \in Procs, bio[p] \in Bios, buffer[p] \in [1..Count(bio[p]) -> Byte],
         NEW i, NEW k \in Nat, NEW n \in Nat \ {0},
         Moves(p, i, k, bio[p].first + Offset(bio[p], i) + k, n)
  PROVE  SectorsMoved(p, Portion(bio[p], i, k, n))
<1>1. PICK b \in Bios : b = bio[p]  OBVIOUS
<1>2. /\ i \in 0..Len(b.segs) - 1 /\ k \in Nat /\ n \in Nat /\ k + n <= b.segs[i + 1]
      /\ Transfer(p, b.first + Offset(b, i) + k, Offset(b, i) + k + 1, n)
  BY <1>1 DEF Moves
<1>3. PICK f \in Nat, o \in Nat : f = b.first /\ o = Offset(b, i)
  <2>1. i \in 0..Len(b.segs)  BY <1>2, SegmentFacts
  <2>2. Offset(b, i) \in Nat /\ b.first \in Nat  BY <2>1, SegmentFacts, BioFacts
  <2>. QED  BY <2>2
<1>4. f + o + k + n <= NSectors /\ f + o + k + n \in Nat /\ NSectors \in Nat
  BY <1>2, <1>3, PortionFacts, SectorsAssumption
<1>5. /\ data \in [0..NSectors - 1 -> Byte] /\ buffer \in [Procs -> Seq(Byte)]
      /\ DOMAIN data = 0..NSectors - 1
  BY DEF TypeOK
<1>6. PICK S : S = Portion(b, i, k, n)  OBVIOUS
<1>7. S = f + o + k .. f + o + k + n - 1  BY <1>3, <1>6 DEF Portion
<1>8. /\ S # {}
      /\ \A s \in 0..NSectors - 1 :
           /\ s \in S <=> f + o + k <= s /\ s < f + o + k + n
           /\ o + k + 1 + s - (f + o + k) = s - f + 1
  <2>1. Entries(f, o, k, n)  BY EntriesAre
  <2>2. \A s \in 0..NSectors - 1 : s \in Int  OBVIOUS
  <2>. QED  BY ONLY <1>7, <2>1, <2>2, Zenon DEF Entries
<1>9. \A j \in 1..Count(b) :
        /\ (\E s \in S : s - f + 1 = j) <=> o + k + 1 <= j /\ j < o + k + 1 + n
        /\ f + o + k + j - (o + k + 1) = f + j - 1
  <2>1. Entries(f, o, k, n)  BY EntriesAre
  <2>2. \A j \in 1..Count(b) : j \in Int  OBVIOUS
  <2>. QED  BY ONLY <1>7, <2>1, <2>2, Zenon DEF Entries
<1>10. Transfer(p, f + o + k, o + k + 1, n) /\ ~(f + o + k + n > NSectors)
  <2>1. Transfer(p, f + o + k, o + k + 1, n)  BY <1>2, <1>3
  <2>2. ~(f + o + k + n > NSectors)
    <3>1. PICK e \in Nat, d \in Nat : e = f + o + k + n /\ d = NSectors /\ e <= d  BY <1>4
    <3>2. ~(e > d)  BY <3>1
    <3>. QED  BY <3>1, <3>2
  <2>. QED  BY <2>1, <2>2
<1>11. CASE b.op = "write"
  <2>1. /\ data' = [s \in 0..NSectors - 1 |->
                      IF f + o + k <= s /\ s < f + o + k + n
                      THEN buffer[p][o + k + 1 + s - (f + o + k)] ELSE data[s]]
        /\ UNCHANGED buffer
    BY <1>1, <1>5, <1>10, <1>11 DEF Transfer
  <2>2. data' = [s \in 0..NSectors - 1 |-> IF s \in S THEN buffer[p][s - f + 1] ELSE data[s]]
    BY <1>8, <2>1
  <2>3. S # {} /\ bio[p].op = "write" /\ bio[p].first = f  BY <1>1, <1>3, <1>8, <1>11
  <2>. QED  BY <1>1, <1>6, <2>1, <2>2, <2>3 DEF SectorsMoved
<1>12. CASE b.op # "write"
  <2>1. /\ buffer' = [buffer EXCEPT ![p] =
              [j \in DOMAIN buffer[p] |-> IF o + k + 1 <= j /\ j < o + k + 1 + n
                                          THEN data[f + o + k + j - (o + k + 1)] ELSE buffer[p][j]]]
        /\ UNCHANGED data
    BY <1>1, <1>10, <1>12 DEF Transfer
  <2>2. DOMAIN buffer[p] = 1..Count(b)  BY <1>1
  <2>3. [j \in DOMAIN buffer[p] |-> IF o + k + 1 <= j /\ j < o + k + 1 + n
                                    THEN data[f + o + k + j - (o + k + 1)] ELSE buffer[p][j]]
      = [j \in DOMAIN buffer[p] |-> IF \E s \in S : s - f + 1 = j
                                    THEN data[f + j - 1] ELSE buffer[p][j]]
    BY <1>9, <2>2
  <2>4. buffer' = [buffer EXCEPT ![p] =
              [j \in DOMAIN buffer[p] |-> IF \E s \in S : s - f + 1 = j
                                          THEN data[f + j - 1] ELSE buffer[p][j]]]
    BY <2>1, <2>3
  <2>. QED  BY <1>1, <1>3, <1>6, <1>12, <2>1, <2>4 DEF SectorsMoved
<1>. QED  BY <1>1, <1>6, <1>11, <1>12

\* What a request function or sbull_make_request does is a Move of SectorDisk:
\* p moves S, and the requests of E are over.
MovesOnly(p, S, E) ==
  /\ S \subseteq Ahead(p) /\ Ahead(p)' = Ahead(p) \ S
  /\ S # {} => p \in Pending
  /\ SectorsMoved(p, S)
  /\ UNCHANGED <<bio, media_change>> /\ Opened' = Opened
  /\ E \subseteq Pending /\ Pending' = Pending \ E
  /\ \A q \in E : Ahead(q)' = {}
  /\ \A q \in Procs : q # p => Ahead(q)' = Ahead(q)

RequestOf(p) == IF p \in Pending
                THEN [op |-> bio[p].op, first |-> bio[p].first, count |-> Count(bio[p])]
                ELSE NULL

LEMMA MoveIs ==
  ASSUME TypeOK, BiosHeld, NEW p \in Procs, NEW S, NEW E, MovesOnly(p, S, E)
  PROVE  [Disk!Next]_Disk!vars
<1> DEFINE requests == [q \in Procs |-> RequestOf(q)]
           todo     == [q \in Procs |-> Ahead(q)]
<1>1. \A q \in Pending : q \in Procs /\ bio[q] \in Bios  BY DEF Pending, BiosHeld, BioHeld, Underway
<1>2. \A q \in E : requests[q] # NULL
  <2>1. ASSUME NEW q \in E PROVE requests[q] # NULL
    <3>1. q \in Procs /\ q \in Pending /\ bio[q] \in Bios  BY <1>1 DEF MovesOnly
    <3>2. requests[q] \in Requests  BY <3>1, BioFacts DEF RequestOf
    <3>. QED  BY <3>2, NullAssumption
  <2>. QED  BY <2>1
<1>3. E \in SUBSET Procs /\ S \in SUBSET todo[p]  BY <1>1 DEF MovesOnly
<1>4. todo' = [todo EXCEPT ![p] = @ \ S]  BY DEF MovesOnly
<1>5. requests' = [q \in Procs |-> IF q \in E THEN NULL ELSE requests[q]]
  BY DEF MovesOnly, RequestOf
<1>6. \A q \in E : todo'[q] = {}
  <2>1. \A q \in E : q \in Procs  BY <1>3
  <2>. QED  BY <2>1 DEF MovesOnly
<1>7. S # {} => requests[p].op = bio[p].op /\ requests[p].first = bio[p].first
  BY DEF MovesOnly, RequestOf
<1>8. IF S # {} /\ requests[p].op = "write"
      THEN /\ data' = [s \in 0..NSectors - 1 |->
                         IF s \in S THEN buffer[p][s - requests[p].first + 1] ELSE data[s]]
           /\ UNCHANGED buffer
      ELSE /\ buffer' = [buffer EXCEPT ![p] =
                [j \in DOMAIN @ |-> IF \E s \in S : s - requests[p].first + 1 = j
                                    THEN data[requests[p].first + j - 1] ELSE @[j]]]
           /\ UNCHANGED data
  <2>1. CASE S # {}  BY <1>7, <2>1 DEF MovesOnly, SectorsMoved
  <2>2. CASE S = {}
    <3>1. \A j : ~(\E s \in S : s - requests[p].first + 1 = j)
          /\ ~(\E s \in S : s - bio[p].first + 1 = j)
      BY <2>2
    <3>2. UNCHANGED data /\ buffer' = [buffer EXCEPT ![p] = [j \in DOMAIN buffer[p] |-> buffer[p][j]]]
      BY <2>2, <3>1 DEF MovesOnly, SectorsMoved
    <3>. QED  BY <2>2, <3>1, <3>2
  <2>. QED  BY <2>1, <2>2
<1>9. UNCHANGED <<Opened, media_change>>  BY DEF MovesOnly
<1>10. Disk!Move(p, S, E)
  BY <1>2, <1>3, <1>4, <1>5, <1>6, <1>8, <1>9 DEF Disk!Move, RequestOf
<1>. QED  BY <1>3, <1>10 DEF Disk!Next

\* A portion of a segment is moved, and the bio stands after it.
Stands(p, i, k, n) ==
  \/ at' = [at EXCEPT ![p] = <<i, k + n>>]
  \/ at' = [at EXCEPT ![p] = <<i + 1, 0>>] /\ k + n = bio[p].segs[i + 1]

PortionMoved(p, i, k, n) ==
  /\ n \in Nat \ {0} /\ i = at[p][1] /\ k = at[p][2]
  /\ p \in Pending /\ bio[p].op # "special" /\ i < Len(bio[p].segs)
  /\ Moves(p, i, k, bio[p].first + Offset(bio[p], i) + k, n)
  /\ Stands(p, i, k, n)
  /\ UNCHANGED <<bio, media_change>>

LEMMA PortionAhead ==
  ASSUME TypeOK, BiosHeld, NEW p \in Procs, NEW i, NEW k, NEW n, PortionMoved(p, i, k, n)
  PROVE  /\ bio[p] \in Bios /\ i \in 0..Len(bio[p].segs) - 1 /\ k \in Nat
         /\ SectorsMoved(p, Portion(bio[p], i, k, n))
         /\ Portion(bio[p], i, k, n) \subseteq Ahead(p)
         /\ Remainder(bio[p], at'[p][1], at'[p][2]) = Ahead(p) \ Portion(bio[p], i, k, n)
         /\ \A q \in Procs : q # p => at'[q] = at[q]
<1>1. Underway(p) /\ BioHeld(p) /\ at[p][1] < Len(bio[p].segs)
  BY DEF PortionMoved, Pending, Underway, BiosHeld
<1>2. PICK b \in Bios : b = bio[p] /\ buffer[p] \in [1..Count(b) -> Byte]  BY <1>1, AtFacts
<1>3. i \in 0..Len(b.segs) - 1 /\ i \in Nat /\ k \in Nat /\ n \in Nat \ {0}
  BY <1>1, <1>2, AtFacts DEF PortionMoved
<1>4. Moves(p, i, k, b.first + Offset(b, i) + k, n) /\ k + n <= b.segs[i + 1]
  BY <1>2 DEF PortionMoved, Moves
<1>5. SectorsMoved(p, Portion(b, i, k, n))  BY <1>2, <1>3, <1>4, MovesSectors
<1>6. Ahead(p) = Remainder(b, i, k)  BY <1>2, AheadIs DEF PortionMoved
<1>7. /\ Portion(b, i, k, n) \subseteq Remainder(b, i, k)
      /\ Remainder(b, i, k) \ Portion(b, i, k, n) = Remainder(b, i, k + n)
      /\ k + n = b.segs[i + 1] => Remainder(b, i, k + n) = Remainder(b, i + 1, 0)
  BY <1>3, <1>4, PortionFacts
<1>8. /\ \A q \in Procs : q # p => at'[q] = at[q]
      /\ at'[p] = <<i, k + n>> \/ (at'[p] = <<i + 1, 0>> /\ k + n = b.segs[i + 1])
  BY <1>2 DEF PortionMoved, Stands, TypeOK
<1>9. Remainder(b, at'[p][1], at'[p][2]) = Remainder(b, i, k + n)
  <2>1. CASE at'[p] = <<i, k + n>>
    <3>1. at'[p][1] = i  BY <2>1
    <3>2. at'[p][2] = k + n  BY <2>1
    <3>. QED  BY <3>1, <3>2
  <2>2. CASE at'[p] = <<i + 1, 0>> /\ k + n = b.segs[i + 1]
    <3>1. at'[p][1] = i + 1  BY <2>2
    <3>2. at'[p][2] = 0  BY <2>2
    <3>. QED  BY <1>7, <2>2, <3>1, <3>2
  <2>. QED  BY <1>8, <2>1, <2>2
<1>. QED  BY <1>2, <1>3, <1>5, <1>6, <1>7, <1>8, <1>9

LEMMA PortionIsMove ==
  ASSUME TypeOK, BiosHeld, NEW p \in Procs, NEW i, NEW k, NEW n, PortionMoved(p, i, k, n),
         UNCHANGED pc
  PROVE  [Disk!Next]_Disk!vars
<1>1. PICK S : S = Portion(bio[p], i, k, n)  OBVIOUS
<1>2. /\ SectorsMoved(p, S) /\ S \subseteq Ahead(p)
      /\ Remainder(bio[p], at'[p][1], at'[p][2]) = Ahead(p) \ S
      /\ \A q \in Procs : q # p => at'[q] = at[q]
  BY <1>1, PortionAhead
<1>3. Pending' = Pending /\ Opened' = Opened  BY DEF Pending, Opened
<1>4. p \in Pending /\ bio[p].op # "special" /\ UNCHANGED <<bio, media_change>>  BY DEF PortionMoved
<1>5. Ahead(p)' = Ahead(p) \ S  BY <1>2, <1>3, <1>4 DEF Ahead, Remainder
<1>6. \A q \in Procs : q # p => Ahead(q)' = Ahead(q)  BY <1>2, <1>3, <1>4 DEF Ahead
<1>7. MovesOnly(p, S, {})  BY <1>2, <1>3, <1>4, <1>5, <1>6 DEF MovesOnly
<1>. QED  BY <1>7, MoveIs

\* The last segment, with which the request is over.
LEMMA LastIsMove ==
  ASSUME TypeOK, BiosHeld, NEW p \in Procs, NEW i, NEW k, NEW n, PortionMoved(p, i, k, n),
         at'[p] = <<i + 1, 0>>, i + 1 = Len(bio[p].segs),
         pc[p] = "waiting", pc'[p] = "done", \A q \in Procs : q # p => pc'[q] = pc[q]
  PROVE  [Disk!Next]_Disk!vars
<1>1. PICK S : S = Portion(bio[p], i, k, n)  OBVIOUS
<1>2. /\ SectorsMoved(p, S) /\ S \subseteq Ahead(p) /\ bio[p] \in Bios
      /\ Remainder(bio[p], at'[p][1], at'[p][2]) = Ahead(p) \ S
      /\ \A q \in Procs : q # p => at'[q] = at[q]
  BY <1>1, PortionAhead
<1>3. at'[p][1] = Len(bio[p].segs)  OBVIOUS
<1>4. at'[p][2] = 0  OBVIOUS
<1>5. Ahead(p) \ S = {}  BY <1>2, <1>3, <1>4, RemainderEnds
<1>6. Pending' = Pending \ {p} /\ Opened' = Opened  BY DEF Pending, Opened
<1>7. p \in Pending /\ UNCHANGED <<bio, media_change>>  BY DEF PortionMoved
<1>8. Ahead(p)' = {}  BY <1>6 DEF Ahead
<1>9. \A q \in Procs : q # p => Ahead(q)' = Ahead(q)  BY <1>2, <1>6, <1>7 DEF Ahead
<1>10. MovesOnly(p, S, {p})  BY <1>2, <1>5, <1>6, <1>7, <1>8, <1>9 DEF MovesOnly
<1>. QED  BY <1>10, MoveIs

\* Bios are over that have no sector ahead.
LEMMA EndIsMove ==
  ASSUME TypeOK, BiosHeld, NEW p \in Procs, NEW E \in SUBSET Procs,
         \A q \in E : q \in Pending /\ Ahead(q) = {} /\ pc'[q] = "done",
         \A q \in Procs : q \notin E => pc'[q] = pc[q],
         UNCHANGED <<bio, at, buffer, data, media_change>>
  PROVE  [Disk!Next]_Disk!vars
<1>1. Pending' = Pending \ E /\ Opened' = Opened  BY DEF Pending, Opened
<1>2. \A q \in Procs : Ahead(q)' = IF q \in E THEN {} ELSE Ahead(q)  BY <1>1 DEF Ahead
<1>3. \A q \in Procs : Ahead(q)' = Ahead(q)  BY <1>2
<1>4. SectorsMoved(p, {})
  <2>1. buffer[p] = [j \in DOMAIN buffer[p] |-> buffer[p][j]]  BY DEF TypeOK
  <2>2. buffer = [buffer EXCEPT ![p] = [j \in DOMAIN buffer[p] |-> buffer[p][j]]]
    BY <2>1 DEF TypeOK
  <2>3. [j \in DOMAIN buffer[p] |-> IF \E s \in {} : s - bio[p].first + 1 = j
                                    THEN data[bio[p].first + j - 1] ELSE buffer[p][j]]
        = [j \in DOMAIN buffer[p] |-> buffer[p][j]]
    OBVIOUS
  <2>. QED  BY <2>2, <2>3 DEF SectorsMoved
<1>5. MovesOnly(p, {}, E)  BY <1>1, <1>2, <1>3, <1>4 DEF MovesOnly
<1>. QED  BY <1>5, MoveIs

LEMMA NothingAhead ==
  ASSUME BiosHeld, NEW p \in Procs, Underway(p), bio[p].op = "special" \/ at[p][1] = Len(bio[p].segs)
  PROVE  Ahead(p) = {}
<1>1. bio[p] \in Bios /\ (at[p][1] = Len(bio[p].segs) => at[p][2] = 0)  BY DEF BiosHeld, BioHeld
<1>. QED  BY <1>1, AheadIs, RemainderEnds

LEMMA MakeRequestIsMove ==
  ASSUME SegmentsFound, TypeOK, BiosHeld, NEW p \in Procs, MakeRequest(p)
  PROVE  [Disk!Next]_Disk!vars
<1>1. PICK i, k : i = at[p][1] /\ k = at[p][2]  OBVIOUS
<1>2. Underway(p) /\ BioHeld(p) /\ i < Len(bio[p].segs)
  BY <1>1, MakeRequestMoves DEF BiosHeld
<1>3. EqualSegments
  <2>1. mode = "noqueue"  BY <1>2 DEF MakeRequest, BioHeld
  <2>. QED  BY <2>1 DEF SegmentsFound, TypeOK
<1>4. PICK b \in Bios : b = bio[p]  BY <1>1, <1>2, AtFacts
<1>5. i \in 0..Len(b.segs) - 1 /\ i \in Nat /\ k \in Nat /\ k < SegmentSectors(b, i)
  BY <1>1, <1>2, <1>4, AtFacts
<1>6. pc[p] = "xfer" /\ UNCHANGED <<bio, media_change, pc>>
      /\ at' = [at EXCEPT ![p] = IF k + 1 < SegmentSectors(b, i) THEN <<i, k + 1>> ELSE <<i + 1, 0>>]
  BY <1>1, <1>4 DEF MakeRequest
<1>7. p \in Pending /\ b.op # "special"  BY <1>2, <1>4, <1>6 DEF Pending, BioHeld
<1>8. SegmentSector(b, i) = b.first + Offset(b, i) /\ SegmentSectors(b, i) = b.segs[i + 1]
  BY <1>3, <1>5, <1>7, EqualFacts
<1>9. Moves(p, i, k, b.first + Offset(b, i) + k, 1)  BY <1>1, <1>4, <1>8, MakeRequestMoves
<1>10. Stands(p, i, k, 1)
  <2>1. b.segs[i + 1] \in Nat  BY <1>5, SegmentFacts
  <2>2. ~(k + 1 < SegmentSectors(b, i)) => k + 1 = b.segs[i + 1]  BY <1>5, <1>8, <2>1
  <2>. QED  BY <1>4, <1>6, <2>2 DEF Stands
<1>11. PortionMoved(p, i, k, 1)  BY <1>1, <1>2, <1>4, <1>6, <1>7, <1>9, <1>10 DEF PortionMoved
<1>. QED  BY <1>6, <1>11, PortionIsMove

\* What sbull_request and sbull_xfer_request move of the bio p, a segment.
LEMMA SegmentIsPortion ==
  ASSUME TypeOK, BiosHeld, NEW p \in Procs, pc[p] = "waiting", at[p][1] < Len(bio[p].segs),
         at[p][2] = 0, bio[p].op # "special",
         at' = [at EXCEPT ![p] = <<at[p][1] + 1, 0>>], UNCHANGED <<bio, media_change>>,
         Moves(p, at[p][1], 0, bio[p].first + Offset(bio[p], at[p][1]), bio[p].segs[at[p][1] + 1])
  PROVE  PortionMoved(p, at[p][1], 0, bio[p].segs[at[p][1] + 1])
<1>1. Underway(p) /\ BioHeld(p)  BY DEF Underway, BiosHeld
<1>2. PICK b \in Bios : \E i \in 0..Len(b.segs) - 1 : b = bio[p] /\ i = at[p][1]  BY <1>1, AtFacts
<1>3. PICK i \in 0..Len(b.segs) - 1 : b = bio[p] /\ i = at[p][1]  BY <1>2
<1>4. PICK n \in Nat \ {0} : n = b.segs[i + 1]  BY <1>3, SegmentFacts
<1>5. b.first + Offset(b, i) \in Nat /\ i \in Nat
  <2>1. i \in 0..Len(b.segs)  BY <1>3, SegmentFacts
  <2>2. b.first \in Nat /\ Offset(b, i) \in Nat  BY <2>1, BioFacts, SegmentFacts
  <2>. QED  BY <1>3, <2>2
<1>6. b.first + Offset(b, i) + 0 = b.first + Offset(b, i) /\ 0 + n = n  BY <1>4, <1>5
<1>7. p \in Pending  BY DEF Pending
<1>8. Stands(p, i, 0, n)  BY <1>3, <1>4, <1>6 DEF Stands
<1>9. Moves(p, i, 0, b.first + Offset(b, i) + 0, n)  BY <1>3, <1>4, <1>6
<1>. QED  BY <1>3, <1>4, <1>7, <1>8, <1>9 DEF PortionMoved

LEMMA SimpleIsMove ==
  ASSUME TypeOK, BiosHeld, Queued, Simple PROVE [Disk!Next]_Disk!vars
<1>1. PICK p : p = queue[1][1]  OBVIOUS
<1>2. /\ p \in Procs /\ pc[p] = "waiting" /\ at[p][1] < Len(bio[p].segs) /\ at[p][2] = 0
      /\ Moves(p, at[p][1], 0, bio[p].first + Offset(bio[p], at[p][1]), bio[p].segs[at[p][1] + 1])
  BY <1>1, SimpleMoves
<1>3. PICK i, n : i = at[p][1] /\ n = bio[p].segs[at[p][1] + 1]  OBVIOUS
<1>4. bio[p].op # "special" /\ at' = [at EXCEPT ![p] = <<i + 1, 0>>] /\ UNCHANGED <<bio, media_change>>
  BY <1>1, <1>3 DEF Simple
<1>5. PortionMoved(p, i, 0, n)  BY <1>2, <1>3, <1>4, SegmentIsPortion
<1>6. CASE i + 1 = Len(bio[p].segs)
  <2>1. queue # <<>> /\ Completed(1)  BY <1>1, <1>3, <1>6 DEF Simple
  <2>2. 1 \in 0..Len(queue[1]) /\ Over(1) = {p}
    <3>1. 1..1 = {1}  OBVIOUS
    <3>2. 1 \in 0..Len(queue[1])  BY <2>1, QueueHead
    <3>. QED  BY <1>1, <3>1, <3>2 DEF Over
  <2>3. pc'[p] = "done" /\ \A q \in Procs : q # p => pc'[q] = pc[q]
    BY <1>2, <2>1, <2>2, CompletedKeeps
  <2>4. at'[p] = <<i + 1, 0>>  BY <1>2, <1>4 DEF TypeOK
  <2>. QED  BY <1>2, <1>5, <1>6, <2>3, <2>4, LastIsMove
<1>7. CASE i + 1 # Len(bio[p].segs)
  <2>1. UNCHANGED pc  BY <1>1, <1>3, <1>7 DEF Simple
  <2>. QED  BY <1>2, <1>5, <2>1, PortionIsMove
<1>. QED  BY <1>6, <1>7

LEMMA XferRequestIsMove ==
  ASSUME SegmentsFound, TypeOK, BiosHeld, Queued, XferRequest PROVE [Disk!Next]_Disk!vars
<1>1. mode = "full" /\ UNCHANGED <<pc, bio, media_change>>  BY DEF XferRequest
<1>2. EqualSegments  BY <1>1 DEF SegmentsFound, TypeOK
<1>3. PICK p \in Procs :
        /\ pc[p] = "waiting" /\ at[p][1] < Len(bio[p].segs) /\ at[p][2] = 0
        /\ bio[p].op # "special" /\ at' = [at EXCEPT ![p] = <<at[p][1] + 1, 0>>]
        /\ Moves(p, at[p][1], 0, SegmentSector(bio[p], at[p][1]), SegmentSectors(bio[p], at[p][1]))
  BY XferMoves
<1>4. bio[p] \in Bios /\ at[p][1] \in 0..Len(bio[p].segs) - 1
  <2>1. Underway(p) /\ BioHeld(p)  BY <1>3 DEF Underway, BiosHeld
  <2>. QED  BY <1>3, <2>1, AtFacts
<1>5. /\ SegmentSector(bio[p], at[p][1]) = bio[p].first + Offset(bio[p], at[p][1])
      /\ SegmentSectors(bio[p], at[p][1]) = bio[p].segs[at[p][1] + 1]
  BY <1>2, <1>3, <1>4, EqualFacts
<1>6. PortionMoved(p, at[p][1], 0, bio[p].segs[at[p][1] + 1])
  BY <1>1, <1>3, <1>5, SegmentIsPortion
<1>. QED  BY <1>1, <1>6, PortionIsMove

LEMMA CompletedIsMove ==
  ASSUME TypeOK, BiosHeld, Queued, queue # <<>>, NEW k \in 0..Len(queue[1]), Completed(k),
         \A j \in 1..k : Ahead(queue[1][j]) = {},
         UNCHANGED <<bio, at, buffer, data, media_change>>
  PROVE  [Disk!Next]_Disk!vars
<1>1. /\ \A p \in Procs : pc'[p] = IF p \in Over(k) THEN "done" ELSE pc[p]
      /\ \A p \in Over(k) : p \in Procs /\ pc[p] = "waiting"
  BY CompletedKeeps
<1>2. \A p \in Over(k) : p \in Pending /\ Ahead(p) = {} /\ pc'[p] = "done"
  BY <1>1 DEF Pending, Over
<1>3. Over(k) \in SUBSET Procs /\ queue[1][1] \in Procs  BY <1>1, QueueHead
<1>. QED  BY <1>1, <1>2, <1>3, EndIsMove

LEMMA SkipIsMove == ASSUME TypeOK, BiosHeld, Queued, Skip PROVE [Disk!Next]_Disk!vars
<1>1. queue # <<>> /\ bio[queue[1][1]].op = "special" /\ Completed(1)
      /\ UNCHANGED <<bio, at, buffer, data, media_change>>
  BY DEF Skip, disk
<1>2. 1 \in 0..Len(queue[1]) /\ 1 \in 1..Len(queue[1])  BY <1>1, QueueHead
<1>3. queue[1][1] \in Procs /\ Underway(queue[1][1])  BY <1>1, <1>2, QueueHead DEF Underway
<1>4. Ahead(queue[1][1]) = {}  BY <1>1, <1>3, NothingAhead
<1>5. \A j \in 1..1 : j = 1  OBVIOUS
<1>. QED  BY <1>1, <1>2, <1>4, <1>5, CompletedIsMove

LEMMA FullEndIsMove == ASSUME TypeOK, BiosHeld, Queued, FullEnd PROVE [Disk!Next]_Disk!vars
<1>1. queue # <<>> /\ Completed(Len(queue[1]))  BY FullEnds
<1>2. /\ \A j \in 1..Len(queue[1]) : at[queue[1][j]][1] = Len(bio[queue[1][j]].segs)
      /\ UNCHANGED <<bio, at, buffer, data, media_change>>
  BY DEF FullEnd, disk
<1>3. \A j \in 1..Len(queue[1]) : queue[1][j] \in Procs /\ Underway(queue[1][j])
  BY <1>1, QueueHead DEF Underway
<1>4. \A j \in 1..Len(queue[1]) : Ahead(queue[1][j]) = {}  BY <1>2, <1>3, NothingAhead
<1>5. Len(queue[1]) \in 0..Len(queue[1])  BY <1>1, QueueHead
<1>. QED  BY <1>1, <1>2, <1>4, <1>5, CompletedIsMove

LEMMA BioEndioIsMove ==
  ASSUME TypeOK, BiosHeld, NEW p \in Procs, BioEndio(p) PROVE [Disk!Next]_Disk!vars
<1>1. pc[p] = "xfer" /\ pc'[p] = "done" /\ (\A q \in Procs : q # p => pc'[q] = pc[q])
      /\ UNCHANGED <<bio, at, buffer, data, media_change>>
  BY DEF BioEndio, Goto, io, disk, TypeOK
<1>2. p \in Pending /\ Underway(p) /\ at[p][1] = Len(bio[p].segs)
  BY <1>1 DEF Pending, Underway, BioEndio
<1>3. \A q \in {p} : q \in Pending /\ Ahead(q) = {} /\ pc'[q] = "done"  BY <1>1, <1>2, NothingAhead
<1>4. {p} \in SUBSET Procs /\ \A q \in Procs : q \notin {p} => pc'[q] = pc[q]  BY <1>1
<1>. QED  BY <1>1, <1>3, <1>4, EndIsMove

\* A step that leaves the pending bios alone leaves the requests that
\* SectorDisk sees alone, and what is ahead.
LEMMA RequestsKept ==
  ASSUME TypeOK, \A q \in Procs : q \in Pending => pc'[q] = pc[q] /\ bio'[q] = bio[q] /\ at'[q] = at[q],
         Pending' = Pending
  PROVE  \A q \in Procs : RequestOf(q)' = RequestOf(q) /\ Ahead(q)' = Ahead(q)
BY DEF RequestOf, Ahead

LEMMA SubmitIsSubmit ==
  ASSUME TypeOK, NEW p \in Procs, Submit(p) PROVE [Disk!Next]_Disk!vars
<1> DEFINE requests == [q \in Procs |-> RequestOf(q)]
           todo     == [q \in Procs |-> Ahead(q)]
<1>1. PICK b \in Bios, v \in Byte :
        /\ bio' = [bio EXCEPT ![p] = b]
        /\ at' = [at EXCEPT ![p] = <<0, 0>>]
        /\ buffer' = [buffer EXCEPT ![p] = [i \in 1..Count(b) |-> v]]
        /\ Goto(p, "idle", "xfer") \/ Goto(p, "idle", "waiting")
        /\ UNCHANGED <<data, media_change>>
  BY DEF Submit, disk
<1>2. /\ pc[p] = "idle" /\ pc'[p] \in {"xfer", "waiting"} /\ \A q \in Procs : q # p => pc'[q] = pc[q]
      /\ bio'[p] = b /\ at'[p] = <<0, 0>> /\ \A q \in Procs : q # p => bio'[q] = bio[q] /\ at'[q] = at[q]
  BY <1>1 DEF Goto, TypeOK
<1>3. p \in Opened /\ Opened' = Opened /\ p \notin Pending /\ Pending' = Pending \cup {p}
  BY <1>2 DEF Opened, Pending
<1>4. PICK r \in Requests : r = [op |-> b.op, first |-> b.first, count |-> Count(b)]  BY BioFacts
<1>5. RequestOf(p) = NULL /\ RequestOf(p)' = r  BY <1>2, <1>3, <1>4 DEF RequestOf
<1>6. Ahead(p)' = IF r.op = "special" THEN {} ELSE r.first .. r.first + r.count - 1
  <2>1. at'[p][1] = 0  BY <1>2
  <2>2. at'[p][2] = 0  BY <1>2
  <2>3. Ahead(p)' = IF b.op = "special" THEN {} ELSE Remainder(b, 0, 0)
    BY <1>2, <1>3, <2>1, <2>2 DEF Ahead, Remainder
  <2>. QED  BY <1>4, <2>3, RemainderEnds
<1>7. \A q \in Procs : q # p => RequestOf(q)' = RequestOf(q) /\ Ahead(q)' = Ahead(q)
  BY <1>2, <1>3 DEF RequestOf, Ahead
<1>8. requests' = [requests EXCEPT ![p] = r]  BY <1>5, <1>7
<1>9. todo' = [todo EXCEPT ![p] = IF r.op = "special" THEN {} ELSE r.first .. r.first + r.count - 1]
  BY <1>6, <1>7
<1>10. \E c \in [1..r.count -> Byte] : buffer' = [buffer EXCEPT ![p] = c]
  <2>1. [i \in 1..Count(b) |-> v] \in [1..r.count -> Byte]  BY <1>4
  <2>. QED  BY <1>1, <2>1
<1>11. requests[p] = NULL /\ UNCHANGED <<data, Opened, media_change>>  BY <1>1, <1>3, <1>5
<1>12. Disk!Submit(p, r)
  BY <1>3, <1>8, <1>9, <1>10, <1>11 DEF Disk!Submit, RequestOf
<1>. QED  BY <1>12 DEF Disk!Next

LEMMA ReturnIsReturn ==
  ASSUME TypeOK, NEW p \in Procs, Return(p) PROVE [Disk!Next]_Disk!vars
<1>1. /\ pc[p] = "done" /\ pc'[p] = "idle" /\ \A q \in Procs : q # p => pc'[q] = pc[q]
      /\ \A q \in Procs : q # p => bio'[q] = bio[q] /\ at'[q] = at[q]
      /\ buffer' = [buffer EXCEPT ![p] = <<>>] /\ UNCHANGED <<data, media_change>>
  BY DEF Return, Goto, TypeOK, disk
<1>2. Opened' = Opened /\ p \notin Pending /\ Pending' = Pending  BY <1>1 DEF Opened, Pending
<1>3. \A q \in Procs : RequestOf(q)' = RequestOf(q) /\ Ahead(q)' = Ahead(q)
  BY <1>1, <1>2, RequestsKept
<1>4. RequestOf(p) = NULL  BY <1>2 DEF RequestOf
<1>5. Disk!Return(p)  BY <1>1, <1>2, <1>3, <1>4 DEF Disk!Return, RequestOf
<1>. QED  BY <1>5 DEF Disk!Next

\* Nothing that SectorDisk sees.
LEMMA NothingSeen ==
  ASSUME TypeOK, UNCHANGED <<bio, at, buffer, data, media_change>>, Opened' = Opened, Pending' = Pending,
         \A q \in Procs : q \in Pending => pc'[q] = pc[q]
  PROVE  UNCHANGED Disk!vars
<1>1. \A q \in Procs : RequestOf(q)' = RequestOf(q) /\ Ahead(q)' = Ahead(q)  BY RequestsKept
<1>. QED  BY <1>1 DEF Disk!vars, RequestOf

LEMMA CallsAreCalls ==
  ASSUME Invariant, NEW p \in Procs, Calls(p) PROVE [Disk!Next]_Disk!vars
<1>1. TypeOK /\ UsersCount  BY DEF Invariant, IoInv
<1>2. pc \in [Procs -> Locations]  BY <1>1 DEF TypeOK
<1>3. UNCHANGED <<bio, at, buffer>>
  BY DEF Calls, OpenBegin, DelTimerSync, Open, ReleaseBegin, Release, io
<1>4. CASE OpenBegin(p) \/ DelTimerSync(p) \/ ReleaseBegin(p)
  <2>1. UNCHANGED <<data, media_change>>  BY <1>4 DEF OpenBegin, DelTimerSync, ReleaseBegin, disk
  <2>2. /\ \/ pc[p] \in {"closed", "opening"} /\ pc'[p] \in {"opening", "synced"}
           \/ pc[p] = "idle" /\ pc'[p] = "closing"
        /\ \A q \in Procs : q # p => pc'[q] = pc[q]
    BY <1>2, <1>4 DEF OpenBegin, DelTimerSync, ReleaseBegin, Goto
  <2>3. Opened' = Opened /\ Pending' = Pending /\ p \notin Pending  BY <2>2 DEF Opened, Pending
  <2>. QED  BY <1>1, <1>3, <2>1, <2>2, <2>3, NothingSeen
<1>5. CASE Open(p)
  <2>1. /\ pc[p] = "synced" /\ pc'[p] = "idle" /\ \A q \in Procs : q # p => pc'[q] = pc[q]
        /\ IF users = 0 THEN CheckDiskChange ELSE UNCHANGED <<data, media_change>>
    BY <1>2, <1>5 DEF Open, Goto
  <2>2. p \notin Opened /\ Opened' = Opened \cup {p} /\ Pending' = Pending /\ p \notin Pending
    BY <2>1 DEF Opened, Pending
  <2>3. users = 0 <=> Opened = {}  BY <1>1, FS_EmptySet DEF UsersCount
  <2>4. IF Opened = {} /\ media_change
        THEN data' = [s \in 0..NSectors - 1 |-> 0] /\ media_change' = FALSE
        ELSE UNCHANGED <<data, media_change>>
    <3>1. media_change \in BOOLEAN  BY <1>1 DEF TypeOK
    <3>2. CASE users = 0  BY <2>1, <2>3, <3>1, <3>2 DEF CheckDiskChange, Blank
    <3>3. CASE users # 0  BY <2>1, <2>3, <3>3
    <3>. QED  BY <3>2, <3>3
  <2>5. \A q \in Procs : RequestOf(q)' = RequestOf(q) /\ Ahead(q)' = Ahead(q)
    BY <1>1, <1>3, <2>1, <2>2, RequestsKept
  <2>6. Disk!Open(p)  BY <1>3, <2>2, <2>4, <2>5 DEF Disk!Open, RequestOf
  <2>. QED  BY <2>6 DEF Disk!Next
<1>6. CASE Release(p)
  <2>1. /\ pc[p] = "closing" /\ pc'[p] = "closed" /\ \A q \in Procs : q # p => pc'[q] = pc[q]
        /\ UNCHANGED <<data, media_change>>
    BY <1>2, <1>6 DEF Release, Goto
  <2>2. p \in Opened /\ Opened' = Opened \ {p} /\ Pending' = Pending /\ p \notin Pending
    BY <2>1 DEF Opened, Pending
  <2>3. \A q \in Procs : RequestOf(q)' = RequestOf(q) /\ Ahead(q)' = Ahead(q)
    BY <1>1, <1>3, <2>1, <2>2, RequestsKept
  <2>4. RequestOf(p) = NULL  BY <2>2 DEF RequestOf
  <2>5. Disk!Close(p)  BY <1>3, <2>1, <2>2, <2>3, <2>4 DEF Disk!Close, RequestOf
  <2>. QED  BY <2>5 DEF Disk!Next
<1>. QED  BY <1>4, <1>5, <1>6 DEF Calls

LEMMA KernelIsKernel ==
  ASSUME Invariant, Kernel PROVE [Disk!Next]_Disk!vars
<1>1. TypeOK /\ UsersCount  BY DEF Invariant, IoInv
<1>2. UNCHANGED <<pc, bio, at, buffer, data>>
  BY DEF Kernel, Expire, Invalidate, Unplug, QueueEmpty, io, disk
<1>3. Opened' = Opened /\ Pending' = Pending  BY <1>2 DEF Opened, Pending
<1>4. CASE UNCHANGED media_change  BY <1>1, <1>2, <1>3, <1>4, NothingSeen
<1>5. CASE Invalidate
  <2>1. media_change' = (media_change \/ users = 0) /\ media_change \in BOOLEAN
    BY <1>1, <1>5 DEF Invalidate, TypeOK
  <2>2. CASE users = 0
    <3>1. Opened = {} /\ media_change' = TRUE  BY <1>1, <2>1, <2>2, FS_EmptySet DEF UsersCount
    <3>2. \A q \in Procs : RequestOf(q)' = RequestOf(q) /\ Ahead(q)' = Ahead(q)
      BY <1>1, <1>2, <1>3, RequestsKept
    <3>3. Disk!ChangeMedium  BY <1>2, <1>3, <3>1, <3>2 DEF Disk!ChangeMedium, RequestOf
    <3>. QED  BY <3>3 DEF Disk!Next
  <2>3. CASE users # 0  BY <1>4, <2>1, <2>3
  <2>. QED  BY <2>2, <2>3
<1>6. CASE ~Invalidate
  <2>1. UNCHANGED media_change  BY <1>6 DEF Kernel, Expire, Unplug, QueueEmpty, disk
  <2>. QED  BY <1>4, <2>1
<1>. QED  BY <1>5, <1>6

LEMMA StepIsStep ==
  ASSUME SegmentsFound, Invariant, [Next]_vars PROVE [Disk!Next]_Disk!vars
<1>1. TypeOK /\ BiosHeld /\ Queued  BY DEF Invariant, IoInv
<1>2. CASE UNCHANGED vars
  <2>1. UNCHANGED <<pc, bio, at, buffer, data, media_change>>  BY <1>2 DEF vars, disk, io
  <2>2. Opened' = Opened /\ Pending' = Pending  BY <2>1 DEF Opened, Pending
  <2>. QED  BY <1>1, <2>1, <2>2, NothingSeen
<1>3. ASSUME NEW p \in Procs, Calls(p) PROVE [Disk!Next]_Disk!vars  BY <1>3, CallsAreCalls
<1>4. CASE Kernel  BY <1>4, KernelIsKernel
<1>5. CASE Transfers
  BY <1>1, <1>5, SubmitIsSubmit, ReturnIsReturn, MakeRequestIsMove, BioEndioIsMove, SkipIsMove,
     SimpleIsMove, XferRequestIsMove, FullEndIsMove DEF Transfers
<1>. QED  BY <1>2, <1>3, <1>4, <1>5, StepKinds

LEMMA InitIsInit == ASSUME Init PROVE Disk!Init
<1>1. Opened = {} /\ Pending = {}  BY DEF Init, Opened, Pending
<1>2. \A q \in Procs : RequestOf(q) = NULL /\ Ahead(q) = {}  BY <1>1 DEF RequestOf, Ahead
<1>. QED  BY <1>1, <1>2 DEF Init, Blank, Disk!Init, RequestOf

\* An array of sectors, each moved once by the request it belongs to, that is
\* lost only at the first open after a change of the medium: the disk implements
\* SectorDisk in all modes, where the segments of a bio have one length or
\* sbull_request alone is used.
THEOREM DiskIsSectorDisk ==
  ASSUME SegmentsFound PROVE Spec => IsSectorDisk
<1>1. Init => Disk!Init  BY InitIsInit
<1>2. Invariant /\ [Next]_vars => [Disk!Next]_Disk!vars  BY StepIsStep
<1>. QED  BY <1>1, <1>2, DiskCorrect, PTL DEF Spec, IsSectorDisk, Disk!Spec
=============================================================================
