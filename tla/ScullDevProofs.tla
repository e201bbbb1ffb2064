--------------------------- MODULE ScullDevProofs ---------------------------
(***************************************************************************)
(* Theorems about the scull devices and sculld.                            *)
(***************************************************************************)
EXTENDS Sculld, FiniteSetTheorems, TLAPS

(* Division: what a position is made of. *)

LEMMA DivMod ==
  ASSUME NEW f \in Nat, NEW d \in Nat \ {0}
  PROVE  /\ f \div d \in Nat /\ f % d \in 0..d - 1
         /\ f = (f \div d) * d + (f % d)
BY Z3

LEMMA DigitsUnique ==
  ASSUME NEW a \in Int, NEW b \in Int, NEW d \in Nat \ {0},
         NEW r \in 0..d - 1, NEW s \in 0..d - 1, a * d + r = b * d + s
  PROVE  a = b /\ r = s
<1>1. (a - b) * d = s - r /\ (b - a) * d = r - s  BY Z3
<1>2. s - r < d /\ r - s < d  OBVIOUS
<1>3. ~ a - b >= 1
  <2> SUFFICES ASSUME a - b >= 1 PROVE FALSE  OBVIOUS
  <2>1. (a - b) * d >= d  BY Z3
  <2>. QED  BY <1>1, <1>2, <2>1
<1>4. ~ b - a >= 1
  <2> SUFFICES ASSUME b - a >= 1 PROVE FALSE  OBVIOUS
  <2>1. (b - a) * d >= d  BY Z3
  <2>. QED  BY <1>1, <1>2, <2>1
<1>5. a = b  BY <1>3, <1>4
<1>. QED  BY <1>1, <1>5

LEMMA DivUnique ==
  ASSUME NEW a \in Nat, NEW d \in Nat \ {0}, NEW r \in 0..d - 1
  PROVE  (a * d + r) \div d = a /\ (a * d + r) % d = r
<1>1. a * d + r \in Nat  BY Z3
<1>2. a * d + r = ((a * d + r) \div d) * d + ((a * d + r) % d)
  BY <1>1, DivMod, Z3
<1>3. (a * d + r) \div d \in Nat /\ (a * d + r) % d \in 0..d - 1  BY <1>1, DivMod
<1>. QED  BY <1>2, <1>3, DigitsUnique, Z3

LEMMA ProductPositive ==
  ASSUME NEW q \in Nat \ {0}, NEW s \in Nat \ {0}
  PROVE  q * s \in Nat \ {0}
BY Z3

LEMMA ProductGrows ==
  ASSUME NEW a \in Nat, NEW b \in Nat, NEW q \in Nat, NEW s \in Nat, a <= b
  PROVE  a * q * s <= b * q * s
<1>1. (b - a) * q \in Nat  BY Z3
<1>2. (b - a) * q * s \in Nat  BY <1>1, Z3
<1>. QED  BY <1>2, Z3

\* The item, the quantum in it and the byte in that are digits of a position.
LEMMA Digits ==
  ASSUME NEW f \in Nat, NEW q \in Nat \ {0}, NEW s \in Nat \ {0}
  PROVE  /\ f \div (q * s) \in Nat
         /\ (f % (q * s)) \div q \in 0..s - 1
         /\ (f % (q * s)) % q \in 0..q - 1
         /\ f = (f \div (q * s)) * (q * s)
                + ((f % (q * s)) \div q) * q + ((f % (q * s)) % q)
<1> DEFINE d == q * s
<1>1. d \in Nat \ {0}  BY ProductPositive
<1>2. d = s * q  BY Z3
<1> HIDE DEF d
<1>3. f \div d \in Nat /\ f % d \in 0..d - 1 /\ f = (f \div d) * d + (f % d)
  BY <1>1, DivMod
<1>4. PICK rest \in Nat : rest = f % d /\ rest < d  BY <1>1, <1>3
<1>5. /\ rest \div q \in Nat /\ rest % q \in 0..q - 1
      /\ rest = (rest \div q) * q + (rest % q)
  BY <1>4, DivMod
<1>6. PICK k \in Nat : k = rest \div q  BY <1>5
<1>7. k < s
  <2> SUFFICES ASSUME k >= s PROVE FALSE  BY <1>6
  <2>1. k * q >= s * q  BY Z3
  <2>. QED  BY <1>1, <1>2, <1>4, <1>5, <1>6, <2>1
<1>8. /\ f \div d \in Nat
      /\ (f % d) \div q \in 0..s - 1
      /\ (f % d) % q \in 0..q - 1
  BY <1>3, <1>4, <1>5, <1>6, <1>7
<1>9. f = (f \div d) * d + ((f % d) \div q) * q + ((f % d) % q)
  <2>1. (f \div d) * d \in Int /\ k * q \in Int  BY <1>1, <1>3, Z3
  <2>2. f = (f \div d) * d + rest /\ rest = k * q + (rest % q)  BY <1>3, <1>4, <1>5, <1>6
  <2>3. f = (f \div d) * d + k * q + (rest % q)  BY <1>5, <2>1, <2>2
  <2>. QED  BY <1>4, <1>6, <2>3
<1>. QED  BY <1>8, <1>9 DEF d

Position(q, s, item, k, j) == item * (q * s) + k * q + j

\* And digits make one position.
LEMMA DigitsOf ==
  ASSUME NEW q \in Nat \ {0}, NEW s \in Nat \ {0},
         NEW item \in Nat, NEW k \in 0..s - 1, NEW j \in 0..q - 1
  PROVE  /\ Position(q, s, item, k, j) \div (q * s) = item
         /\ (Position(q, s, item, k, j) % (q * s)) \div q = k
         /\ Position(q, s, item, k, j) % q = j
<1> DEFINE f == Position(q, s, item, k, j)
<1>0. f = item * (q * s) + k * q + j  BY DEF Position
<1> HIDE DEF f
<1>1. q * s \in Nat \ {0}  BY ProductPositive
<1>2. k * q + j \in 0..(q * s) - 1
  <2>1. k * q + j \in Nat  BY Z3
  <2>2. k * q <= (s - 1) * q  BY Z3
  <2>. QED  BY <2>1, <2>2, Z3
<1>3. f \div (q * s) = item /\ f % (q * s) = k * q + j
  <2> DEFINE d == q * s
             r == k * q + j
  <2>1. d \in Nat \ {0} /\ r \in 0..d - 1 /\ f = item * d + r
    <3>1. item * (q * s) + k * q + j = item * (q * s) + (k * q + j)  BY <1>1, <1>2, Z3
    <3>. QED  BY <1>0, <1>1, <1>2, <3>1
  <2> HIDE DEF d, r
  <2>2. f \div d = item /\ f % d = r  BY <2>1, DivUnique
  <2>. QED  BY <2>2 DEF d, r
<1>4. (k * q + j) \div q = k /\ (k * q + j) % q = j  BY DivUnique
<1>5. f % q = j
  <2>1. item * s + k \in Nat  BY Z3
  <2>2. item * (q * s) + k * q + j = (item * s + k) * q + j  BY Z3
  <2> DEFINE a == item * s + k
  <2> HIDE DEF a
  <2>3. a \in Nat /\ f = a * q + j  BY <1>0, <2>1, <2>2 DEF a
  <2>4. (a * q + j) % q = j  BY <2>3, DivUnique
  <2>. QED  BY <2>3, <2>4
<1>. QED  BY <1>3, <1>4, <1>5 DEF f
-----------------------------------------------------------------------------
(* The list of a device of quantum q and qset s, and what allocation does to *)
(* it: it becomes longer and gets arrays and quanta, and no byte changes.    *)

Blocks(q)    == {NULL} \cup [0..q - 1 -> Data \cup {Junk}]
Arrays(q, s) == {NULL} \cup [0..s - 1 -> Blocks(q)]

\* The j-th byte of the k-th quantum of an item, Junk where there is none.
ByteIn(list, item, k, j) ==
  LET b == IF item < Len(list) THEN QuantumAt(list, [item |-> item, s_pos |-> k])
                               ELSE NULL
  IN  IF j \in DOMAIN b THEN b[j] ELSE Junk

\* What makes a list grow.
Grown(list, new, q, s) ==
  /\ new \in Seq(Arrays(q, s)) /\ Len(list) <= Len(new)
  /\ \A item, k, j \in Nat : ByteIn(new, item, k, j) = ByteIn(list, item, k, j)

LEMMA GrownAgain ==
  ASSUME NEW list, NEW mid, NEW new, NEW q \in Nat \ {0}, NEW s \in Nat \ {0},
         list \in Seq(Arrays(q, s)), Grown(list, mid, q, s), Grown(mid, new, q, s)
  PROVE  Grown(list, new, q, s)
<1>1. Len(list) \in Nat /\ Len(mid) \in Nat /\ Len(new) \in Nat  BY DEF Grown
<1>. QED  BY <1>1 DEF Grown

LEMMA NullEmpty == NULL = [i \in {} |-> Junk] /\ DOMAIN NULL = {}
BY DEF NULL

LEMMA FollowGrows ==
  ASSUME NEW q \in Nat \ {0}, NEW s \in Nat \ {0}, data \in Seq(Arrays(q, s)),
         NEW n \in Nat
  PROVE  Grown(data, Follow(n), q, s) /\ n <= Len(Follow(n))
<1>1. CASE n <= Len(data)
  <2>1. Follow(n) = data  BY <1>1 DEF Follow
  <2>. QED  BY <1>1, <2>1 DEF Grown
<1>2. CASE ~ n <= Len(data)
  <2> DEFINE more == [i \in 1..n - Len(data) |-> NULL]
  <2>1. more \in Seq(Arrays(q, s)) /\ Len(more) = n - Len(data)
    BY <1>2 DEF Arrays
  <2>2. Follow(n) = data \o more  BY <1>2 DEF Follow
  <2> HIDE DEF more
  <2>3. Follow(n) \in Seq(Arrays(q, s)) /\ Len(Follow(n)) = n  BY <2>1, <2>2, <1>2
  <2>4. \A i \in 1..n : Follow(n)[i] = IF i <= Len(data) THEN data[i] ELSE NULL
    BY <2>1, <2>2, <1>2 DEF more
  <2>5. ASSUME NEW item \in Nat, NEW k \in Nat, NEW j \in Nat
        PROVE  ByteIn(Follow(n), item, k, j) = ByteIn(data, item, k, j)
    <3>1. CASE item < Len(data)
      <4>1. Follow(n)[item + 1] = data[item + 1] /\ item < Len(Follow(n))
        BY <1>2, <2>3, <2>4, <3>1
      <4>. QED  BY <3>1, <4>1 DEF ByteIn, QuantumAt
    <3>2. CASE ~ item < Len(data) /\ item < n
      <4>1. Follow(n)[item + 1] = NULL  BY <1>2, <2>4, <3>2
      <4>2. QuantumAt(Follow(n), [item |-> item, s_pos |-> k]) = NULL
        BY <4>1, NullEmpty DEF QuantumAt
      <4>. QED  BY <2>3, <3>2, <4>2, NullEmpty DEF ByteIn
    <3>3. CASE ~ item < n
      BY <1>2, <2>3, <3>3 DEF ByteIn
    <3>. QED  BY <3>1, <3>2, <3>3
  <2>. QED  BY <1>2, <2>3, <2>5 DEF Grown
<1>. QED  BY <1>1, <1>2

LEMMA WithArrayGrows ==
  ASSUME NEW q \in Nat \ {0}, NEW s \in Nat \ {0}, NEW list \in Seq(Arrays(q, s)),
         NEW i \in 1..Len(list)
  PROVE  /\ Grown(list, WithArray(list, i, s), q, s)
         /\ WithArray(list, i, s)[i] \in [0..s - 1 -> Blocks(q)]
<1> DEFINE new == WithArray(list, i, s)
<1>1. list[i] \in Arrays(q, s)  OBVIOUS
<1>2. CASE list[i] # NULL
  BY <1>1, <1>2 DEF WithArray, Grown, Arrays
<1>3. CASE list[i] = NULL
  <2> DEFINE array == [k \in 0..s - 1 |-> NULL]
  <2>1. array \in [0..s - 1 -> Blocks(q)]  BY DEF Blocks
  <2>2. new = [list EXCEPT ![i] = array]  BY <1>3 DEF WithArray
  <2>3. array \in Arrays(q, s)  BY <2>1 DEF Arrays
  <2> HIDE DEF new, array
  <2>4. new \in Seq(Arrays(q, s)) /\ Len(new) = Len(list)
        /\ \A m \in 1..Len(list) : new[m] = IF m = i THEN array ELSE list[m]
    BY <2>2, <2>3
  <2>5. ASSUME NEW item \in Nat, NEW k \in Nat, NEW j \in Nat
        PROVE  ByteIn(new, item, k, j) = ByteIn(list, item, k, j)
    <3>1. CASE item + 1 = i
      <4>1. QuantumAt(list, [item |-> item, s_pos |-> k]) = NULL
        BY <1>3, <3>1, NullEmpty DEF QuantumAt
      <4>2. QuantumAt(new, [item |-> item, s_pos |-> k]) = NULL
        BY <2>4, <3>1 DEF QuantumAt, array
      <4>. QED  BY <2>4, <4>1, <4>2 DEF ByteIn
    <3>2. CASE item + 1 # i
      <4>1. item < Len(list) => new[item + 1] = list[item + 1]  BY <2>4, <3>2
      <4>. QED  BY <2>4, <4>1 DEF ByteIn, QuantumAt
    <3>. QED  BY <3>1, <3>2
  <2>. QED  BY <2>1, <2>4, <2>5 DEF Grown, new
<1>. QED  BY <1>2, <1>3

LEMMA WithQuantumGrows ==
  ASSUME NEW q \in Nat \ {0}, NEW s \in Nat \ {0}, NEW list \in Seq(Arrays(q, s)),
         NEW i \in 1..Len(list), NEW k \in 0..s - 1,
         list[i] \in [0..s - 1 -> Blocks(q)]
  PROVE  /\ Grown(list, WithQuantum(list, i, k, q), q, s)
         /\ WithQuantum(list, i, k, q)[i] \in [0..s - 1 -> Blocks(q)]
         /\ WithQuantum(list, i, k, q)[i][k] # NULL
<1> DEFINE new == WithQuantum(list, i, k, q)
<1>1. k \in DOMAIN list[i]  OBVIOUS
<1>2. CASE list[i][k] # NULL
  BY <1>1, <1>2 DEF WithQuantum, Grown
<1>3. CASE list[i][k] = NULL
  <2> DEFINE block == [j \in 0..q - 1 |-> Junk]
             array == [list[i] EXCEPT ![k] = block]
  <2>1. block \in Blocks(q) /\ block # NULL
    <3>1. 0 \in DOMAIN block  OBVIOUS
    <3>. QED  BY <3>1, NullEmpty DEF Blocks
  <2>2. new = [list EXCEPT ![i] = array]  BY <1>1, <1>3 DEF WithQuantum
  <2> HIDE DEF block
  <2>3. array \in [0..s - 1 -> Blocks(q)] /\ array[k] = block
        /\ \A m \in 0..s - 1 : m # k => array[m] = list[i][m]
    BY <2>1
  <2> HIDE DEF new, array
  <2>4. array \in Arrays(q, s)  BY <2>3 DEF Arrays
  <2>5. new \in Seq(Arrays(q, s)) /\ Len(new) = Len(list)
        /\ \A m \in 1..Len(list) : new[m] = IF m = i THEN array ELSE list[m]
    BY <2>2, <2>4
  <2>6. ASSUME NEW item \in Nat, NEW m \in Nat, NEW j \in Nat
        PROVE  ByteIn(new, item, m, j) = ByteIn(list, item, m, j)
    <3>1. CASE item + 1 = i /\ m = k
      <4>1. QuantumAt(list, [item |-> item, s_pos |-> m]) = NULL
        BY <1>1, <1>3, <3>1 DEF QuantumAt
      <4>2. QuantumAt(new, [item |-> item, s_pos |-> m]) = block
        BY <2>3, <2>5, <3>1 DEF QuantumAt
      <4>. QED  BY <2>5, <4>1, <4>2, NullEmpty DEF ByteIn, block
    <3>2. CASE item + 1 = i /\ m # k
      <4>1. QuantumAt(new, [item |-> item, s_pos |-> m])
              = QuantumAt(list, [item |-> item, s_pos |-> m])
        BY <2>3, <2>5, <3>2 DEF QuantumAt
      <4>. QED  BY <2>5, <4>1 DEF ByteIn
    <3>3. CASE item + 1 # i
      <4>1. item < Len(list) => new[item + 1] = list[item + 1]  BY <2>5, <3>3
      <4>. QED  BY <2>5, <4>1 DEF ByteIn, QuantumAt
    <3>. QED  BY <3>1, <3>2, <3>3
  <2>. QED  BY <2>1, <2>3, <2>5, <2>6 DEF Grown, new
<1>. QED  BY <1>2, <1>3
-----------------------------------------------------------------------------
(* The invariant *)

Types ==
  /\ size \in Nat
  /\ quantum \in {Quantum} \cup Quanta /\ qset \in {Qset} \cup Qsets
  /\ scull_quantum \in {Quantum} \cup Quanta /\ scull_qset \in {Qset} \cup Qsets
  /\ data \in Seq(Arrays(quantum, qset))
  /\ f_pos \in [Procs -> Nat]
  /\ geometry \in [Procs -> Nat \X Nat]
  /\ target \in [Procs -> [item : Nat, s_pos : Nat, q_pos : Nat, count : Nat]]
  /\ dangling = {}
  /\ got \in [Procs -> Seq(Data \cup {Junk})]
  /\ pc \in [Procs -> {"closed", "idle", "rd_down", "rd_copy", "wr_down", "wr_copy"}]

Calls == {p \in Procs : pc[p] \in {"rd_down", "wr_down"}}

Lock == \/ sem = 1 /\ Copying = {}
        \/ sem = 0 /\ \E p \in Procs : Copying = {p}

SizeFits == size <= Len(data) * quantum * qset

Started == \A p \in Calls \cup Copying : f_pos[p] < MaxPos

\* The bytes a call copies are n bytes of one quantum that is there, at the
\* digits of its position; a read stays below the size if it starts there.
Works(list, at, f, reading) ==
  /\ at.item < Len(list)
  /\ at.s_pos \in 0..qset - 1
  /\ at.q_pos < quantum /\ at.q_pos + at.count <= quantum
  /\ QuantumAt(list, at) # NULL
  /\ f = at.item * (quantum * qset) + at.s_pos * quantum + at.q_pos
  /\ reading => f + at.count <= size \/ f > size

Working == \A p \in Copying : Works(data, target[p], f_pos[p], pc[p] = "rd_copy")

\* What holds of a device for as long as no call has worked by another geometry
\* than that of its memory.
Inv == Types /\ Lock /\ SizeFits /\ Started /\ Working

LEMMA GeometryPositive ==
  ASSUME Types
  PROVE  quantum \in Nat \ {0} /\ qset \in Nat \ {0}
BY GeometryAssumption DEF Types
-----------------------------------------------------------------------------
(* A call that has got the lock *)

\* What read and write of both drivers do with it.
Located(p) ==
  /\ pc[p] \in {"rd_down", "wr_down"} /\ sem > 0 /\ ~Outdated(p)
  /\ Grown(data, data', quantum, qset)
  /\ geometry' = [geometry EXCEPT ![p] = NoGeometry]
  /\ UNCHANGED <<quantum, qset, size, params, f_pos, dangling, got>>
  /\ \/ Nothing(p)
     \/ \E to \in {"rd_copy", "wr_copy"}, n \in Nat :
          /\ Locked(p, to, Place(p), n)
          /\ Works(data', target'[p], f_pos[p], to = "rd_copy")

LEMMA PlaceDigits ==
  ASSUME Types, NEW p \in Calls, ~Outdated(p)
  PROVE  /\ Place(p).item \in Nat /\ Place(p).s_pos \in 0..qset - 1
         /\ Place(p).q_pos \in 0..quantum - 1
         /\ f_pos[p] = Place(p).item * (quantum * qset)
                       + Place(p).s_pos * quantum + Place(p).q_pos
<1>1. geometry[p][1] = quantum /\ geometry[p][2] = qset  BY DEF Outdated
<1>2. PICK f \in Nat : f = f_pos[p]  BY DEF Types, Calls
<1>3. PICK q \in Nat \ {0}, s \in Nat \ {0} : q = quantum /\ s = qset
  BY GeometryPositive
<1>4. /\ Place(p).item = f \div (q * s)
      /\ Place(p).s_pos = (f % (q * s)) \div q
      /\ Place(p).q_pos = (f % (q * s)) % q
  BY <1>1, <1>2, <1>3 DEF Place
<1> HIDE DEF Place
<1>5. /\ f \div (q * s) \in Nat
      /\ (f % (q * s)) \div q \in 0..s - 1
      /\ (f % (q * s)) % q \in 0..q - 1
      /\ f = (f \div (q * s)) * (q * s)
             + ((f % (q * s)) \div q) * q + ((f % (q * s)) % q)
  BY Digits
<1>6. /\ Place(p).item \in Nat /\ Place(p).s_pos \in 0..s - 1
      /\ Place(p).q_pos \in 0..q - 1
      /\ f = Place(p).item * (q * s) + Place(p).s_pos * q + Place(p).q_pos
  BY <1>4, <1>5, Zenon
<1>. QED  BY <1>2, <1>3, <1>6, Zenon

LEMMA CountsFit ==
  ASSUME Types, NEW p \in Calls, ~Outdated(p), NEW n \in Nat
  PROVE  /\ ToQuantumEnd(p, n) \in Nat
         /\ Place(p).q_pos + ToQuantumEnd(p, n) <= quantum
         /\ ToQuantumEnd(p, ToSize(p, n)) \in Nat
         /\ Place(p).q_pos + ToQuantumEnd(p, ToSize(p, n)) <= quantum
         /\ \/ f_pos[p] + ToQuantumEnd(p, ToSize(p, n)) <= size
            \/ f_pos[p] > size
<1>1. geometry[p][1] = quantum  BY DEF Outdated
<1>2. PICK j \in 0..quantum - 1 : Place(p).q_pos = j  BY PlaceDigits
<1>3. f_pos[p] \in Nat /\ size \in Nat  BY DEF Types, Calls
<1>4. quantum \in Nat \ {0}  BY GeometryPositive
<1>5. ToSize(p, n) \in Int
      /\ (f_pos[p] <= size => ToSize(p, n) \in Nat /\ f_pos[p] + ToSize(p, n) <= size)
  BY <1>3 DEF ToSize
<1>6. ASSUME NEW m \in Int
      PROVE  /\ ToQuantumEnd(p, m) \in Nat
             /\ j + ToQuantumEnd(p, m) <= quantum
             /\ m \in Nat => ToQuantumEnd(p, m) <= m
  BY <1>1, <1>2, <1>4 DEF ToQuantumEnd
<1>. QED  BY <1>2, <1>3, <1>5, <1>6

LEMMA LockedWorks ==
  ASSUME Types, NEW p \in Calls, ~Outdated(p), NEW to, NEW n \in Nat,
         Locked(p, to, Place(p), n), UNCHANGED <<quantum, qset, size, f_pos>>,
         Place(p).item < Len(data'), QuantumAt(data', Place(p)) # NULL,
         Place(p).q_pos + n <= quantum,
         to = "rd_copy" => f_pos[p] + n <= size \/ f_pos[p] > size
  PROVE  Works(data', target'[p], f_pos[p], to = "rd_copy")
<1>1. target'[p] = [item |-> Place(p).item, s_pos |-> Place(p).s_pos,
                    q_pos |-> Place(p).q_pos, count |-> n]
  BY DEF Locked, Types, Calls
<1>2. QuantumAt(data', target'[p]) # NULL  BY <1>1 DEF QuantumAt
<1>3. /\ Place(p).s_pos \in 0..qset - 1 /\ Place(p).q_pos < quantum
      /\ f_pos[p] = Place(p).item * (quantum * qset)
                    + Place(p).s_pos * quantum + Place(p).q_pos
  <2>1. Place(p).q_pos \in 0..quantum - 1 /\ quantum \in Nat
    BY PlaceDigits, GeometryPositive
  <2>. QED  BY <2>1, PlaceDigits
<1>4. /\ target'[p].item = Place(p).item /\ target'[p].s_pos = Place(p).s_pos
      /\ target'[p].q_pos = Place(p).q_pos /\ target'[p].count = n
  BY <1>1
<1>. QED  BY <1>2, <1>3, <1>4, Zenon DEF Works

LEMMA FailsGrow ==
  ASSUME Types, NEW n \in Nat, data' \in FollowFails(n)
  PROVE  Grown(data, data', quantum, qset)
<1>1. PICK k \in Len(data)..n - 1 : data' = Follow(k)  BY DEF FollowFails
<1>2. k \in Nat  BY DEF Types
<1>. QED  BY <1>1, <1>2, GeometryPositive, FollowGrows DEF Types

LEMMA ReadLocates ==
  ASSUME Types, NEW p \in Procs, ReadLocate(p) \/ SculldReadLocate(p), ~misfit'
  PROVE  Located(p)
<1>0. ~Outdated(p)  BY DEF ReadLocate, SculldReadLocate
<1> DEFINE place == Place(p)
<1>1. p \in Calls  BY DEF ReadLocate, SculldReadLocate, Calls
<1>2. place.item \in Nat  BY <1>0, <1>1, PlaceDigits
<1>3. /\ Grown(data, Follow(place.item + 1), quantum, qset)
      /\ place.item < Len(Follow(place.item + 1))
  <2>1. PICK n \in Nat : n = place.item + 1  BY <1>2
  <2>2. Grown(data, Follow(n), quantum, qset) /\ n <= Len(Follow(n))
    BY GeometryPositive, FollowGrows DEF Types
  <2>. QED  BY <1>2, <2>1, <2>2 DEF Grown
<1>4. CASE data' \in FollowFails(place.item + 1) /\ ReadLocate(p) /\ Nothing(p)
  BY <1>0, <1>2, <1>4, FailsGrow DEF ReadLocate, Located
<1>5. ASSUME data' = Follow(place.item + 1),
             UNCHANGED <<quantum, qset, size, params, f_pos, dangling, got>>,
             NEW n \in ReadCounts, QuantumAt(data', place) # NULL,
             Locked(p, "rd_copy", place, ToQuantumEnd(p, ToSize(p, n)))
      PROVE  \E to \in {"rd_copy", "wr_copy"}, m \in Nat :
                /\ Locked(p, to, Place(p), m)
                /\ Works(data', target'[p], f_pos[p], to = "rd_copy")
  <2>1. n \in Nat  BY CountAssumption
  <2>2. PICK m \in Nat : m = ToQuantumEnd(p, ToSize(p, n))  BY <1>0, <1>1, <2>1, CountsFit
  <2>3. /\ place.q_pos + m <= quantum
        /\ f_pos[p] + m <= size \/ f_pos[p] > size
    BY <1>0, <1>1, <2>1, <2>2, CountsFit
  <2>4. Works(data', target'[p], f_pos[p], "rd_copy" = "rd_copy")
    BY <1>0, <1>1, <1>3, <1>5, <2>2, <2>3, LockedWorks
  <2>. QED  BY <1>5, <2>2, <2>4
<1>6. CASE data' = Follow(place.item + 1)
  BY <1>0, <1>3, <1>5, <1>6 DEF ReadLocate, SculldReadLocate, Located
<1>. QED  BY <1>4, <1>6 DEF ReadLocate, SculldReadLocate, SculldFollow

\* A write that works by the geometry of the memory: in sculld, in the first item
\* or where the quanta are single pages.
LEMMA WriteLocates ==
  ASSUME Types, NEW p \in Procs, WriteLocate(p) \/ SculldWriteLocate(p), ~misfit'
  PROVE  Located(p)
<1> DEFINE place == Place(p)
           i     == place.item + 1
           list  == Follow(i)
           array == WithArray(list, i, qset)
           full  == WithQuantum(array, i, place.s_pos, quantum)
<1>0. /\ ~Outdated(p)
      /\ SculldWriteLocate(p) => ~ (place.item > 0 /\ Page # quantum)
  BY DEF WriteLocate, SculldWriteLocate
<1>1. p \in Calls  BY DEF WriteLocate, SculldWriteLocate, Calls
<1>2. place.item \in Nat /\ place.s_pos \in 0..qset - 1  BY <1>0, <1>1, PlaceDigits
<1>3. geometry[p][1] = quantum /\ geometry[p][2] = qset  BY <1>0 DEF Outdated
<1>4. quantum \in Nat \ {0} /\ qset \in Nat \ {0} /\ data \in Seq(Arrays(quantum, qset))
  BY GeometryPositive DEF Types
<1>5. WithPages(array, i, place.s_pos) = full \/ WriteLocate(p)
  <2>1. i = 1 \/ Page = quantum \/ WriteLocate(p)  BY <1>0, <1>2
  <2>. QED  BY <2>1 DEF WithPages
<1>6. /\ pc[p] = "wr_down" /\ sem > 0
      /\ \/ /\ data' = full
            /\ \E n \in WriteCounts : Locked(p, "wr_copy", place, ToQuantumEnd(p, n))
         \/ data' \in FollowFails(i) \cup {list, array} /\ Nothing(p)
      /\ geometry' = [geometry EXCEPT ![p] = NoGeometry]
      /\ UNCHANGED <<quantum, qset, size, params, f_pos, dangling, got>>
  BY <1>3, <1>5 DEF WriteLocate, SculldWriteLocate, SculldFollow
<1> HIDE DEF place
<1>7. Grown(data, list, quantum, qset) /\ i \in 1..Len(list)
  <2>1. PICK n \in Nat : n = i  BY <1>2 DEF place
  <2>2. Grown(data, Follow(n), quantum, qset) /\ n <= Len(Follow(n))
    BY <1>4, FollowGrows
  <2>. QED  BY <1>2, <2>1, <2>2 DEF Grown, place
<1> HIDE DEF list
<1>8. /\ Grown(list, array, quantum, qset)
      /\ array[i] \in [0..qset - 1 -> Blocks(quantum)]
  BY <1>4, <1>7, WithArrayGrows DEF Grown
<1> HIDE DEF array
<1>9. i \in 1..Len(array)  BY <1>7, <1>8 DEF Grown
<1>10. /\ Grown(array, full, quantum, qset)
       /\ full[i] \in [0..qset - 1 -> Blocks(quantum)] /\ full[i][place.s_pos] # NULL
  <2>1. array \in Seq(Arrays(quantum, qset))  BY <1>8 DEF Grown
  <2>2. PICK n \in 1..Len(array), k \in 0..qset - 1 : n = i /\ k = place.s_pos
    BY <1>2, <1>9
  <2>3. array[n] \in [0..qset - 1 -> Blocks(quantum)]  BY <1>8, <2>2
  <2>4. /\ Grown(array, WithQuantum(array, n, k, quantum), quantum, qset)
        /\ WithQuantum(array, n, k, quantum)[n] \in [0..qset - 1 -> Blocks(quantum)]
        /\ WithQuantum(array, n, k, quantum)[n][k] # NULL
    BY <1>4, <2>1, <2>3, WithQuantumGrows
  <2>. QED  BY <2>2, <2>4
<1> HIDE DEF full
<1>11. Grown(data, array, quantum, qset)  BY <1>4, <1>7, <1>8, GrownAgain
<1>12. Grown(data, full, quantum, qset)  BY <1>4, <1>10, <1>11, GrownAgain
<1>13. QuantumAt(full, place) # NULL /\ place.item < Len(full)
  <2>1. place.s_pos \in DOMAIN full[i]  BY <1>2, <1>10
  <2>2. QuantumAt(full, place) = full[i][place.s_pos]  BY <2>1 DEF QuantumAt
  <2>3. Len(array) <= Len(full) /\ Len(array) \in Nat /\ Len(full) \in Nat
    BY <1>8, <1>10 DEF Grown
  <2>. QED  BY <1>2, <1>9, <1>10, <2>2, <2>3
<1>14. CASE data' \in FollowFails(i) \cup {list, array} /\ Nothing(p)
  BY <1>0, <1>2, <1>6, <1>7, <1>11, <1>14, FailsGrow DEF Located
<1>15. ASSUME data' = full, NEW n \in WriteCounts,
              Locked(p, "wr_copy", place, ToQuantumEnd(p, n))
       PROVE  Located(p)
  <2>1. n \in Nat  BY CountAssumption
  <2>2. PICK m \in Nat : m = ToQuantumEnd(p, n)  BY <1>0, <1>1, <2>1, CountsFit
  <2>3. place.q_pos + m <= quantum  BY <1>0, <1>1, <2>1, <2>2, CountsFit DEF place
  <2>4. Works(data', target'[p], f_pos[p], "wr_copy" = "rd_copy")
    BY <1>0, <1>1, <1>6, <1>13, <1>15, <2>2, <2>3, LockedWorks DEF place
  <2>. QED  BY <1>0, <1>6, <1>12, <1>15, <2>2, <2>4 DEF Located, place
<1>. QED  BY <1>6, <1>14, <1>15
-----------------------------------------------------------------------------
(* A call that copies *)

LEMMA QuantumEndFits ==
  ASSUME NEW q \in Nat \ {0}, NEW s \in Nat \ {0}, NEW len \in Nat,
         NEW item \in Nat, item < len, NEW k \in 0..s - 1, NEW n \in Nat, n <= q
  PROVE  item * (q * s) + k * q + n <= len * q * s
<1>1. (k + 1) * q <= s * q  BY Z3
<1>2. (item + 1) * q * s <= len * q * s  BY ProductGrows
<1>. QED  BY <1>1, <1>2, Z3

LEMMA WorksFits ==
  ASSUME Types, Working, NEW p \in Copying
  PROVE  f_pos[p] + target[p].count <= Len(data) * quantum * qset
<1>1. PICK q \in Nat \ {0}, s \in Nat \ {0}, len \in Nat :
        q = quantum /\ s = qset /\ len = Len(data)
  BY GeometryPositive DEF Types
<1>2. target[p] \in [item : Nat, s_pos : Nat, q_pos : Nat, count : Nat]
  BY DEF Types, Copying
<1>3. Works(data, target[p], f_pos[p], pc[p] = "rd_copy")  BY DEF Working
<1>4. PICK item \in Nat, k \in 0..s - 1, j \in Nat, c \in Nat :
        /\ item = target[p].item /\ k = target[p].s_pos
        /\ j = target[p].q_pos /\ c = target[p].count
        /\ item < len /\ j + c <= q
  BY <1>1, <1>2, <1>3 DEF Works
<1>5. f_pos[p] = item * (q * s) + k * q + j  BY <1>1, <1>3, <1>4, Zenon DEF Works
<1>6. item * (q * s) + k * q + (j + c) <= len * q * s
  <2>1. PICK n \in Nat : n = j + c  BY <1>4
  <2>2. n <= q  BY <1>4, <2>1
  <2>3. item * (q * s) + k * q + n <= len * q * s  BY <1>4, <2>2, QuantumEndFits
  <2>. QED  BY <2>1, <2>3
<1>7. f_pos[p] + c = item * (q * s) + k * q + (j + c)  BY <1>5, Z3
<1>. QED  BY <1>1, <1>4, <1>6, <1>7

\* The bytes of a write, and nothing else, change.
Scribbled(p) ==
  LET at == target[p] IN
  /\ data' \in Seq(Arrays(quantum, qset)) /\ Len(data') = Len(data)
  /\ \A item, k, j \in Nat :
       IF /\ item = at.item /\ k = at.s_pos
          /\ at.q_pos <= j /\ j < at.q_pos + at.count
         THEN ByteIn(data', item, k, j) \in Data
         ELSE ByteIn(data', item, k, j) = ByteIn(data, item, k, j)

LEMMA ScribbleBytes ==
  ASSUME Types, Working, NEW p \in Copying, Scribble(p)
  PROVE  Scribbled(p)
<1> DEFINE at    == target[p]
           array == data[at.item + 1]
           block == array[at.s_pos]
<1>1. quantum \in Nat \ {0} /\ qset \in Nat \ {0} /\ data \in Seq(Arrays(quantum, qset))
  BY GeometryPositive DEF Types
<1>2. at \in [item : Nat, s_pos : Nat, q_pos : Nat, count : Nat]
  BY DEF Types, Copying
<1>3. /\ at.item + 1 \in 1..Len(data) /\ at.s_pos \in 0..qset - 1
      /\ at.q_pos + at.count <= quantum /\ QuantumAt(data, at) # NULL
  <2>1. Works(data, target[p], f_pos[p], pc[p] = "rd_copy")  BY DEF Working
  <2>2. /\ at.item < Len(data) /\ at.s_pos \in 0..qset - 1
        /\ at.q_pos + at.count <= quantum /\ QuantumAt(data, at) # NULL
    BY <2>1, Zenon DEF Works
  <2>. QED  BY <1>1, <1>2, <2>2
<1>4. array \in [0..qset - 1 -> Blocks(quantum)]
  <2>1. array \in Arrays(quantum, qset)  BY <1>1, <1>3
  <2>2. array # NULL  BY <1>3, NullEmpty DEF QuantumAt
  <2>. QED  BY <2>1, <2>2 DEF Arrays
<1>5. QuantumAt(data, at) = block  BY <1>3, <1>4 DEF QuantumAt
<1>6. block \in [0..quantum - 1 -> Data \cup {Junk}]
  BY <1>3, <1>4, <1>5 DEF Blocks
<1>7. PICK bytes \in [1..at.count -> Data] :
        data' = [data EXCEPT ![at.item + 1][at.s_pos] = Stored(@, at.q_pos, bytes)]
  BY <1>3 DEF Scribble, Types
<1> DEFINE new == Stored(block, at.q_pos, bytes)
<1>8. Len(bytes) = at.count  BY <1>2
<1>9. /\ new \in [0..quantum - 1 -> Data \cup {Junk}]
      /\ \A j \in 0..quantum - 1 :
           IF at.q_pos <= j /\ j < at.q_pos + at.count
             THEN new[j] \in Data ELSE new[j] = block[j]
  <2>1. ASSUME NEW j \in 0..quantum - 1, at.q_pos <= j, j < at.q_pos + at.count
        PROVE  j - at.q_pos + 1 \in 1..at.count
    BY <1>1, <1>2, <2>1
  <2>2. new = [j \in 0..quantum - 1 |->
                 IF at.q_pos <= j /\ j < at.q_pos + at.count
                   THEN bytes[j - at.q_pos + 1] ELSE block[j]]
    BY <1>6, <1>8 DEF Stored
  <2> HIDE DEF new, block, at
  <2>. QED  BY <1>6, <1>7, <2>1, <2>2
<1> HIDE DEF new
<1>10. /\ data' = [data EXCEPT ![at.item + 1] = [array EXCEPT ![at.s_pos] = new]]
  BY <1>7 DEF new
<1> DEFINE row == [array EXCEPT ![at.s_pos] = new]
<1>11. /\ row \in Arrays(quantum, qset) /\ row[at.s_pos] = new
       /\ DOMAIN row = DOMAIN array
       /\ \A k \in DOMAIN array : k # at.s_pos => row[k] = array[k]
  <2>1. new \in Blocks(quantum)  BY <1>9 DEF Blocks
  <2>. QED  BY <1>3, <1>4, <2>1 DEF Arrays
<1> HIDE DEF row
<1>12. /\ data' \in Seq(Arrays(quantum, qset)) /\ Len(data') = Len(data)
       /\ \A i \in 1..Len(data) : data'[i] = IF i = at.item + 1 THEN row ELSE data[i]
  <2>1. data' = [data EXCEPT ![at.item + 1] = row]  BY <1>10 DEF row
  <2>2. PICK n \in 1..Len(data) : n = at.item + 1  BY <1>3
  <2>3. data' = [data EXCEPT ![n] = row]  BY <2>1, <2>2
  <2>. QED  BY <1>1, <1>11, <2>2, <2>3
<1>13. ASSUME NEW item \in Nat, NEW k \in Nat, NEW j \in Nat
       PROVE  IF /\ item = at.item /\ k = at.s_pos
                 /\ at.q_pos <= j /\ j < at.q_pos + at.count
                THEN ByteIn(data', item, k, j) \in Data
                ELSE ByteIn(data', item, k, j) = ByteIn(data, item, k, j)
  <2> DEFINE here == [item |-> item, s_pos |-> k]
  <2>1. CASE item # at.item
    <3>1. item < Len(data) => data'[item + 1] = data[item + 1]
      BY <1>1, <1>2, <1>12, <2>1
    <3>. QED  BY <1>12, <2>1, <3>1 DEF ByteIn, QuantumAt
  <2>2. CASE item = at.item /\ k # at.s_pos
    <3>1. data'[item + 1] = row /\ data[item + 1] = array  BY <1>3, <1>12, <2>2
    <3>2. QuantumAt(data', here) = QuantumAt(data, here)
      BY <1>11, <2>2, <3>1 DEF QuantumAt
    <3>. QED  BY <1>12, <2>2, <3>2 DEF ByteIn
  <2>3. CASE item = at.item /\ k = at.s_pos
    <3>1. data'[item + 1] = row /\ data[item + 1] = array  BY <1>3, <1>12, <2>3
    <3>2. QuantumAt(data', here) = new /\ QuantumAt(data, here) = block
      BY <1>3, <1>4, <1>11, <2>3, <3>1 DEF QuantumAt
    <3>3. item < Len(data) /\ item < Len(data')  BY <1>1, <1>2, <1>3, <1>12, <2>3
    <3>4. ByteIn(data', item, k, j) = IF j \in 0..quantum - 1 THEN new[j] ELSE Junk
      BY <1>9, <3>2, <3>3 DEF ByteIn
    <3>5. ByteIn(data, item, k, j) = IF j \in 0..quantum - 1 THEN block[j] ELSE Junk
      BY <1>6, <3>2, <3>3 DEF ByteIn
    <3>6. at.q_pos <= j /\ j < at.q_pos + at.count => j \in 0..quantum - 1
      BY <1>1, <1>2, <1>3
    <3>. QED  BY <1>9, <2>3, <3>4, <3>5, <3>6
  <2>. QED  BY <2>1, <2>2, <2>3
<1>. QED  BY <1>12, <1>13 DEF Scribbled
-----------------------------------------------------------------------------
(* Every step preserves the invariant *)

LEMMA InvInit ==
  ASSUME Init PROVE Inv
<1>1. data \in Seq(Arrays(quantum, qset)) /\ Len(data) = 0  BY DEF Init
<1>2. Types
  <2>1. NoGeometry \in Nat \X Nat
        /\ NoTarget \in [item : Nat, s_pos : Nat, q_pos : Nat, count : Nat]
    BY DEF NoGeometry, NoTarget
  <2>2. [p \in Procs |-> <<>>] \in [Procs -> Seq(Data \cup {Junk})]  OBVIOUS
  <2>. QED  BY <1>1, <2>1, <2>2 DEF Init, Types
<1>3. 0 * quantum * qset = 0 /\ size = 0
  BY <1>2, GeometryPositive, Z3 DEF Init
<1>4. Calls = {} /\ Copying = {} /\ sem = 1  BY DEF Init, Calls, Copying
<1>. QED  BY <1>1, <1>2, <1>3, <1>4 DEF Inv, Lock, SizeFits, Started, Working

LEMMA OneCopies ==
  ASSUME Lock, NEW p \in Copying
  PROVE  Copying = {p} /\ sem = 0
BY DEF Lock

\* A step of a process that neither has the lock nor takes it.
Idle(p) ==
  \/ Open(p) \/ Release(p) \/ Seek(p) \/ Ioctl(p)
  \/ ReadCall(p) \/ WriteCall(p) \/ Interrupted(p)

LEMMA IdleLeaves ==
  ASSUME Types, NEW p \in Procs, Idle(p)
  PROVE  /\ UNCHANGED <<sem, dev, target, dangling>>
         /\ p \notin Copying /\ p \notin Copying'
         /\ f_pos' \in [Procs -> Nat]
         /\ \A r \in Procs \ {p} : pc'[r] = pc[r] /\ f_pos'[r] = f_pos[r]
         /\ p \in Calls' => f_pos'[p] < MaxPos
<1>1. CASE Open(p) \/ Release(p)
  <2>1. /\ UNCHANGED <<sem, dev, target, dangling, geometry>>
        /\ f_pos' = [f_pos EXCEPT ![p] = 0]
        /\ pc[p] \in {"closed", "idle"}
    BY <1>1 DEF Open, Release, Goto
  <2>2. PICK to \in {"closed", "idle"} : pc' = [pc EXCEPT ![p] = to]
    BY <1>1 DEF Open, Release, Goto
  <2>3. pc'[p] \in {"closed", "idle"}  BY <2>2 DEF Types
  <2>. QED  BY <2>1, <2>2, <2>3 DEF Types, Copying, Calls
<1>2. CASE Seek(p)
  <2>1. PICK newpos \in 0..MaxPos : f_pos' = [f_pos EXCEPT ![p] = newpos]
    BY <1>2 DEF Seek
  <2>. QED  BY <1>2, <2>1 DEF Seek, Types, Copying, Calls
<1>3. CASE Ioctl(p)
  BY <1>3 DEF Ioctl, Types, Copying, Calls, locals
<1>4. CASE ReadCall(p) \/ WriteCall(p) \/ Interrupted(p)
  <2>1. CASE Interrupted(p)
    BY <2>1 DEF Interrupted, Types, Copying, Calls
  <2>2. ASSUME NEW to \in {"rd_down", "wr_down"}, Call(p, to)
        PROVE  /\ UNCHANGED <<sem, dev, target, dangling, f_pos>>
               /\ p \notin Copying /\ p \notin Copying'
               /\ \A r \in Procs \ {p} : pc'[r] = pc[r]
               /\ f_pos'[p] < MaxPos
    BY <2>2 DEF Call, Goto, Types, Copying
  <2>. QED  BY <1>4, <2>1, <2>2 DEF ReadCall, WriteCall, Types
<1>. QED  BY <1>1, <1>2, <1>3, <1>4 DEF Idle

LEMMA IdleTypes ==
  ASSUME Types, NEW p \in Procs, Idle(p)
  PROVE  Types'
<1>1. UNCHANGED <<sem, dev, target, dangling>> /\ f_pos' \in [Procs -> Nat]
  BY IdleLeaves
<1>2. pc' \in [Procs -> {"closed", "idle", "rd_down", "rd_copy", "wr_down", "wr_copy"}]
  BY DEF Idle, Types, Open, Release, Seek, Ioctl, ReadCall, WriteCall, Call,
         Interrupted, Goto, locals
<1>3. geometry' \in [Procs -> Nat \X Nat]
  <2>1. <<quantum, qset>> \in Nat \X Nat /\ NoGeometry \in Nat \X Nat
    BY GeometryPositive DEF NoGeometry
  <2>. QED  BY <2>1 DEF Idle, Types, Open, Release, Seek, Ioctl, ReadCall, WriteCall,
                        Call, Interrupted, locals
<1>4. got' \in [Procs -> Seq(Data \cup {Junk})]
  <2>1. <<>> \in Seq(Data \cup {Junk})  OBVIOUS
  <2>. QED  BY <2>1 DEF Idle, Types, Open, Release, Seek, Ioctl, ReadCall, WriteCall,
                        Call, Interrupted, locals
<1>5. scull_quantum' \in {Quantum} \cup Quanta /\ scull_qset' \in {Qset} \cup Qsets
  BY DEF Idle, Types, Open, Release, Seek, Ioctl, ReadCall, WriteCall, Call,
         Interrupted, params
<1>6. UNCHANGED <<size, quantum, qset, data, target, dangling>>  BY <1>1 DEF dev
<1>. QED  BY <1>1, <1>2, <1>3, <1>4, <1>5, <1>6 DEF Types

LEMMA IdleStep ==
  ASSUME Inv, NEW p \in Procs, Idle(p)
  PROVE  Inv'
<1>1. Types /\ Lock /\ SizeFits /\ Started /\ Working  BY DEF Inv
<1>2. Types'  BY <1>1, IdleTypes
<1>3. UNCHANGED <<sem, data, quantum, qset, size, target>>
  BY <1>1, IdleLeaves DEF dev
<1>4. /\ Copying' = Copying /\ p \notin Copying
      /\ \A r \in Calls' : r = p \/ r \in Calls
      /\ \A r \in Procs \ {p} : pc'[r] = pc[r] /\ f_pos'[r] = f_pos[r]
  BY <1>1, IdleLeaves DEF Copying, Calls
<1>5. Lock'  BY <1>1, <1>3, <1>4 DEF Lock
<1>6. Started'
  <2>1. p \in Calls' => f_pos'[p] < MaxPos  BY <1>1, IdleLeaves
  <2>2. \A r \in Calls' \cup Copying' : r \in Procs  BY DEF Calls, Copying
  <2>. QED  BY <1>1, <1>4, <2>1, <2>2 DEF Started
<1>7. SizeFits'  BY <1>1, <1>3 DEF SizeFits
<1>8. Working'
  <2>1. \A r \in Copying : r # p /\ r \in Procs  BY <1>4 DEF Copying
  <2> SUFFICES ASSUME NEW r \in Copying'
               PROVE  Works(data, target[r], f_pos[r], pc[r] = "rd_copy")'
    BY DEF Working
  <2>2. /\ Works(data, target[r], f_pos[r], pc[r] = "rd_copy")
        /\ f_pos'[r] = f_pos[r] /\ pc'[r] = pc[r]
    BY <1>1, <1>4, <2>1 DEF Working
  <2>. QED  BY <1>3, <2>2 DEF Works, QuantumAt
<1>. QED  BY <1>2, <1>5, <1>6, <1>7, <1>8 DEF Inv

\* Nobody is in a copy when the open that trims has the lock.
LEMMA TrimStep ==
  ASSUME Inv, NEW p \in Procs, OpenTrim(p), LockedTrim
  PROVE  Inv'
<1>1. Types /\ Lock /\ SizeFits /\ Started /\ Working  BY DEF Inv
<1>2. sem = 1 /\ Copying = {}  BY <1>1 DEF OpenTrim, Lock
<1>3. /\ UNCHANGED <<sem, scull_quantum, scull_qset, geometry, target, got>>
      /\ data' = <<>> /\ size' = 0 /\ quantum' = scull_quantum /\ qset' = scull_qset
      /\ f_pos' = [f_pos EXCEPT ![p] = 0] /\ pc[p] = "closed"
      /\ pc' = [pc EXCEPT ![p] = "idle"]
  BY DEF OpenTrim, Trim, Goto, params
<1>4. dangling' = {}  BY <1>1, <1>2 DEF OpenTrim, Trim, Types, Copying
<1>5. Types'
  <2>1. <<>> \in Seq(Arrays(scull_quantum, scull_qset))  OBVIOUS
  <2>. QED  BY <1>1, <1>3, <1>4, <2>1 DEF Types
<1>6. Copying' = {}  BY <1>1, <1>2, <1>3 DEF Copying, Types
<1>7. \A r \in Calls' : r \in Calls /\ r # p  BY <1>1, <1>3 DEF Calls, Types
<1>8. Started'
  BY <1>1, <1>3, <1>6, <1>7 DEF Started, Types, Calls
<1>9. SizeFits'
  <2>1. 0 * quantum' * qset' = 0
    <3>1. PICK q \in Nat, s \in Nat : q = quantum' /\ s = qset'
      BY <1>5, GeometryAssumption DEF Types
    <3>2. 0 * q * s = 0  BY Z3
    <3>. QED  BY <3>1, <3>2
  <2>. QED  BY <1>3, <2>1 DEF SizeFits
<1>10. Lock' /\ Working'  BY <1>2, <1>3, <1>6 DEF Lock, Working
<1>. QED  BY <1>5, <1>8, <1>9, <1>10 DEF Inv

LEMMA LocatedStep ==
  ASSUME Inv, NEW p \in Procs, Located(p)
  PROVE  Inv'
<1>1. Types /\ Lock /\ SizeFits /\ Started /\ Working  BY DEF Inv
<1>2. sem = 1 /\ Copying = {} /\ p \in Calls  BY <1>1 DEF Located, Lock, Calls
<1>3. /\ UNCHANGED <<quantum, qset, size, scull_quantum, scull_qset, f_pos,
                     dangling, got>>
      /\ geometry' = [geometry EXCEPT ![p] = NoGeometry]
      /\ data' \in Seq(Arrays(quantum, qset)) /\ Len(data) <= Len(data')
  BY DEF Located, params, Grown
<1>4. PICK to \in {"idle", "rd_copy", "wr_copy"} : pc' = [pc EXCEPT ![p] = to]
  BY DEF Located, Nothing, Locked
<1>5. Types'
  <2>1. NoGeometry \in Nat \X Nat  BY DEF NoGeometry
  <2>2. geometry' \in [Procs -> Nat \X Nat]  BY <1>1, <1>3, <2>1 DEF Types
  <2>3. target' \in [Procs -> [item : Nat, s_pos : Nat, q_pos : Nat, count : Nat]]
    <3>1. /\ Place(p).item \in Nat /\ Place(p).s_pos \in Nat /\ Place(p).q_pos \in Nat
      BY <1>1, <1>2, GeometryPositive, PlaceDigits DEF Located
    <3>2. \A n \in Nat : [item |-> Place(p).item, s_pos |-> Place(p).s_pos,
                           q_pos |-> Place(p).q_pos, count |-> n]
                            \in [item : Nat, s_pos : Nat, q_pos : Nat, count : Nat]
      BY <3>1
    <3>3. CASE Nothing(p)  BY <1>1, <3>3 DEF Nothing, Types
    <3>4. ASSUME NEW next, NEW n \in Nat, Locked(p, next, Place(p), n)
          PROVE  target' \in [Procs -> [item : Nat, s_pos : Nat, q_pos : Nat, count : Nat]]
      BY <1>1, <3>2, <3>4 DEF Locked, Types
    <3>. QED  BY <3>3, <3>4 DEF Located
  <2>. QED  BY <1>1, <1>3, <1>4, <2>2, <2>3 DEF Types
<1>6. \A r \in Calls' : r \in Calls /\ r # p  BY <1>1, <1>4 DEF Calls, Types
<1>7. Copying' \subseteq {p}  BY <1>1, <1>2, <1>4 DEF Copying, Types
<1>8. Started'
  BY <1>1, <1>2, <1>3, <1>6, <1>7 DEF Started
<1>9. SizeFits'
  <2>1. PICK q \in Nat, s \in Nat, a \in Nat, b \in Nat :
          q = quantum /\ s = qset /\ a = Len(data) /\ b = Len(data')
    <3>1. Len(data) \in Nat /\ Len(data') \in Nat  BY <1>1, <1>3 DEF Types
    <3>2. quantum \in Nat /\ qset \in Nat  BY <1>1, GeometryPositive
    <3>. QED  BY <3>1, <3>2
  <2>2. a * q * s <= b * q * s  BY <1>3, <2>1, ProductGrows
  <2>3. size <= a * q * s /\ size \in Nat  BY <1>1, <2>1 DEF SizeFits, Types
  <2>4. a * q * s \in Int /\ b * q * s \in Int  BY Z3
  <2>5. size <= b * q * s  BY <2>2, <2>3, <2>4
  <2>. QED  BY <1>3, <2>1, <2>5 DEF SizeFits
<1>10. CASE Nothing(p)
  <2>1. Copying' = {} /\ sem' = 1
    BY <1>1, <1>2, <1>7, <1>10 DEF Nothing, Copying, Types
  <2>. QED  BY <1>5, <1>8, <1>9, <2>1 DEF Inv, Lock, Working
<1>11. ASSUME NEW go \in {"rd_copy", "wr_copy"}, NEW n \in Nat,
              Locked(p, go, Place(p), n),
              Works(data', target'[p], f_pos[p], go = "rd_copy")
       PROVE  Inv'
  <2>1. pc'[p] = go /\ Copying' = {p} /\ sem' = 0
    BY <1>1, <1>2, <1>7, <1>11 DEF Locked, Copying, Types
  <2>2. Works(data, target[p], f_pos[p], pc[p] = "rd_copy")'
    BY <1>3, <1>11, <2>1 DEF Works, QuantumAt
  <2>3. Working'  BY <2>1, <2>2 DEF Working
  <2>. QED  BY <1>5, <1>8, <1>9, <2>1, <2>3 DEF Inv, Lock
<1>. QED  BY <1>10, <1>11 DEF Located

\* What a read copies out of a quantum of the list.
LEMMA BytesRead ==
  ASSUME Types, Working, NEW p \in Copying
  PROVE  BytesOf(QuantumAt(data, target[p]), target[p].q_pos, target[p].count)
           \in [1..target[p].count -> Data \cup {Junk}]
<1> DEFINE at == target[p]
           block == QuantumAt(data, at)
<1>1. at.item + 1 \in 1..Len(data)
  <2>1. at.item \in Nat /\ Len(data) \in Nat  BY DEF Types, Copying
  <2>2. at.item < Len(data)  BY Zenon DEF Working, Works
  <2>. QED  BY <2>1, <2>2
<1>2. block \in Blocks(quantum)
  <2>1. data[at.item + 1] \in Arrays(quantum, qset)  BY <1>1 DEF Types
  <2>. QED  BY <2>1, NullEmpty DEF QuantumAt, Arrays, Blocks
<1>3. \A j \in DOMAIN block : block[j] \in Data \cup {Junk}
  BY <1>2, NullEmpty DEF Blocks
<1>. QED  BY <1>3 DEF BytesOf

LEMMA CopyStep ==
  ASSUME Inv, NEW p \in Procs, Copy(p)
  PROVE  Inv'
<1>1. Types /\ Lock /\ SizeFits /\ Started /\ Working  BY DEF Inv
<1>2. p \in Copying
  BY DEF Copy, ReadCopy, WriteCopy, ReadFault, WriteFault, Finish, Goto, Copying
<1>3. Copying = {p} /\ sem = 0  BY <1>1, <1>2, OneCopies
<1>4. /\ pc' = [pc EXCEPT ![p] = "idle"] /\ sem' = 1 /\ dangling' = {}
      /\ target' = [target EXCEPT ![p] = NoTarget]
      /\ UNCHANGED <<quantum, qset, scull_quantum, scull_qset, geometry>>
  <2>1. \E from \in {"rd_copy", "wr_copy"} : Finish(p, from)
    BY DEF Copy, ReadCopy, WriteCopy, ReadFault, WriteFault
  <2>2. UNCHANGED <<quantum, qset, scull_quantum, scull_qset, geometry>>
    BY DEF Copy, ReadCopy, WriteCopy, ReadFault, WriteFault, dev, params
  <2>. QED  BY <1>1, <1>3, <2>1, <2>2 DEF Finish, Goto, Types
<1>5. PICK n \in Nat : n = target[p].count  BY <1>1, <1>2 DEF Types, Copying
<1>6. /\ f_pos' \in [Procs -> Nat]
      /\ \A r \in Procs \ {p} : f_pos'[r] = f_pos[r]
  <2>1. f_pos' = f_pos \/ f_pos' = [f_pos EXCEPT ![p] = @ + n]
    BY <1>1, <1>5 DEF Copy, ReadCopy, WriteCopy, ReadFault, WriteFault, Types
  <2>2. f_pos[p] + n \in Nat /\ f_pos \in [Procs -> Nat]  BY <1>1, <1>5 DEF Types
  <2>. QED  BY <2>1, <2>2
<1>7. data' = data \/ Scribbled(p)
  BY <1>1, <1>2, ScribbleBytes
     DEF Copy, ReadCopy, WriteCopy, ReadFault, WriteFault, dev
<1>8. data' \in Seq(Arrays(quantum, qset)) /\ Len(data') = Len(data)
  BY <1>1, <1>7 DEF Scribbled, Types
<1>9. size' \in Nat /\ size' <= Len(data) * quantum * qset
  <2>1. size' = size \/ size' = f_pos[p] + n
    BY <1>1, <1>2, <1>5
       DEF Copy, ReadCopy, WriteCopy, ReadFault, WriteFault, dev, Types
  <2>2. f_pos[p] + n <= Len(data) * quantum * qset  BY <1>1, <1>2, <1>5, WorksFits
  <2>3. f_pos[p] \in Nat /\ size \in Nat  BY <1>1 DEF Types
  <2>. QED  BY <1>1, <2>1, <2>2, <2>3 DEF SizeFits
<1>10. got' \in [Procs -> Seq(Data \cup {Junk})]
  <2>1. got' = got \/ got' = [got EXCEPT ![p] =
               BytesOf(QuantumAt(data, target[p]), target[p].q_pos, n)]
    BY <1>1, <1>5 DEF Copy, ReadCopy, WriteCopy, ReadFault, WriteFault, Types
  <2>2. BytesOf(QuantumAt(data, target[p]), target[p].q_pos, n) \in Seq(Data \cup {Junk})
    <3>1. \A b \in [1..n -> Data \cup {Junk}] : b \in Seq(Data \cup {Junk})  BY <1>5
    <3>. QED  BY <1>1, <1>2, <1>5, <3>1, BytesRead
  <2>. QED  BY <1>1, <2>1, <2>2 DEF Types
<1>11. Types'
  <2>1. NoTarget \in [item : Nat, s_pos : Nat, q_pos : Nat, count : Nat]
    BY DEF NoTarget
  <2>. QED  BY <1>1, <1>4, <1>6, <1>8, <1>9, <1>10, <2>1 DEF Types
<1>12. Copying' = {} /\ Calls' = Calls /\ p \notin Calls
  BY <1>1, <1>2, <1>3, <1>4 DEF Copying, Calls, Types
<1>13. Lock' /\ Working'  BY <1>4, <1>12 DEF Lock, Working
<1>14. Started'
  <2>1. \A r \in Calls : r \in Procs \ {p}  BY <1>12 DEF Calls
  <2>. QED  BY <1>1, <1>6, <1>12, <2>1 DEF Started
<1>15. SizeFits'  BY <1>4, <1>8, <1>9 DEF SizeFits
<1>. QED  BY <1>11, <1>13, <1>14, <1>15 DEF Inv

\* A step of either driver, as what it does to the device.
Step(p) == Idle(p) \/ OpenTrim(p) \/ Located(p) \/ Copy(p)

LEMMA StepInv ==
  ASSUME Inv, LockedTrim, NEW p \in Procs, Step(p)
  PROVE  Inv'
BY IdleStep, TrimStep, LocatedStep, CopyStep DEF Step

LEMMA ScullStep ==
  ASSUME Inv, Next, ~misfit'
  PROVE  \E p \in Procs : Step(p)
BY ReadLocates, WriteLocates DEF Inv, Next, Locate, Step, Idle

LEMMA SculldStep ==
  ASSUME Inv, SculldNext, ~misfit'
  PROVE  \E p \in Procs : Step(p)
BY ReadLocates, WriteLocates
   DEF Inv, SculldNext, SculldOpen, SculldRelease, SculldSeek, SculldRead, SculldWrite,
       Step, Idle, Copy

LEMMA InvUnchanged ==
  ASSUME Inv, UNCHANGED vars
  PROVE  Inv'
BY DEF Inv, Types, Lock, SizeFits, Started, Working, Works, QuantumAt, Calls, Copying,
       vars, dev, params, locals

-----------------------------------------------------------------------------
(* The theorems *)

States == {"closed", "idle", "rd_down", "rd_copy", "wr_down", "wr_copy"}

LockInv == Lock /\ pc \in [Procs -> States]

LEMMA LockStep ==
  ASSUME LockInv, NEW p \in Procs,
         \/ Idle(p) \/ OpenTrim(p) \/ Locate(p) \/ Copy(p)
         \/ SculldReadLocate(p) \/ SculldWriteLocate(p)
  PROVE  LockInv'
<1>1. Lock /\ pc \in [Procs -> States]  BY DEF LockInv
<1>2. ASSUME UNCHANGED sem, p \notin Copying,
             NEW to \in States \ {"rd_copy", "wr_copy"}, pc' = [pc EXCEPT ![p] = to]
      PROVE  LockInv'
  <2>1. Copying' = Copying  BY <1>1, <1>2 DEF Copying
  <2>. QED  BY <1>1, <1>2, <2>1 DEF LockInv, Lock
<1>3. CASE Idle(p) \/ OpenTrim(p)
  <2>1. CASE Seek(p) \/ Ioctl(p)
    <3>1. UNCHANGED <<sem, pc>>  BY <2>1 DEF Seek, Ioctl
    <3>. QED  BY <1>1, <3>1 DEF LockInv, Lock, Copying
  <2>2. CASE ~ (Seek(p) \/ Ioctl(p))
    <3>1. /\ UNCHANGED sem /\ p \notin Copying
          /\ \E to \in States \ {"rd_copy", "wr_copy"} : pc' = [pc EXCEPT ![p] = to]
      BY <1>3, <2>2 DEF Idle, Open, OpenTrim, Release, ReadCall, WriteCall, Call,
                        Interrupted, Goto, Copying, States
    <3>. QED  BY <1>2, <3>1
  <2>. QED  BY <2>1, <2>2
<1>4. CASE Locate(p) \/ SculldReadLocate(p) \/ SculldWriteLocate(p)
  <2>1. sem = 1 /\ Copying = {}
    BY <1>1, <1>4 DEF Locate, ReadLocate, WriteLocate, SculldReadLocate,
                      SculldWriteLocate, Lock
  <2>2. \/ Nothing(p)
        \/ \E to \in {"rd_copy", "wr_copy"} : \E place, n : Locked(p, to, place, n)
    BY <1>4 DEF Locate, ReadLocate, WriteLocate, SculldReadLocate, SculldWriteLocate
  <2>3. CASE Nothing(p)  BY <1>2, <2>1, <2>3 DEF Nothing, States
  <2>4. ASSUME NEW to \in {"rd_copy", "wr_copy"}, pc' = [pc EXCEPT ![p] = to], sem' = sem - 1
        PROVE  LockInv'
    <3>1. Copying' = {p}  BY <1>1, <2>1, <2>4 DEF Copying
    <3>. QED  BY <1>1, <2>1, <2>4, <3>1 DEF LockInv, Lock, States
  <2>. QED  BY <2>2, <2>3, <2>4 DEF Locked
<1>5. CASE Copy(p)
  <2>1. p \in Copying /\ pc' = [pc EXCEPT ![p] = "idle"] /\ sem' = sem + 1
    BY <1>5 DEF Copy, ReadCopy, WriteCopy, ReadFault, WriteFault, Finish, Goto, Copying
  <2>2. Copying = {p} /\ sem = 0  BY <1>1, <2>1, OneCopies
  <2>3. Copying' = {}  BY <1>1, <2>1, <2>2 DEF Copying
  <2>. QED  BY <1>1, <2>1, <2>2, <2>3 DEF LockInv, Lock, States
<1>. QED  BY <1>3, <1>4, <1>5

LEMMA LockIsExclusion ==
  ASSUME Lock PROVE MutualExclusion
<1>1. CASE sem = 1 /\ Copying = {}
  BY <1>1, FS_EmptySet DEF MutualExclusion
<1>2. ASSUME sem = 0, NEW p \in Procs, Copying = {p} PROVE MutualExclusion
  <2>1. Cardinality({p}) = 1  BY FS_Singleton
  <2>. QED  BY <1>2, <2>1 DEF MutualExclusion
<1>. QED  BY <1>1, <1>2 DEF Lock

LEMMA LockStarts ==
  ASSUME FamilyInit PROVE LockInv
<1>1. Copying = {}  BY DEF FamilyInit, Init, Copying
<1>. QED  BY <1>1 DEF FamilyInit, Init, LockInv, Lock, States

LEMMA LockStays ==
  ASSUME LockInv, [FamilyNext]_<<vars, driver>>
  PROVE  LockInv'
<1>1. CASE Next
  BY <1>1, LockStep DEF Next, Idle
<1>2. CASE SculldNext
  BY <1>2, LockStep DEF SculldNext, SculldOpen, SculldRelease, SculldSeek,
                        SculldRead, SculldWrite, Idle, Copy
<1>3. CASE UNCHANGED <<vars, driver>>
  BY <1>3 DEF vars, LockInv, Lock, Copying
<1>. QED  BY <1>1, <1>2, <1>3 DEF FamilyNext

\* dev->sem is free exactly when nobody copies, on every path of read and write
\* of both drivers, also where an open does not take it, a geometry is outdated
\* or memory is missing.
THEOREM LockCorrect == FamilySpec => []MutualExclusion
<1>1. LockInv => MutualExclusion  BY LockIsExclusion DEF LockInv
<1>. QED  BY <1>1, LockStarts, LockStays, PTL DEF FamilySpec

\* Nothing makes the device forget that a call has worked by another geometry.
LEMMA MisfitStays ==
  ASSUME FamilyNext, misfit
  PROVE  misfit'
BY DEF FamilyNext, Next, SculldNext, SculldOpen, SculldRelease, SculldSeek, SculldRead,
       SculldWrite, Open, OpenTrim, Release, Seek, Ioctl, ReadCall, WriteCall, Call,
       Interrupted, Locate, ReadLocate, WriteLocate, SculldReadLocate, SculldWriteLocate,
       Copy, ReadCopy, WriteCopy, ReadFault, WriteFault, locals

LEMMA FamilySteps ==
  ASSUME Inv, FamilyNext, ~misfit'
  PROVE  \E p \in Procs : Step(p)
BY ScullStep, SculldStep DEF FamilyNext

\* Where the open that trims takes the semaphore, as those of main.c do, it frees
\* nothing that is being copied, whatever geometry the calls work by.
NothingFreed == LockInv /\ dangling = {}

LEMMA NothingFreedStep ==
  ASSUME NothingFreed, LockedTrim, [FamilyNext]_<<vars, driver>>
  PROVE  NothingFreed'
<1>1. LockInv'  BY LockStays DEF NothingFreed
<1>2. ASSUME NEW p \in Procs, OpenTrim(p)
      PROVE  dangling' = {}
  <2>1. Copying = {}  BY <1>2 DEF NothingFreed, LockInv, Lock, OpenTrim
  <2>. QED  BY <1>2, <2>1 DEF OpenTrim, Trim, NothingFreed, Copying
<1>3. ASSUME NEW p \in Procs, Copy(p)
      PROVE  dangling' = {}
  BY <1>3 DEF Copy, ReadCopy, WriteCopy, ReadFault, WriteFault, Finish, NothingFreed
<1>4. ASSUME Next PROVE dangling' = {}
  BY <1>2, <1>3, <1>4 DEF Next, NothingFreed, Open, Release, Seek, Ioctl, ReadCall,
     WriteCall, Call, Interrupted, Locate, ReadLocate, WriteLocate, locals
<1>5. ASSUME SculldNext PROVE dangling' = {}
  BY <1>2, <1>3, <1>5 DEF SculldNext, NothingFreed, SculldOpen, SculldRelease,
     SculldSeek, SculldRead, SculldWrite, Open, Release, Seek, ReadCall, WriteCall, Call,
     Interrupted, SculldReadLocate, SculldWriteLocate, Copy
<1>6. ASSUME UNCHANGED vars PROVE dangling' = {}
  BY <1>6 DEF NothingFreed, vars, locals
<1>7. dangling' = {}
  <2>1. Next \/ SculldNext \/ UNCHANGED vars  BY DEF FamilyNext
  <2>. QED  BY <1>4, <1>5, <1>6, <2>1
<1>. QED  BY <1>1, <1>7 DEF NothingFreed

\* The invariant of both drivers.
FamilyInv == NothingFreed /\ (~misfit => Inv)

LEMMA FamilyStep ==
  ASSUME LockedTrim, FamilyInv, [FamilyNext]_<<vars, driver>>
  PROVE  FamilyInv'
<1>1. NothingFreed'  BY NothingFreedStep DEF FamilyInv
<1>2. CASE FamilyNext
  <2>1. ASSUME ~misfit' PROVE Inv'
    <3>1. Inv  BY <1>2, <2>1, MisfitStays DEF FamilyInv
    <3>. QED  BY <1>2, <2>1, <3>1, FamilySteps, StepInv
  <2>. QED  BY <1>1, <2>1 DEF FamilyInv
<1>3. CASE UNCHANGED <<vars, driver>>
  <2>1. UNCHANGED misfit  BY <1>3 DEF vars, locals
  <2>. QED  BY <1>1, <1>3, <2>1, InvUnchanged DEF FamilyInv
<1>. QED  BY <1>2, <1>3

\* The invariant holds in every state, where the open that trims takes the
\* semaphore, as those of main.c and of sculld do.
THEOREM DevicesCorrect ==
  ASSUME LockedTrim
  PROVE  FamilySpec => []FamilyInv
<1>1. FamilyInit => FamilyInv
  BY InvInit, LockStarts DEF FamilyInit, FamilyInv, NothingFreed, Inv, Types
<1>2. FamilyInv /\ [FamilyNext]_<<vars, driver>> => FamilyInv'
  BY FamilyStep
<1>. QED  BY <1>1, <1>2, PTL DEF FamilySpec

LEMMA WorksInQuantum ==
  ASSUME Types, Working
  PROVE  StaysInQuantum
<1> SUFFICES ASSUME NEW p \in Copying
             PROVE  /\ QuantumAt(data, target[p]) # NULL
                    /\ target[p].q_pos + target[p].count
                         <= Cardinality(DOMAIN QuantumAt(data, target[p]))
  BY DEF StaysInQuantum
<1> DEFINE at == target[p]
<1>1. Works(data, at, f_pos[p], pc[p] = "rd_copy")  BY DEF Working
<1>2. /\ at.item < Len(data) /\ at.q_pos + at.count <= quantum
      /\ QuantumAt(data, at) # NULL
  BY <1>1, Zenon DEF Works
<1>3. quantum \in Nat \ {0} /\ at.item \in Nat /\ Len(data) \in Nat
  <2>1. quantum \in Nat \ {0}  BY GeometryPositive
  <2>. QED  BY <2>1 DEF Types, Copying
<1>4. data[at.item + 1] \in Arrays(quantum, qset)  BY <1>2, <1>3 DEF Types
<1>5. DOMAIN QuantumAt(data, at) = 0..quantum - 1
  BY <1>2, <1>4, NullEmpty DEF QuantumAt, Arrays, Blocks
<1>6. Cardinality(0..quantum - 1) = quantum
  <2>1. PICK last \in Int : last = quantum - 1 /\ ~ 0 > last  BY <1>3
  <2>2. Cardinality(0..last) = last - 0 + 1  BY <2>1, FS_Interval
  <2>. QED  BY <1>3, <2>1, <2>2
<1>. QED  BY <1>2, <1>5, <1>6

\* No open of main.c or sculld frees what a read or a write copies.  Until a call
\* has worked by a quantum and a qset that were tuned away while it waited for
\* dev->sem (main.c:298), or in a further item of a sculld device whose order is
\* not 0 (sculld/main.c:151), it copies inside one quantum that the device has.
THEOREM CopiesCorrect ==
  ASSUME LockedTrim
  PROVE  FamilySpec => []CopiesInside
<1>1. FamilyInv => CopiesInside
  <2> SUFFICES ASSUME Types, Lock, Working PROVE TypeOK /\ StaysInQuantum
    BY DEF FamilyInv, NothingFreed, Inv, CopiesInside, NoUseAfterFree
  <2>1. \A i \in DOMAIN data : \A k \in DOMAIN data[i] :
          \A j \in DOMAIN data[i][k] : data[i][k][j] \in Data \cup {Junk}
    <3>1. \A i \in DOMAIN data : data[i] \in Arrays(quantum, qset)  BY DEF Types
    <3>2. \A a \in Arrays(quantum, qset) : \A k \in DOMAIN a : a[k] \in Blocks(quantum)
      BY NullEmpty DEF Arrays
    <3>3. \A b \in Blocks(quantum) : \A j \in DOMAIN b : b[j] \in Data \cup {Junk}
      BY NullEmpty DEF Blocks
    <3>. QED  BY <3>1, <3>2, <3>3, Zenon
  <2>2. TypeOK  BY <2>1 DEF TypeOK, Types, Lock
  <2>. QED  BY <2>2, WorksInQuantum
<1>. QED  BY <1>1, DevicesCorrect, PTL

\* Until a call has worked by another geometry, as said above, every array and
\* quantum has the size the index computations assume of it, also after opens
\* that trim, ioctls and failing allocations, and the list reaches to the size
\* of the device.
THEOREM GeometryCorrect ==
  ASSUME LockedTrim
  PROVE  FamilySpec => []DataMatchesGeometry
<1>1. FamilyInv => DataMatchesGeometry
  <2> SUFFICES ASSUME ~misfit, Types, SizeFits PROVE DataMatchesGeometry
    BY DEF FamilyInv, Inv, DataMatchesGeometry
  <2>1. ASSUME NEW i \in DOMAIN data, data[i] # NULL
        PROVE  data[i] \in [0..qset - 1 -> Blocks(quantum)]
    BY <2>1 DEF Types, Arrays
  <2>2. \A b \in Blocks(quantum) : b # NULL => DOMAIN b = 0..quantum - 1
    BY DEF Blocks
  <2>. QED  BY <2>1, <2>2 DEF DataMatchesGeometry, SizeFits
<1>. QED  BY <1>1, DevicesCorrect, PTL
-----------------------------------------------------------------------------
(* The refinement: the bytes at the positions of the device *)

LEMMA ByteDigits ==
  ASSUME Types, NEW i \in Nat
  PROVE  \E item \in Nat, k \in 0..qset - 1, j \in 0..quantum - 1 :
           /\ i = item * (quantum * qset) + k * quantum + j
           /\ ByteAt(i) = ByteIn(data, item, k, j)
           /\ UNCHANGED <<quantum, qset>> => ByteAt(i)' = ByteIn(data', item, k, j)
<1>1. PICK q \in Nat \ {0}, s \in Nat \ {0} : q = quantum /\ s = qset
  BY GeometryPositive
<1>2. PICK item \in Nat, k \in 0..s - 1, j \in 0..q - 1 :
        /\ item = i \div (q * s) /\ k = (i % (q * s)) \div q
        /\ i = item * (q * s) + k * q + j
  <2>1. /\ i \div (q * s) \in Nat
        /\ (i % (q * s)) \div q \in 0..s - 1
        /\ (i % (q * s)) % q \in 0..q - 1
        /\ i = (i \div (q * s)) * (q * s)
               + ((i % (q * s)) \div q) * q + ((i % (q * s)) % q)
    BY Digits
  <2>. QED  BY <2>1, Zenon
<1>3. i % q = j
  <2>1. i = Position(q, s, item, k, j)  BY <1>2, Zenon DEF Position
  <2>. QED  BY <2>1, DigitsOf
<1>4. ByteAt(i) = ByteIn(data, item, k, j)
  BY <1>1, <1>2, <1>3 DEF ByteAt, ByteIn
<1>5. ASSUME UNCHANGED <<quantum, qset>>
      PROVE  ByteAt(i)' = ByteIn(data', item, k, j)
  BY <1>1, <1>2, <1>3, <1>5 DEF ByteAt, ByteIn, QuantumAt
<1>. QED  BY <1>1, <1>2, <1>4, <1>5

\* The byte m after the start of what a call copies.
LEMMA ByteOfCopy ==
  ASSUME Types, Working, NEW p \in Copying,
         NEW m \in Nat, target[p].q_pos + m < quantum
  PROVE  ByteAt(f_pos[p] + m)
           = ByteIn(data, target[p].item, target[p].s_pos, target[p].q_pos + m)
<1>1. PICK q \in Nat \ {0}, s \in Nat \ {0} : q = quantum /\ s = qset
  BY GeometryPositive
<1>2. target[p] \in [item : Nat, s_pos : Nat, q_pos : Nat, count : Nat]
  BY DEF Types, Copying
<1>3. PICK item \in Nat, k \in 0..s - 1, j \in 0..q - 1, b \in Nat :
        /\ item = target[p].item /\ k = target[p].s_pos
        /\ b = target[p].q_pos /\ j = b + m
        /\ f_pos[p] = item * (q * s) + k * q + b
  <2>1. /\ target[p].s_pos \in 0..qset - 1
        /\ f_pos[p] = target[p].item * (quantum * qset)
                      + target[p].s_pos * quantum + target[p].q_pos
    BY Zenon DEF Working, Works
  <2>2. target[p].q_pos + m \in 0..quantum - 1 /\ target[p].item \in Nat
        /\ target[p].q_pos \in Nat
    BY <1>1, <1>2
  <2>. QED  BY <1>1, <2>1, <2>2
<1>4. f_pos[p] + m = item * (q * s) + k * q + j  BY <1>3, Z3
<1>5. PICK f : f = f_pos[p] + m /\ f = Position(q, s, item, k, j)
  BY <1>4 DEF Position
<1>6. /\ f \div (q * s) = item /\ (f % (q * s)) \div q = k /\ f % q = j
  BY <1>5, DigitsOf
<1>. QED  BY <1>1, <1>3, <1>5, <1>6 DEF ByteAt, ByteIn

LEMMA GrownKeepsBytes ==
  ASSUME Types, Grown(data, data', quantum, qset), UNCHANGED <<quantum, qset>>,
         NEW i \in Nat
  PROVE  ByteAt(i)' = ByteAt(i)
<1>1. PICK item \in Nat, k \in 0..qset - 1, j \in 0..quantum - 1 :
        ByteAt(i) = ByteIn(data, item, k, j) /\ ByteAt(i)' = ByteIn(data', item, k, j)
  BY ByteDigits
<1>2. k \in Nat /\ j \in Nat  OBVIOUS
<1>. QED  BY <1>1, <1>2 DEF Grown

LEMMA TrimLosesBytes ==
  ASSUME Types, Types', data' = <<>>, NEW i \in Nat
  PROVE  ByteAt(i)' = Junk
<1>1. PICK q \in Nat \ {0}, s \in Nat \ {0} : q = quantum' /\ s = qset'
  BY GeometryAssumption DEF Types
<1>2. i \div (q * s) \in Nat  BY Digits
<1>3. ~ i \div (q * s) < Len(data')  BY <1>2
<1>. QED  BY <1>1, <1>3, NullEmpty DEF ByteAt

LEMMA ScribbleWritesBytes ==
  ASSUME Types, Working, NEW p \in Copying, Scribbled(p), UNCHANGED <<quantum, qset>>,
         NEW i \in Nat
  PROVE  IF f_pos[p] <= i /\ i < f_pos[p] + target[p].count
           THEN ByteAt(i)' \in Data ELSE ByteAt(i)' = ByteAt(i)
<1>1. PICK q \in Nat \ {0}, s \in Nat \ {0} : q = quantum /\ s = qset
  BY GeometryPositive
<1>2. PICK item \in Nat, k \in 0..s - 1, j \in 0..q - 1 :
        /\ i = item * (q * s) + k * q + j
        /\ ByteAt(i) = ByteIn(data, item, k, j)
        /\ ByteAt(i)' = ByteIn(data', item, k, j)
  <2>1. PICK item \in Nat, k \in 0..qset - 1, j \in 0..quantum - 1 :
           /\ i = item * (quantum * qset) + k * quantum + j
           /\ ByteAt(i) = ByteIn(data, item, k, j)
           /\ UNCHANGED <<quantum, qset>> => ByteAt(i)' = ByteIn(data', item, k, j)
    BY ByteDigits, Zenon
  <2>2. ByteAt(i)' = ByteIn(data', item, k, j)  BY <2>1
  <2>. QED  BY <1>1, <2>1, <2>2, Zenon
<1>3. target[p] \in [item : Nat, s_pos : Nat, q_pos : Nat, count : Nat]
  BY DEF Types, Copying
<1>4. PICK a \in Nat, b \in 0..s - 1, c \in Nat, n \in Nat, f \in Nat :
        /\ a = target[p].item /\ b = target[p].s_pos
        /\ c = target[p].q_pos /\ n = target[p].count /\ f = f_pos[p]
        /\ c + n <= q /\ f = a * (q * s) + b * q + c
  <2>1. /\ target[p].s_pos \in 0..qset - 1
        /\ target[p].q_pos + target[p].count <= quantum
        /\ f_pos[p] = target[p].item * (quantum * qset)
                      + target[p].s_pos * quantum + target[p].q_pos
    BY Zenon DEF Working, Works
  <2>2. f_pos[p] \in Nat  BY DEF Types, Copying
  <2>. QED  BY <1>1, <1>3, <2>1, <2>2
<1>5. ASSUME f <= i, i < f + n
      PROVE  item = a /\ k = b /\ c <= j /\ j < c + n
  <2>1. PICK e \in 0..q - 1 : e = c + (i - f) /\ c <= e /\ e < c + n
    BY <1>4, <1>5
  <2>2. i = Position(q, s, a, b, e)  BY <1>4, <2>1, Z3 DEF Position
  <2>3. i \div (q * s) = a /\ (i % (q * s)) \div q = b /\ i % q = e
    BY <2>2, DigitsOf
  <2>4. i = Position(q, s, item, k, j)  BY <1>2, Zenon DEF Position
  <2>5. i \div (q * s) = item /\ (i % (q * s)) \div q = k /\ i % q = j
    BY <2>4, DigitsOf
  <2>. QED  BY <2>1, <2>3, <2>5
<1>6. ASSUME item = a, k = b, c <= j, j < c + n
      PROVE  f <= i /\ i < f + n
  <2>1. PICK e \in Int : e = a * (q * s) + b * q  BY Z3
  <2>2. i = e + j /\ f = e + c  BY <1>2, <1>4, <1>6, <2>1, Zenon
  <2>. QED  BY <1>4, <1>6, <2>1, <2>2
<1>7. k \in Nat /\ j \in Nat  OBVIOUS
<1>8. IF item = a /\ k = b /\ c <= j /\ j < c + n
        THEN ByteIn(data', item, k, j) \in Data
        ELSE ByteIn(data', item, k, j) = ByteIn(data, item, k, j)
  <2>1. IF /\ item = target[p].item /\ k = target[p].s_pos
           /\ target[p].q_pos <= j /\ j < target[p].q_pos + target[p].count
          THEN ByteIn(data', item, k, j) \in Data
          ELSE ByteIn(data', item, k, j) = ByteIn(data, item, k, j)
    BY <1>7, Zenon DEF Scribbled
  <2>2. /\ a = target[p].item /\ b = target[p].s_pos
        /\ c = target[p].q_pos /\ n = target[p].count
    BY <1>4
  <2>. QED  BY <2>1, <2>2, Zenon
<1>. QED  BY <1>2, <1>4, <1>5, <1>6, <1>8

LEMMA ByteIsByte ==
  ASSUME Types, NEW i \in Nat
  PROVE  ByteAt(i) \in Data \cup {Junk}
<1>1. PICK item \in Nat, k \in 0..qset - 1, j \in 0..quantum - 1 :
        ByteAt(i) = ByteIn(data, item, k, j)
  BY ByteDigits
<1>2. CASE item < Len(data)
  <2>1. data[item + 1] \in Arrays(quantum, qset)  BY <1>2 DEF Types
  <2>2. QuantumAt(data, [item |-> item, s_pos |-> k]) \in Blocks(quantum)
    BY <2>1, NullEmpty DEF QuantumAt, Arrays, Blocks
  <2>. QED  BY <1>1, <1>2, <2>2, NullEmpty DEF ByteIn, Blocks
<1>3. CASE ~ item < Len(data)
  BY <1>1, <1>3, NullEmpty DEF ByteIn
<1>. QED  BY <1>2, <1>3

\* What ioctl may set the quantum to is bounded, as an int is.
Bounded == \E q \in {Quantum} \cup Quanta : \A r \in {Quantum} \cup Quanta : r <= q

LEMMA QuantumBound ==
  ASSUME Bounded, Types
  PROVE  MaxQuantum \in Nat /\ quantum <= MaxQuantum /\ Reach \in Nat
<1>1. MaxQuantum \in {Quantum} \cup Quanta
      /\ \A r \in {Quantum} \cup Quanta : r <= MaxQuantum
  BY DEF Bounded, MaxQuantum
<1>2. MaxQuantum \in Nat /\ quantum <= MaxQuantum
  BY <1>1, GeometryAssumption DEF Types
<1>. QED  BY <1>2, CountAssumption DEF Reach

\* The array of bytes that ByteFile sees.
Bytes == [i \in 0..Reach - 1 |-> ByteAt(i)]

LEMMA SameBytes ==
  ASSUME \A i \in Nat : ByteAt(i)' = ByteAt(i), Reach \in Nat
  PROVE  Bytes' = Bytes
BY DEF Bytes

LEMMA InitIsByteFile ==
  ASSUME Init, Bounded
  PROVE  File!Init
<1>1. Types  BY InvInit DEF Inv
<1>2. \A i \in 0..Reach - 1 : ByteAt(i) = Junk
  <2> SUFFICES ASSUME NEW i \in 0..Reach - 1 PROVE ByteAt(i) = Junk  OBVIOUS
  <2>1. PICK item \in Nat, k \in 0..qset - 1, j \in 0..quantum - 1 :
          ByteAt(i) = ByteIn(data, item, k, j)
    BY <1>1, QuantumBound, ByteDigits
  <2>2. ~ item < Len(data)  BY DEF Init
  <2>. QED  BY <2>1, <2>2, NullEmpty DEF ByteIn
<1>. QED  BY <1>2 DEF Init, File!Init

LEMMA IdleIsByteFile ==
  ASSUME Inv, Bounded, NEW p \in Procs, Idle(p)
  PROVE  File!Next \/ UNCHANGED File!vars
<1>1. Types /\ Reach \in Nat /\ MaxPos <= Reach  
  BY QuantumBound, CountAssumption DEF Inv, Reach
<1>2. UNCHANGED <<data, size, quantum, qset>>  BY <1>1, IdleLeaves DEF dev
<1>3. \A i \in Nat : ByteAt(i)' = ByteAt(i)  BY <1>2 DEF ByteAt, QuantumAt
<1>4. Bytes' = Bytes  BY <1>1, <1>3, SameBytes
<1>5. CASE Open(p)
  <2>1. File!Seek(p, 0)  BY <1>2, <1>4, <1>5 DEF Open, File!Seek, Bytes
  <2>. QED  BY <1>1, <2>1 DEF File!Next
<1>6. CASE Release(p)
  BY <1>2, <1>4, <1>6 DEF Release, File!Close, File!Next, Bytes
<1>7. CASE Seek(p)
  <2>1. PICK to \in 0..MaxPos : f_pos' = [f_pos EXCEPT ![p] = to]  BY <1>7 DEF Seek
  <2>2. to \in 0..Reach  BY <1>1, CountAssumption
  <2>3. File!Seek(p, to)  BY <1>2, <1>4, <1>7, <2>1 DEF Seek, File!Seek, Bytes
  <2>. QED  BY <2>2, <2>3 DEF File!Next
<1>8. CASE Ioctl(p) \/ Interrupted(p)
  BY <1>2, <1>4, <1>8 DEF Ioctl, Interrupted, File!vars, Bytes, locals
<1>9. CASE ReadCall(p) \/ WriteCall(p)
  BY <1>2, <1>4, <1>9 DEF ReadCall, WriteCall, Call, File!Return, File!Next, Bytes
<1>. QED  BY <1>5, <1>6, <1>7, <1>8, <1>9 DEF Idle

LEMMA TrimIsByteFile ==
  ASSUME Inv, Inv', Bounded, NEW p \in Procs, OpenTrim(p)
  PROVE  File!Next
<1>1. Types /\ Types' /\ Reach \in Nat  BY QuantumBound DEF Inv
<1>2. data' = <<>> /\ size' = 0 /\ UNCHANGED got /\ f_pos' = [f_pos EXCEPT ![p] = 0]
  BY DEF OpenTrim, Trim
<1>3. \A i \in 0..Reach - 1 : ByteAt(i)' = Junk  BY <1>1, <1>2, TrimLosesBytes
<1>4. [i \in 0..Reach - 1 |-> ByteAt(i)]' = [i \in 0..Reach - 1 |-> Junk]
  BY <1>3
<1>. QED  BY <1>2, <1>4 DEF File!Truncate, File!Next

LEMMA LocatedIsByteFile ==
  ASSUME Inv, Bounded, NEW p \in Procs, Located(p)
  PROVE  UNCHANGED File!vars
<1>1. Types /\ Reach \in Nat  BY QuantumBound DEF Inv
<1>2. /\ Grown(data, data', quantum, qset)
      /\ UNCHANGED <<quantum, qset, size, f_pos, got>>
  BY DEF Located
<1>3. \A i \in Nat : ByteAt(i)' = ByteAt(i)  BY <1>1, <1>2, GrownKeepsBytes
<1>4. Bytes' = Bytes  BY <1>1, <1>3, SameBytes
<1>. QED  BY <1>2, <1>4 DEF File!vars, Bytes

LEMMA CopyIsByteFile ==
  ASSUME Inv, Bounded, NEW p \in Procs, Copy(p)
  PROVE  File!Next \/ UNCHANGED File!vars
<1>1. Types /\ Lock /\ Started /\ Working /\ Reach \in Nat
  BY QuantumBound DEF Inv
<1>2. p \in Copying
  BY DEF Copy, ReadCopy, WriteCopy, ReadFault, WriteFault, Finish, Goto, Copying
<1>3. target[p] \in [item : Nat, s_pos : Nat, q_pos : Nat, count : Nat]
  BY <1>1, <1>2 DEF Types, Copying
<1>4. PICK n \in Nat, c \in Nat, f \in Nat :
        /\ n = target[p].count /\ c = target[p].q_pos /\ f = f_pos[p]
        /\ c + n <= quantum /\ f < MaxPos
        /\ pc[p] = "rd_copy" => f + n <= size \/ f > size
  <2>1. Works(data, target[p], f_pos[p], pc[p] = "rd_copy")
    BY <1>1, <1>2 DEF Working
  <2>2. /\ target[p].q_pos + target[p].count <= quantum
        /\ pc[p] = "rd_copy" =>
             f_pos[p] + target[p].count <= size \/ f_pos[p] > size
    BY <2>1, Zenon DEF Works
  <2>. QED  BY <1>1, <1>2, <1>3, <2>2 DEF Started, Types, Copying
<1>5. n \in 0..MaxQuantum /\ f + n <= Reach
  <2>1. quantum \in Nat /\ MaxQuantum \in Nat /\ quantum <= MaxQuantum
    BY <1>1, GeometryPositive, QuantumBound
  <2>. QED  BY <1>4, <2>1, CountAssumption DEF Reach
<1>6. dangling = {}  BY <1>1 DEF Types
<1>7. CASE ReadCopy(p) \/ ReadFault(p)
  <2>1. UNCHANGED <<data, size, quantum, qset>> /\ pc[p] = "rd_copy"
    BY <1>7 DEF ReadCopy, ReadFault, Finish, Goto, dev
  <2>2. \A i \in Nat : ByteAt(i)' = ByteAt(i)  BY <2>1 DEF ByteAt, QuantumAt
  <2>3. Bytes' = Bytes  BY <1>1, <2>2, SameBytes
  <2>4. CASE ReadFault(p)
    BY <2>1, <2>3, <2>4 DEF ReadFault, File!vars, Bytes
  <2>5. CASE ReadCopy(p)
    <3> DEFINE read == BytesOf(QuantumAt(data, target[p]), c, n)
    <3>1. /\ got' = [got EXCEPT ![p] = read]
          /\ f_pos' = [f_pos EXCEPT ![p] = @ + n]
      BY <1>4, <1>6, <2>5 DEF ReadCopy
    <3>2. read \in [1..n -> Data \cup {Junk}]  BY <1>1, <1>2, <1>4, BytesRead
    <3>3. CASE f + n <= size
      <4>1. ASSUME NEW i \in 1..n
            PROVE  read[i] = Bytes[f + i - 1]
        <5>1. PICK m \in Nat : m = i - 1  OBVIOUS
        <5>2. c + m < quantum /\ f + m \in 0..Reach - 1
          BY <1>1, <1>4, <1>5, <5>1, GeometryPositive
        <5>3. ByteAt(f + m) = ByteIn(data, target[p].item, target[p].s_pos, c + m)
          BY <1>1, <1>2, <1>4, <5>2, ByteOfCopy
        <5>4. target[p].item < Len(data)  BY <1>1, <1>2, Zenon DEF Working, Works
        <5>5. ByteIn(data, target[p].item, target[p].s_pos, c + m) = read[i]
          BY <1>4, <5>1, <5>4 DEF ByteIn, QuantumAt, BytesOf
        <5>6. Bytes[f + m] = ByteAt(f + m)  BY <5>2 DEF Bytes
        <5>7. f + m = f + i - 1  BY <5>1
        <5>. QED  BY <5>3, <5>5, <5>6, <5>7
      <4>2. read = [i \in 1..n |-> Bytes[f_pos[p] + i - 1]]  BY <1>4, <3>2, <4>1
      <4>3. File!Read(p, n)
        BY <1>4, <2>1, <2>3, <3>1, <3>3, <4>2 DEF File!Read, Bytes
      <4>. QED  BY <1>5, <4>3 DEF File!Next
    <3>4. CASE f > size
      <4>1. got'[p] = read  BY <1>1, <3>1 DEF Types
      <4>2. File!ReadPastSize(p, n)
        BY <1>4, <2>1, <2>3, <3>1, <3>2, <3>4, <4>1 DEF File!ReadPastSize, Bytes
      <4>. QED  BY <1>5, <4>2 DEF File!Next
    <3>. QED  BY <1>4, <2>1, <3>3, <3>4
  <2>. QED  BY <1>7, <2>4, <2>5
<1>8. CASE WriteCopy(p) \/ WriteFault(p)
  <2>1. UNCHANGED <<quantum, qset, got>> /\ Scribble(p)
    BY <1>8 DEF WriteCopy, WriteFault
  <2>2. Scribbled(p)  BY <1>1, <1>2, <2>1, ScribbleBytes
  <2>3. ASSUME NEW i \in 0..Reach - 1
        PROVE  /\ IF f <= i /\ i < f + n
                    THEN ByteAt(i)' \in Data ELSE ByteAt(i)' = ByteAt(i)
               /\ ByteAt(i)' \in Data \cup {Junk}
    <3>1. IF f <= i /\ i < f + n
            THEN ByteAt(i)' \in Data ELSE ByteAt(i)' = ByteAt(i)
      BY <1>1, <1>2, <1>4, <2>1, <2>2, ScribbleWritesBytes
    <3>2. ByteAt(i) \in Data \cup {Junk}  BY <1>1, ByteIsByte
    <3>. QED  BY <3>1, <3>2
  <2>4. File!Overwrite(p, n)
    BY <1>4, <2>3 DEF File!Overwrite
  <2>5. CASE WriteCopy(p)
    <3>1. File!Write(p, n)
      BY <1>1, <1>4, <2>1, <2>4, <2>5 DEF WriteCopy, File!Write, Types
    <3>. QED  BY <1>5, <3>1 DEF File!Next
  <2>6. CASE WriteFault(p)
    <3>1. File!FailedWrite(p, n)
      BY <2>4, <2>6 DEF WriteFault, File!FailedWrite
    <3>. QED  BY <1>5, <3>1 DEF File!Next
  <2>. QED  BY <1>8, <2>5, <2>6
<1>. QED  BY <1>7, <1>8 DEF Copy

LEMMA StutterIsByteFile ==
  ASSUME UNCHANGED vars
  PROVE  UNCHANGED File!vars
<1>1. UNCHANGED <<data, size, quantum, qset, f_pos, got>>  BY DEF vars, dev, locals
<1>2. \A i : ByteAt(i)' = ByteAt(i)  BY <1>1 DEF ByteAt, QuantumAt
<1>. QED  BY <1>1, <1>2 DEF File!vars

\* Until a call has worked by another geometry, as said above, the devices of
\* scull and sculld are arrays of bytes with a size, also while calls interleave
\* with each other, with opens that trim, with ioctls, and with allocations and
\* copies that fail.
THEOREM DevicesAreByteFiles ==
  ASSUME LockedTrim, Bounded
  PROVE  FamilySpec => IsByteFile
<1>1. FamilyInit => File!Init  BY InitIsByteFile DEF FamilyInit
<1>2. FamilyInv /\ FamilyInv' /\ [FamilyNext]_<<vars, driver>>
        => [misfit' \/ File!Next]_(File!vars)
  <2> SUFFICES ASSUME FamilyInv, FamilyInv', [FamilyNext]_<<vars, driver>>, ~misfit'
               PROVE  File!Next \/ UNCHANGED File!vars
    OBVIOUS
  <2>1. CASE FamilyNext
    <3>1. Inv /\ Inv'  BY <2>1, MisfitStays DEF FamilyInv
    <3>2. PICK p \in Procs : Step(p)  BY <2>1, <3>1, FamilySteps
    <3>. QED  BY <3>1, <3>2, IdleIsByteFile, TrimIsByteFile, LocatedIsByteFile,
                 CopyIsByteFile DEF Step
  <2>2. CASE UNCHANGED <<vars, driver>>  BY <2>2, StutterIsByteFile
  <2>. QED  BY <2>1, <2>2
<1>. QED  BY <1>1, <1>2, DevicesCorrect, PTL DEF FamilySpec, IsByteFile
=============================================================================
