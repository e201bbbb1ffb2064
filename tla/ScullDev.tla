------------------------------ MODULE ScullDev ------------------------------
(***************************************************************************)
(* One scull memory device (src/scull/main.c) and the processes that open, *)
(* read, write, seek and tune it.  Its data is a list of quantum sets, each*)
(* an array of pointers to quanta, all allocated on demand.  dev->sem      *)
(* covers the bodies of read and write; their first lines copy the         *)
(* geometry of the device without it.                                      *)
(***************************************************************************)
EXTENDS Integers, Sequences, FiniteSets

CONSTANTS Procs,
          WriteOnly,     \* those that open the device with O_WRONLY
          Admins,        \* those that change scull_quantum and scull_qset
          LockedTrim,    \* whether the open that trims takes dev->sem: the opens
                         \* of main.c do, those of access.c do not
          Data, Junk,    \* the bytes written; what kmalloc'd memory holds
          Quantum, Qset, \* SCULL_QUANTUM and SCULL_QSET, the defaults
          Quanta, Qsets, \* what ioctl may set them to
          ReadCounts, WriteCounts, Offsets,
          MaxPos         \* bound: no call starts at or past this position

ASSUME ProcsAssumption    == WriteOnly \cup Admins \subseteq Procs
ASSUME TrimAssumption     == LockedTrim \in BOOLEAN
ASSUME DataAssumption     == Junk \notin Data
ASSUME GeometryAssumption ==
  {Quantum} \cup Quanta \cup {Qset} \cup Qsets \subseteq Nat \ {0}
ASSUME CountAssumption    ==
  ReadCounts \cup WriteCounts \subseteq Nat /\ Offsets \subseteq Int /\ MaxPos \in Nat

VARIABLES
  sem,
  data,            \* the list at dev->data: the array of each scull_qset
  quantum, qset,   \* dev->quantum, dev->qset
  size,            \* dev->size
  scull_quantum, scull_qset,
  f_pos,           \* the position of each process's file
  geometry,        \* the quantum and qset its call has copied, until
                   \* it has found its place
  target,          \* the list item, the quantum and the bytes it works on
  dangling,        \* history: the calls whose quantum was freed under them
  got,             \* history: the bytes its read returns
  misfit,          \* history: whether a call has worked by another geometry than
                   \* that of the memory of the device
  pc

dev    == <<data, quantum, qset, size>>
params == <<scull_quantum, scull_qset>>
locals == <<f_pos, geometry, target, dangling, got, misfit>>
vars   == <<sem, dev, params, locals, pc>>

\* A NULL array of quanta, or a NULL quantum.
NULL == [i \in {} |-> Junk]
NoGeometry == <<0, 0>>
NoTarget == [item |-> 0, s_pos |-> 0, q_pos |-> 0, count |-> 0]

Init ==
  /\ sem = 1
  /\ data = <<>> /\ size = 0
  /\ quantum = Quantum /\ qset = Qset
  /\ scull_quantum = Quantum /\ scull_qset = Qset
  /\ f_pos = [p \in Procs |-> 0]
  /\ geometry = [p \in Procs |-> NoGeometry]
  /\ target = [p \in Procs |-> NoTarget]
  /\ dangling = {}
  /\ got = [p \in Procs |-> <<>>]
  /\ misfit = FALSE
  /\ pc = [p \in Procs |-> "closed"]
-----------------------------------------------------------------------------
(* The helpers of the file operations *)

Goto(p, from, to) == pc[p] = from /\ pc' = [pc EXCEPT ![p] = to]

\* Mutation: item and rest are counted in quanta.
PlaceFlat(p) ==
  LET q == geometry[p][1] IN
  [item  |-> f_pos[p] \div q,
   s_pos |-> 0,
   q_pos |-> f_pos[p] % q]

\* Where the position of p is, by the geometry its call has copied.
Place(p) ==
  LET q == geometry[p][1]
      itemsize == q * geometry[p][2]
      rest == f_pos[p] % itemsize
  IN [item |-> f_pos[p] \div itemsize, s_pos |-> rest \div q, q_pos |-> rest % q]

\* Mutation: the count is signed.
ToQuantumEndSigned(p, n) == LET room == geometry[p][1] - Place(p).q_pos IN
  IF n > room THEN room ELSE n

\* A count, unsigned in the code, is cut at the end of the quantum.
ToQuantumEnd(p, n) == LET room == geometry[p][1] - Place(p).q_pos IN
  IF n < 0 \/ n > room THEN room ELSE n

\* The difference wraps around when the position is past the size.
ToSize(p, n) == IF f_pos[p] + n >= size THEN size - f_pos[p] ELSE n

\* scull_follow, which adds the list items that are missing up to the n-th, and
\* what it leaves when the kmalloc of one of them fails.
Follow(n) ==
  IF n <= Len(data) THEN data ELSE data \o [i \in 1..n - Len(data) |-> NULL]
FollowFails(n) == {Follow(k) : k \in Len(data)..n - 1}

\* The array of quanta of the i-th item, and its k-th quantum, with memory that
\* is allocated if there is none.
WithArray(list, i, s) ==
  IF list[i] = NULL THEN [list EXCEPT ![i] = [k \in 0..s - 1 |-> NULL]] ELSE list

WithQuantum(list, i, k, q) ==
  IF k \in DOMAIN list[i] /\ list[i][k] = NULL
    THEN [list EXCEPT ![i][k] = [j \in 0..q - 1 |-> Junk]] ELSE list

\* The quantum of a place in a list, NULL if there is none or no room for one.
QuantumAt(list, at) ==
  LET array == list[at.item + 1]
  IN  IF at.s_pos \in DOMAIN array THEN array[at.s_pos] ELSE NULL

\* n bytes of quantum b, which runs into somebody else's memory after its end.
BytesOf(b, q_pos, n) ==
  [i \in 1..n |-> IF q_pos + i - 1 \in DOMAIN b THEN b[q_pos + i - 1] ELSE Junk]

Stored(b, q_pos, bytes) ==
  [i \in DOMAIN b |->
     IF q_pos <= i /\ i < q_pos + Len(bytes) THEN bytes[i - q_pos + 1] ELSE b[i]]

\* scull_trim frees every quantum and takes the current parameters.
Trim ==
  /\ data' = <<>> /\ size' = 0
  /\ quantum' = scull_quantum /\ qset' = scull_qset
  /\ dangling' = dangling \cup {p \in Procs : pc[p] \in {"rd_copy", "wr_copy"}}
-----------------------------------------------------------------------------
(* open, release, llseek and ioctl *)

Open(p) ==
  /\ p \notin WriteOnly
  /\ Goto(p, "closed", "idle")
  /\ f_pos' = [f_pos EXCEPT ![p] = 0]
  /\ UNCHANGED <<sem, dev, params, misfit, geometry, target, dangling, got>>

\* down, scull_trim and up: nothing else sees what is between.
OpenTrim(p) ==
  /\ p \in WriteOnly
  /\ LockedTrim => sem > 0
  /\ Goto(p, "closed", "idle")
  /\ Trim
  /\ f_pos' = [f_pos EXCEPT ![p] = 0]
  /\ UNCHANGED <<sem, params, misfit, geometry, target, got>>

Release(p) ==
  /\ Goto(p, "idle", "closed")
  /\ f_pos' = [f_pos EXCEPT ![p] = 0]
  /\ got' = [got EXCEPT ![p] = <<>>]
  /\ UNCHANGED <<sem, dev, params, misfit, geometry, target, dangling>>

\* SEEK_SET, SEEK_CUR and SEEK_END; a negative position is -EINVAL.
Seek(p) ==
  /\ pc[p] = "idle"
  /\ \E off \in Offsets : \E newpos \in {off, f_pos[p] + off, size + off} :
       /\ newpos \in 0..MaxPos
       /\ f_pos' = [f_pos EXCEPT ![p] = newpos]
  /\ UNCHANGED <<sem, dev, params, misfit, geometry, target, dangling, got, pc>>

\* Mutation: the device changes at once, and not at its next trim.
IoctlNow(p) ==
  /\ pc[p] = "idle" /\ p \in Admins
  /\ scull_quantum' \in Quanta /\ quantum' = scull_quantum'
  /\ UNCHANGED <<sem, data, qset, size, scull_qset, locals, pc>>

\* The commands that set one parameter need CAP_SYS_ADMIN; RESET needs nothing.
Ioctl(p) ==
  /\ pc[p] = "idle" /\ p \in Admins
  /\ \/ scull_quantum' \in Quanta /\ UNCHANGED scull_qset
     \/ scull_qset' \in Qsets /\ UNCHANGED scull_quantum
     \/ scull_quantum' = Quantum /\ scull_qset' = Qset
  /\ UNCHANGED <<sem, dev, locals, pc>>
-----------------------------------------------------------------------------
(* read and write *)

\* The lines before down_interruptible, and a signal there.
Call(p, to) ==
  /\ f_pos[p] < MaxPos
  /\ Goto(p, "idle", to)
  /\ geometry' = [geometry EXCEPT ![p] = <<quantum, qset>>]
  /\ got' = [got EXCEPT ![p] = <<>>]
  /\ UNCHANGED <<sem, dev, params, misfit, f_pos, target, dangling>>

ReadCall(p)  == p \notin WriteOnly /\ Call(p, "rd_down")
WriteCall(p) == Call(p, "wr_down")

Interrupted(p) ==
  /\ pc[p] \in {"rd_down", "wr_down"}
  /\ pc' = [pc EXCEPT ![p] = "idle"]
  /\ geometry' = [geometry EXCEPT ![p] = NoGeometry]
  /\ UNCHANGED <<sem, dev, params, misfit, f_pos, target, dangling, got>>

\* The call has the lock and knows what it will copy.
Locked(p, to, place, n) ==
  /\ pc' = [pc EXCEPT ![p] = to]
  /\ sem' = sem - 1
  /\ target' = [target EXCEPT ![p] = [item |-> place.item, s_pos |-> place.s_pos,
                                      q_pos |-> place.q_pos, count |-> n]]

\* The call gives up the lock, or never used it, and returns 0 or an error.
Nothing(p) ==
  /\ pc' = [pc EXCEPT ![p] = "idle"]
  /\ UNCHANGED <<sem, target>>

\* The call was made before another open emptied a device that had been tuned:
\* its lines divide by the old quantum and qset (history).
Outdated(p) == geometry[p] # <<quantum, qset>>

\* A read follows the list, which may make it longer, to a quantum or to none.
ReadLocate(p) ==
  LET place == Place(p)
      list  == Follow(place.item + 1)
  IN
  /\ pc[p] = "rd_down" /\ sem > 0
  /\ \/ /\ data' \in FollowFails(place.item + 1)
        /\ Nothing(p)
     \/ /\ data' = list
        /\ IF QuantumAt(list, place) = NULL THEN Nothing(p)
           ELSE \E n \in ReadCounts :
                  Locked(p, "rd_copy", place, ToQuantumEnd(p, ToSize(p, n)))
  /\ geometry' = [geometry EXCEPT ![p] = NoGeometry]
  /\ misfit' = (misfit \/ Outdated(p))
  /\ UNCHANGED <<quantum, qset, size, params, f_pos, dangling, got>>

\* A write allocates what is missing, or as much of it as there is memory for.
WriteLocate(p) ==
  LET place == Place(p)
      list  == Follow(place.item + 1)
      array == WithArray(list, place.item + 1, geometry[p][2])
      full  == WithQuantum(array, place.item + 1, place.s_pos, geometry[p][1])
  IN
  /\ pc[p] = "wr_down" /\ sem > 0
  /\ \/ /\ data' = full
        /\ \E n \in WriteCounts : Locked(p, "wr_copy", place, ToQuantumEnd(p, n))
     \/ /\ data' \in FollowFails(place.item + 1) \cup ({list, array} \ {full})
        /\ Nothing(p)
  /\ geometry' = [geometry EXCEPT ![p] = NoGeometry]
  /\ misfit' = (misfit \/ Outdated(p))
  /\ UNCHANGED <<quantum, qset, size, params, f_pos, dangling, got>>

\* Mutation: the lock is kept.
FinishKeeps(p, from) ==
  /\ Goto(p, from, "idle")
  /\ target' = [target EXCEPT ![p] = NoTarget]
  /\ dangling' = dangling \ {p}
  /\ UNCHANGED sem

Finish(p, from) ==
  /\ Goto(p, from, "idle")
  /\ sem' = sem + 1
  /\ target' = [target EXCEPT ![p] = NoTarget]
  /\ dangling' = dangling \ {p}

ReadCopy(p) ==
  LET at == target[p] IN
  /\ Finish(p, "rd_copy")
  /\ got' = [got EXCEPT ![p] =
               BytesOf(IF p \in dangling THEN NULL ELSE QuantumAt(data, at),
                       at.q_pos, at.count)]
  /\ f_pos' = [f_pos EXCEPT ![p] = @ + at.count]
  /\ UNCHANGED <<dev, params, misfit, geometry>>

\* The bytes a write leaves in its quantum; in freed memory they are lost.
Scribble(p) ==
  LET at == target[p] IN
  \E bytes \in [1..at.count -> Data] :
    data' = IF p \in dangling \/ QuantumAt(data, at) = NULL THEN data
            ELSE [data EXCEPT ![at.item + 1][at.s_pos] = Stored(@, at.q_pos, bytes)]

WriteCopy(p) ==
  /\ Finish(p, "wr_copy")
  /\ Scribble(p)
  /\ f_pos' = [f_pos EXCEPT ![p] = @ + target[p].count]
  /\ size' = IF size < f_pos'[p] THEN f_pos'[p] ELSE size
  /\ UNCHANGED <<quantum, qset, params, misfit, geometry, got>>

\* -EFAULT: copy_from_user has copied some bytes and zeroed the others.
ReadFault(p) ==
  /\ Finish(p, "rd_copy")
  /\ UNCHANGED <<dev, params, misfit, f_pos, geometry, got>>

WriteFault(p) ==
  /\ Finish(p, "wr_copy")
  /\ Scribble(p)
  /\ UNCHANGED <<quantum, qset, size, params, misfit, f_pos, geometry, got>>
-----------------------------------------------------------------------------
Locate(p) == ReadLocate(p) \/ WriteLocate(p)
Copy(p) == ReadCopy(p) \/ WriteCopy(p) \/ ReadFault(p) \/ WriteFault(p)
Next == \E p \in Procs :
          \/ Open(p) \/ OpenTrim(p) \/ Release(p) \/ Seek(p) \/ Ioctl(p)
          \/ ReadCall(p) \/ WriteCall(p) \/ Interrupted(p) \/ Locate(p) \/ Copy(p)

Spec == Init /\ [][Next]_vars
-----------------------------------------------------------------------------
(* Properties *)

TypeOK ==
  /\ sem \in Nat /\ size \in Nat
  /\ quantum \in {Quantum} \cup Quanta /\ qset \in {Qset} \cup Qsets
  /\ scull_quantum \in {Quantum} \cup Quanta /\ scull_qset \in {Qset} \cup Qsets
  /\ \A i \in DOMAIN data : \A k \in DOMAIN data[i] :
       \A j \in DOMAIN data[i][k] : data[i][k][j] \in Data \cup {Junk}
  /\ f_pos \in [Procs -> Nat]
  /\ target \in [Procs -> [item : Nat, s_pos : Nat, q_pos : Nat, count : Nat]]
  /\ dangling \subseteq Procs
  /\ pc \in [Procs -> {"closed", "idle", "rd_down", "rd_copy", "wr_down", "wr_copy"}]

Copying == {p \in Procs : pc[p] \in {"rd_copy", "wr_copy"}}

\* Every path of read and write gives the semaphore back, once.
MutualExclusion == sem = 1 - Cardinality(Copying) /\ sem \in {0, 1}

\* No open frees the quantum that a read or a write is copying.
NoUseAfterFree == dangling = {}

\* Lines 277 and 329: a call works inside one quantum, which is there.
StaysInQuantum ==
  \A p \in Copying \ dangling : LET at == target[p] IN
    /\ QuantumAt(data, at) # NULL
    /\ at.q_pos + at.count <= Cardinality(DOMAIN QuantumAt(data, at))

\* No open frees what a call copies, and for as long as no call has worked by
\* another geometry, whatever copies, copies inside memory the device has.
CopiesInside == NoUseAfterFree /\ (~misfit => TypeOK /\ StaysInQuantum)

\* Every array and quantum has the size that trim and the index computations
\* assume of it, and the list reaches to the size of the device, for as long as
\* no call has allocated by another geometry.
DataMatchesGeometry == ~misfit =>
  /\ size <= Len(data) * quantum * qset
  /\ \A i \in DOMAIN data : data[i] # NULL =>
       /\ DOMAIN data[i] = 0..qset - 1
       /\ \A k \in DOMAIN data[i] : data[i][k] # NULL =>
            DOMAIN data[i][k] = 0..quantum - 1

\* The byte at a position, by the geometry of the device.
ByteAt(i) ==
  LET itemsize == quantum * qset
      at == [item |-> i \div itemsize, s_pos |-> (i % itemsize) \div quantum]
      q  == IF at.item < Len(data) THEN QuantumAt(data, at) ELSE NULL
  IN  IF i % quantum \in DOMAIN q THEN q[i % quantum] ELSE Junk

\* The furthest position: a call that starts before MaxPos copies a quantum.
MaxQuantum == CHOOSE q \in {Quantum} \cup Quanta : \A r \in {Quantum} \cup Quanta : r <= q
Reach == MaxPos + MaxQuantum

File == INSTANCE ByteFile WITH
          Byte <- Data, Unset <- Junk, MaxSize <- Reach, MaxCall <- MaxQuantum,
          pos <- f_pos, content <- [i \in 0..Reach - 1 |-> ByteAt(i)]

\* The device is an array of bytes with a size: a read returns what was last
\* written at each position, however the list and the quanta are cut, for as
\* long as no call has worked by another geometry.
IsByteFile == File!Init /\ [][misfit' \/ File!Next]_(File!vars)
=============================================================================
