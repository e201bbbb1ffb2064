--------------------------- MODULE ScullPipeProofs ---------------------------
(***************************************************************************)
(* What ScullPipe guarantees for any number of processes, any buffer size  *)
(* and any counts, with its proofs.                                        *)
(***************************************************************************)
EXTENDS ScullPipe, FiniteSetTheorems, SequenceTheorems, TLAPS

\* Some process holds the device open, or is about to, only after an open has
\* set buffersize, so that spacefree never divides by zero.
SizeIsSet == (\E p \in Procs : pc[p] # "closed") => buffersize \in Sizes

TypeInv == TypeOK /\ SizeIsSet

LEMMA CMinNat ==
  ASSUME NEW a \in Nat, NEW b \in Int PROVE CMin(a, b) \in Nat /\ CMin(a, b) <= a
BY DEF CMin

LEMMA SpaceFreeInt ==
  ASSUME buffersize \in Sizes, NEW r \in Nat, NEW w \in Nat
  PROVE SpaceFree(r, w) \in Int
BY SizeAssumption DEF SpaceFree, Sizes

LEMMA LimitsNat ==
  ASSUME TypeOK, buffersize \in Sizes, NEW n \in Nat
  PROVE ReadLimit(n) \in Nat /\ WriteLimit(n) \in Nat
<1>1. rp \in Nat /\ wp \in Nat /\ buffersize \in Nat
  BY SizeAssumption DEF TypeOK
<1>2. ReadLimit(n) \in Nat
  BY <1>1 DEF ReadLimit, CMin
<1>3. CMin(n, SpaceFree(rp, wp)) \in Nat
  BY <1>1, CMinNat, SpaceFreeInt
<1>4. WriteLimit(n) \in Nat
  <2>1. CMin(CMin(n, SpaceFree(rp, wp)), buffersize - wp) \in Nat
    BY <1>1, <1>3 DEF CMin
  <2>2. CMin(CMin(n, SpaceFree(rp, wp)), rp - wp - 1) \in Nat
    BY <1>1, <1>3 DEF CMin
  <2> QED BY <2>1, <2>2 DEF WriteLimit
<1> QED BY <1>2, <1>4

LEMMA BytesAtSeq ==
  ASSUME TypeOK, NEW at \in Nat, NEW n \in Nat
  PROVE BytesAt(at, n) \in Seq(Data \cup {Junk})
BY SizeAssumption DEF BytesAt, TypeOK, Sizes

LEMMA StoredType ==
  ASSUME TypeOK, NEW at \in Nat, NEW n \in Nat, NEW bytes \in [1..n -> Data]
  PROVE Stored(at, bytes) \in [0..allocsize - 1 -> Data \cup {Junk}]
BY SizeAssumption DEF Stored, TypeOK, Sizes
-----------------------------------------------------------------------------
(* Type correctness *)

LEMMA TypeInit == Init => TypeInv
BY SizeAssumption DEF Init, TypeInv, TypeOK, SizeIsSet, Locations, Sizes

LEMMA TypeStep == TypeInv /\ [Next]_vars => TypeInv'
<1> SUFFICES ASSUME TypeInv, [Next]_vars PROVE TypeInv'
  OBVIOUS
<1> USE DEF TypeInv, TypeOK, SizeIsSet, Goto, Moves, Up, Down, Counted, Leave, Enqueue,
            WakeReaders, WakeWriters, ring, counts, queues, notify, Locations
<1>1. ASSUME NEW p \in Procs, Acquire(p) PROVE TypeInv'
  <2>1. CASE ReadDown(p)  BY <2>1 DEF ReadDown
  <2>2. CASE WriteDown(p) BY <2>2 DEF WriteDown
  <2>3. CASE PollScan(p)  BY <2>3 DEF PollScan
  <2>4. CASE ReleaseEnd(p)
    <3>1. /\ allocsize' \in {0} \cup Sizes
          /\ buffer' \in [0..allocsize' - 1 -> Data \cup {Junk}]
      <4>1. CASE nreaders' + nwriters' = 0
        <5>1. 0..0 - 1 = {}
          OBVIOUS
        <5> QED BY <2>4, <4>1, <5>1 DEF ReleaseEnd
      <4>2. CASE nreaders' + nwriters' # 0
        BY <2>4, <4>2 DEF ReleaseEnd
      <4> QED BY <4>1, <4>2
    <3>2. nreaders' \in Int /\ nwriters' \in Int
      BY <2>4 DEF ReleaseEnd
    <3>3. /\ pc[p] = "releasing" /\ pc' = [pc EXCEPT ![p] = "closed"]
          /\ UNCHANGED <<sem, buffersize, rp, wp, queues, notify, scull_p_buffer,
                         seen, got>>
      BY <2>4 DEF ReleaseEnd
    <3> QED BY <3>1, <3>2, <3>3
  <2> QED BY <1>1, <2>1, <2>2, <2>3, <2>4 DEF Acquire
<1>2. ASSUME NEW p \in Procs, Kernel(p) PROVE TypeInv'
  <2>1. CASE OpenEnd(p) BY <2>1 DEF OpenEnd
  <2>2. CASE ReadEmpty(p) BY <2>2 DEF ReadEmpty
  <2>3. CASE ReadCopy(p)
    <3> PICK n \in ReadCounts :
          /\ got' = [got EXCEPT ![p] = BytesAt(rp, ReadLimit(n))]
          /\ rp' = rp + ReadLimit(n)
      BY <2>3 DEF ReadCopy
    <3>1. n \in Nat /\ buffersize \in Sizes
      BY <2>3, CountAssumption DEF ReadCopy
    <3>2. ReadLimit(n) \in Nat
      BY <3>1, LimitsNat
    <3>3. BytesAt(rp, ReadLimit(n)) \in Seq(Data \cup {Junk})
      BY <3>2, BytesAtSeq
    <3> QED BY <2>3, <3>2, <3>3 DEF ReadCopy
  <2>4. CASE ReadFault(p) BY <2>4 DEF ReadFault
  <2>5. CASE ReadWrap(p) BY <2>5 DEF ReadWrap, Wrapped
  <2>6. CASE ReadWake(p) BY <2>6 DEF ReadWake
  <2>7. CASE ReadPrepare(p) BY <2>7 DEF ReadPrepare
  <2>8. CASE ReadLoad(p) BY <2>8 DEF ReadLoad
  <2>9. CASE ReadCheck(p) BY <2>9 DEF ReadCheck
  <2>10. CASE ReadAwake(p) BY <2>10 DEF ReadAwake
  <2>11. CASE WriteFull(p) BY <2>11 DEF WriteFull
  <2>12. CASE WriteCopy(p)
    <3> PICK n \in WriteCounts : \E bytes \in [1..WriteLimit(n) -> Data] :
               buffer' = Stored(wp, bytes) /\ wp' = wp + WriteLimit(n)
      BY <2>12 DEF WriteCopy
    <3> PICK bytes \in [1..WriteLimit(n) -> Data] :
               buffer' = Stored(wp, bytes) /\ wp' = wp + WriteLimit(n)
      OBVIOUS
    <3>1. WriteLimit(n) \in Nat
      BY <2>12, CountAssumption, LimitsNat DEF WriteCopy
    <3>2. buffer' \in [0..allocsize - 1 -> Data \cup {Junk}]
      BY <3>1, StoredType
    <3> QED BY <2>12, <3>1, <3>2 DEF WriteCopy
  <2>13. CASE WriteFault(p)
    <3> PICK n \in WriteCounts : \E bytes \in [1..WriteLimit(n) -> Data] :
               buffer' = Stored(wp, bytes)
      BY <2>13 DEF WriteFault
    <3> PICK bytes \in [1..WriteLimit(n) -> Data] : buffer' = Stored(wp, bytes)
      OBVIOUS
    <3>1. WriteLimit(n) \in Nat
      BY <2>13, CountAssumption, LimitsNat DEF WriteFault
    <3>2. buffer' \in [0..allocsize - 1 -> Data \cup {Junk}]
      BY <3>1, StoredType
    <3>3. /\ pc[p] = "wr_crit" /\ pc' = [pc EXCEPT ![p] = "idle"] /\ sem' = sem + 1
          /\ UNCHANGED <<allocsize, buffersize, rp, wp, counts, queues, notify,
                         scull_p_buffer, seen, got>>
      BY <2>13 DEF WriteFault
    <3> QED BY <3>2, <3>3
  <2>14. CASE WriteWrap(p) BY <2>14 DEF WriteWrap, Wrapped
  <2>15. CASE WriteWake(p) BY <2>15 DEF WriteWake
  <2>16. CASE WriteSigio(p) BY <2>16 DEF WriteSigio
  <2>17. CASE WritePrepare(p) BY <2>17 DEF WritePrepare
  <2>18. CASE WriteLoad(p) BY <2>18 DEF WriteLoad
  <2>19. CASE WriteCheck(p) BY <2>19 DEF WriteCheck
  <2>20. CASE WriteAwake(p) BY <2>20 DEF WriteAwake
  <2>21. CASE PollAwake(p) BY <2>21 DEF PollAwake
  <2> QED
    BY <1>2, <2>1, <2>2, <2>3, <2>4, <2>5, <2>6, <2>7, <2>8, <2>9, <2>10, <2>11,
       <2>12, <2>13, <2>14, <2>15, <2>16, <2>17, <2>18, <2>19, <2>20, <2>21
    DEF Kernel
<1>3. ASSUME NEW p \in Procs, Environment(p) PROVE TypeInv'
  <2>1. CASE OpenBegin(p) BY <2>1, SizeAssumption DEF OpenBegin
  <2>2. CASE ReleaseBegin(p) BY <2>2 DEF ReleaseBegin
  <2>3. CASE ReadCall(p) BY <2>3 DEF ReadCall
  <2>4. CASE WriteCall(p) BY <2>4 DEF WriteCall
  <2>5. CASE PollCall(p) BY <2>5 DEF PollCall
  <2>6. CASE Interrupted(p) BY <2>6 DEF Interrupted
  <2>7. CASE Fasync(p) BY <2>7 DEF Fasync
  <2>8. CASE TakeSigio(p) BY <2>8 DEF TakeSigio
  <2>9. CASE TuneSize(p) BY <2>9 DEF TuneSize, Sizes
  <2> QED BY <1>3, <2>1, <2>2, <2>3, <2>4, <2>5, <2>6, <2>7, <2>8, <2>9
          DEF Environment
<1>4. CASE UNCHANGED vars BY <1>4 DEF vars
<1> QED BY <1>1, <1>2, <1>3, <1>4 DEF Next

\* Every variable of the device and of its processes stays in its range; the
\* offsets never become negative, whatever sizes ioctl sets and callers ask for.
THEOREM TypeCorrect == Spec => []TypeOK
<1>1. Spec => []TypeInv
  BY TypeInit, TypeStep, PTL DEF Spec
<1>2. TypeInv => TypeOK
  BY DEF TypeInv
<1> QED BY <1>1, <1>2, PTL
-----------------------------------------------------------------------------
(* Mutual exclusion *)

\* What a step of p that moves it to a location does to the lock.
LockMove(p, to) ==
  /\ pc' = [pc EXCEPT ![p] = to]
  /\ \/ sem' = sem /\ (pc[p] \in Critical <=> to \in Critical)
     \/ sem > 0 /\ sem' = sem - 1 /\ pc[p] \notin Critical /\ to \in Critical
     \/ sem' = sem + 1 /\ pc[p] \in Critical /\ to \notin Critical

LEMMA LockMovePreserves ==
  ASSUME TypeOK, MutualExclusion, NEW p \in Procs, NEW to \in Locations, LockMove(p, to)
  PROVE  MutualExclusion'
<1> USE DEF TypeOK
<1>0. \A q \in Procs : pc'[q] = IF q = p THEN to ELSE pc[q]
  BY DEF LockMove
<1>1. CASE sem' = sem /\ (pc[p] \in Critical <=> to \in Critical)
  <2>1. InCritical' = InCritical
    BY <1>0, <1>1 DEF InCritical
  <2> QED BY <1>1, <2>1 DEF MutualExclusion
<1>2. CASE sem > 0 /\ sem' = sem - 1 /\ pc[p] \notin Critical /\ to \in Critical
  <2>1. InCritical = {}
    BY <1>2 DEF MutualExclusion
  <2>2. InCritical' = {p}
    BY <1>0, <1>2, <2>1 DEF InCritical
  <2> QED BY <1>2, <2>1, <2>2 DEF MutualExclusion
<1>3. CASE sem' = sem + 1 /\ pc[p] \in Critical /\ to \notin Critical
  <2>1. p \in InCritical
    BY <1>3 DEF InCritical
  <2>2. InCritical' = {}
    BY <1>0, <1>3, <2>1 DEF InCritical, MutualExclusion
  <2> QED BY <1>3, <2>1, <2>2 DEF MutualExclusion
<1> QED BY <1>1, <1>2, <1>3 DEF LockMove

LEMMA StepIsLockMove ==
  ASSUME TypeOK, NEW p \in Procs, Acquire(p) \/ Kernel(p) \/ Environment(p)
  PROVE  \/ \E to \in Locations : LockMove(p, to)
         \/ UNCHANGED <<pc, sem>>
<1> USE DEF LockMove, Goto, Moves, Up, Down, Critical, Locations, TypeOK
<1>1. CASE Acquire(p)
  BY <1>1 DEF Acquire, ReadDown, WriteDown, PollScan, ReleaseEnd
<1>2. CASE Kernel(p)
  <2>1. CASE OpenEnd(p) BY <2>1 DEF OpenEnd
  <2>2. CASE ReadEmpty(p) BY <2>2 DEF ReadEmpty
  <2>3. CASE ReadCopy(p) \/ ReadFault(p) \/ ReadWrap(p) \/ ReadWake(p)
    BY <2>3 DEF ReadCopy, ReadFault, ReadWrap, ReadWake
  <2>4. CASE ReadPrepare(p) \/ ReadLoad(p) \/ ReadCheck(p) \/ ReadAwake(p)
    BY <2>4 DEF ReadPrepare, ReadLoad, ReadCheck, ReadAwake
  <2>5. CASE WriteFull(p) \/ WriteCopy(p) \/ WriteFault(p) \/ WriteWrap(p)
    BY <2>5 DEF WriteFull, WriteCopy, WriteFault, WriteWrap
  <2>6. CASE WriteWake(p) \/ WriteSigio(p)
    BY <2>6 DEF WriteWake, WriteSigio
  <2>7. CASE WritePrepare(p) \/ WriteLoad(p) \/ WriteCheck(p) \/ WriteAwake(p)
    BY <2>7 DEF WritePrepare, WriteLoad, WriteCheck, WriteAwake
  <2>8. CASE PollAwake(p) BY <2>8 DEF PollAwake
  <2> QED BY <1>2, <2>1, <2>2, <2>3, <2>4, <2>5, <2>6, <2>7, <2>8 DEF Kernel
<1>3. CASE Environment(p)
  <2>1. CASE OpenBegin(p) BY <2>1 DEF OpenBegin
  <2>2. CASE ReleaseBegin(p) \/ ReadCall(p) \/ WriteCall(p) \/ PollCall(p)
    BY <2>2 DEF ReleaseBegin, ReadCall, WriteCall, PollCall
  <2>3. CASE Interrupted(p) BY <2>3 DEF Interrupted
  <2>4. CASE Fasync(p) \/ TakeSigio(p) \/ TuneSize(p)
    BY <2>4 DEF Fasync, TakeSigio, TuneSize
  <2> QED BY <1>3, <2>1, <2>2, <2>3, <2>4 DEF Environment
<1> QED BY <1>1, <1>2, <1>3

LockInv == TypeInv /\ MutualExclusion

LEMMA LockInit == Init => LockInv
<1>1. Init => MutualExclusion
  BY DEF Init, MutualExclusion, InCritical, Critical
<1> QED BY <1>1, TypeInit DEF LockInv

LEMMA LockStep == LockInv /\ [Next]_vars => LockInv'
<1> SUFFICES ASSUME LockInv, [Next]_vars PROVE MutualExclusion'
  BY TypeStep DEF LockInv
<1>0. TypeOK /\ MutualExclusion
  BY DEF LockInv, TypeInv
<1>1. ASSUME UNCHANGED <<pc, sem>> PROVE MutualExclusion'
  BY <1>0, <1>1 DEF MutualExclusion, InCritical
<1>2. CASE Next
  <2> PICK p \in Procs : Acquire(p) \/ Kernel(p) \/ Environment(p)
    BY <1>2 DEF Next
  <2> QED BY <1>0, <1>1, StepIsLockMove, LockMovePreserves
<1>3. CASE UNCHANGED vars
  BY <1>1, <1>3 DEF vars
<1> QED BY <1>2, <1>3

\* At most one process is between down(&dev->sem) and up(&dev->sem), and the
\* semaphore is free exactly when none is: every return path of pipe.c gives it
\* back, and none gives it back twice.
THEOREM LockCorrect == Spec => []MutualExclusion
<1>1. Spec => []LockInv
  BY LockInit, LockStep, PTL DEF Spec
<1>2. LockInv => MutualExclusion
  BY DEF LockInv
<1> QED BY <1>1, <1>2, PTL
-----------------------------------------------------------------------------
(* No sleeper is forgotten *)

LEMMA ReadersStep ==
  ASSUME LockInv, SleepersServed, NEW p \in Procs,
         Acquire(p) \/ Kernel(p) \/ Environment(p)
  PROVE  ReaderLacksData' /\ (buffersize # 0 /\ wp = buffersize => At("wr_wrap"))'
<1> USE DEF LockInv, TypeInv, TypeOK, SleepersServed, ReaderLacksData, WriteInFlight,
            Readable, At, Goto, Moves, Leave, Enqueue, ring, queues, Locations
<1> DEFINE Goal == ReaderLacksData' /\ (buffersize # 0 /\ wp = buffersize => At("wr_wrap"))'
<1>1. CASE Acquire(p)
  <2>1. CASE ReadDown(p) BY <2>1 DEF ReadDown
  <2>2. CASE WriteDown(p) BY <2>2 DEF WriteDown
  <2>3. CASE PollScan(p) BY <2>3 DEF PollScan, Ready
  <2>4. CASE ReleaseEnd(p) BY <2>4 DEF ReleaseEnd
  <2> QED BY <1>1, <2>1, <2>2, <2>3, <2>4 DEF Acquire
<1>2. CASE Kernel(p)
  <2>1. CASE OpenEnd(p) BY <2>1 DEF OpenEnd
  <2>2. CASE ReadEmpty(p) BY <2>2 DEF ReadEmpty
  <2>3. CASE ReadCopy(p) BY <2>3 DEF ReadCopy
  <2>4. CASE ReadFault(p) BY <2>4 DEF ReadFault
  <2>5. CASE ReadWrap(p) BY <2>5 DEF ReadWrap, Wrapped
  <2>6. CASE ReadWake(p) BY <2>6 DEF ReadWake, WakeWriters
  <2>7. CASE ReadPrepare(p) BY <2>7 DEF ReadPrepare
  <2>8. CASE ReadLoad(p) BY <2>8 DEF ReadLoad
  <2>9. CASE ReadCheck(p) BY <2>9 DEF ReadCheck
  <2>10. CASE ReadAwake(p) BY <2>10 DEF ReadAwake
  <2>11. CASE WriteFull(p) BY <2>11 DEF WriteFull
  <2>12. CASE WriteCopy(p) BY <2>12 DEF WriteCopy
  <2>13. CASE WriteFault(p) BY <2>13 DEF WriteFault
  <2>14. CASE WriteWrap(p) BY <2>14 DEF WriteWrap, Wrapped
  <2>15. CASE WriteWake(p) BY <2>15 DEF WriteWake, WakeReaders
  <2>16. CASE WriteSigio(p) BY <2>16 DEF WriteSigio
  <2>17. CASE WritePrepare(p) BY <2>17 DEF WritePrepare
  <2>18. CASE WriteLoad(p) BY <2>18 DEF WriteLoad
  <2>19. CASE WriteCheck(p) BY <2>19 DEF WriteCheck
  <2>20. CASE WriteAwake(p) BY <2>20 DEF WriteAwake
  <2>21. CASE PollAwake(p) BY <2>21 DEF PollAwake
  <2> QED
    BY <1>2, <2>1, <2>2, <2>3, <2>4, <2>5, <2>6, <2>7, <2>8, <2>9, <2>10, <2>11,
       <2>12, <2>13, <2>14, <2>15, <2>16, <2>17, <2>18, <2>19, <2>20, <2>21
    DEF Kernel
<1>3. CASE Environment(p)
  <2>1. CASE OpenBegin(p) BY <2>1, SizeAssumption DEF OpenBegin
  <2>2. CASE ReleaseBegin(p) BY <2>2 DEF ReleaseBegin
  <2>3. CASE ReadCall(p) BY <2>3 DEF ReadCall
  <2>4. CASE WriteCall(p) BY <2>4 DEF WriteCall
  <2>5. CASE PollCall(p) BY <2>5 DEF PollCall
  <2>6. CASE Interrupted(p) BY <2>6 DEF Interrupted
  <2>7. CASE Fasync(p) BY <2>7 DEF Fasync
  <2>8. CASE TakeSigio(p) BY <2>8 DEF TakeSigio
  <2>9. CASE TuneSize(p) BY <2>9 DEF TuneSize
  <2> QED BY <1>3, <2>1, <2>2, <2>3, <2>4, <2>5, <2>6, <2>7, <2>8, <2>9
          DEF Environment
<1> QED BY <1>1, <1>2, <1>3

LEMMA SpaceAtEnd ==
  ASSUME NEW r \in Nat, buffersize \in Nat \ {0, 1}, SpaceFree(r, buffersize) = 0
  PROVE  SpaceFree(r, 0) = 0
<1>1. r # buffersize
  BY DEF SpaceFree
<1>2. (r + buffersize - buffersize) % buffersize = 1
  BY <1>1 DEF SpaceFree
<1>3. r % buffersize = 1
  BY <1>2
<1>4. r # 0
  BY <1>3
<1>5. (r + buffersize - 0) % buffersize = 1
  BY <1>3
<1> QED BY <1>4, <1>5 DEF SpaceFree

LEMMA WritersStep ==
  ASSUME LockInv, SleepersServed, NEW p \in Procs,
         Acquire(p) \/ Kernel(p) \/ Environment(p)
  PROVE  WriterLacksSpace'
<1> USE DEF LockInv, TypeInv, TypeOK, SleepersServed, WriterLacksSpace, ReadInFlight,
            At, Goto, Moves, Leave, Enqueue, ring, queues, Locations
<1>0. UNCHANGED <<buffersize, rp, wp>> => (Writable <=> Writable')
  BY DEF Writable, SpaceFree
<1>1. CASE Acquire(p)
  <2>1. CASE ReadDown(p) BY <2>1, <1>0 DEF ReadDown
  <2>2. CASE WriteDown(p) BY <2>2, <1>0 DEF WriteDown
  <2>3. CASE PollScan(p)
    <3>1. CASE Ready(p) BY <2>3, <3>1, <1>0 DEF PollScan
    <3>2. CASE ~Ready(p)
      <4>1. p \in Writers => ~Writable
        BY <3>2 DEF Ready
      <4>2. /\ pc[p] = "poll_down" /\ pc' = [pc EXCEPT ![p] = "poll_sleep"]
            /\ inq' = inq \cup {p} /\ outq' = outq \cup {p}
            /\ stranded' = stranded \ {p} /\ UNCHANGED <<buffersize, rp, wp, seen>>
        BY <2>3, <3>2 DEF PollScan
      <4>3. ReadInFlight => ReadInFlight'
        BY <4>2
      <4>4. ASSUME NEW q \in outq' \ stranded', q # p
            PROVE  /\ \/ pc'[q] = "wr_sleep"
                      \/ pc'[q] = "poll_sleep" /\ q \in Writers /\ q \in inq'
                      => ~Writable' \/ ReadInFlight'
                   /\ pc'[q] = "wr_check" => seen'[q] = rp' \/ ReadInFlight'
        BY <4>2, <4>3, <4>4, <1>0
      <4> QED BY <4>1, <4>2, <4>4, <1>0
    <3> QED BY <3>1, <3>2
  <2>4. CASE ReleaseEnd(p) BY <2>4, <1>0 DEF ReleaseEnd
  <2> QED BY <1>1, <2>1, <2>2, <2>3, <2>4 DEF Acquire
<1>2. CASE Kernel(p)
  <2>1. CASE OpenEnd(p) BY <2>1 DEF OpenEnd
  <2>2. CASE ReadEmpty(p) BY <2>2, <1>0 DEF ReadEmpty
  <2>3. CASE ReadCopy(p) BY <2>3 DEF ReadCopy
  <2>4. CASE ReadFault(p) BY <2>4, <1>0 DEF ReadFault
  <2>5. CASE ReadWrap(p) BY <2>5 DEF ReadWrap, Wrapped
  <2>6. CASE ReadWake(p) BY <2>6, <1>0 DEF ReadWake, WakeWriters
  <2>7. CASE ReadPrepare(p) BY <2>7, <1>0 DEF ReadPrepare
  <2>8. CASE ReadLoad(p) BY <2>8, <1>0 DEF ReadLoad
  <2>9. CASE ReadCheck(p) BY <2>9, <1>0 DEF ReadCheck
  <2>10. CASE ReadAwake(p) BY <2>10, <1>0 DEF ReadAwake
  <2>11. CASE WriteFull(p) BY <2>11, <1>0 DEF WriteFull
  <2>12. CASE WriteCopy(p)
    <3>1. Writable
      BY <2>12 DEF WriteCopy, Writable
    <3> QED BY <2>12, <3>1 DEF WriteCopy
  <2>13. CASE WriteFault(p)
    <3>1. /\ pc' = [pc EXCEPT ![p] = "idle"] /\ pc[p] = "wr_crit"
          /\ UNCHANGED <<buffersize, rp, wp, inq, outq, stranded, seen>>
      BY <2>13 DEF WriteFault
    <3> QED BY <3>1, <1>0
  <2>14. CASE WriteWrap(p)
    <3>1. ~Writable => ~Writable'
      <4>1. /\ buffersize \in Nat \ {0, 1} /\ UNCHANGED <<buffersize, rp>>
            /\ wp' = IF wp = buffersize THEN 0 ELSE wp
        BY <2>14, SizeAssumption DEF WriteWrap, Wrapped, SizeIsSet
      <4>2. CASE wp = buffersize
        <5>1. ~Writable => SpaceFree(rp, 0) = 0
          BY <4>1, <4>2, SpaceAtEnd DEF Writable
        <5> QED BY <4>1, <4>2, <5>1 DEF Writable, SpaceFree
      <4>3. CASE wp # buffersize
        BY <4>1, <4>3, <1>0
      <4> QED BY <4>2, <4>3
    <3> QED BY <2>14, <3>1 DEF WriteWrap
  <2>15. CASE WriteWake(p) BY <2>15, <1>0 DEF WriteWake, WakeReaders
  <2>16. CASE WriteSigio(p) BY <2>16, <1>0 DEF WriteSigio
  <2>17. CASE WritePrepare(p) BY <2>17, <1>0 DEF WritePrepare
  <2>18. CASE WriteLoad(p) BY <2>18, <1>0 DEF WriteLoad
  <2>19. CASE WriteCheck(p)
    <3>1. SpaceFree(seen[p], wp) = 0 /\ seen[p] = rp => ~Writable
      BY DEF Writable
    <3>2. CASE SpaceFree(seen[p], wp) = 0
      <4>1. /\ pc[p] = "wr_check" /\ pc' = [pc EXCEPT ![p] = "wr_sleep"]
            /\ seen' = [seen EXCEPT ![p] = 0]
            /\ UNCHANGED <<buffersize, rp, wp, inq, outq, stranded>>
        BY <2>19, <3>2 DEF WriteCheck
      <4>2. ReadInFlight => ReadInFlight'
        BY <4>1
      <4>3. p \in outq \ stranded => ~Writable' \/ ReadInFlight'
        BY <4>1, <4>2, <3>1, <3>2, <1>0
      <4> QED BY <4>1, <4>2, <4>3, <1>0
    <3>3. CASE SpaceFree(seen[p], wp) # 0
      BY <2>19, <3>3, <1>0 DEF WriteCheck
    <3> QED BY <3>2, <3>3
  <2>20. CASE WriteAwake(p) BY <2>20, <1>0 DEF WriteAwake
  <2>21. CASE PollAwake(p) BY <2>21, <1>0 DEF PollAwake
  <2> QED
    BY <1>2, <2>1, <2>2, <2>3, <2>4, <2>5, <2>6, <2>7, <2>8, <2>9, <2>10, <2>11,
       <2>12, <2>13, <2>14, <2>15, <2>16, <2>17, <2>18, <2>19, <2>20, <2>21
    DEF Kernel
<1>3. CASE Environment(p)
  <2>1. CASE OpenBegin(p) BY <2>1 DEF OpenBegin
  <2>2. CASE ReleaseBegin(p) BY <2>2, <1>0 DEF ReleaseBegin
  <2>3. CASE ReadCall(p) BY <2>3, <1>0 DEF ReadCall
  <2>4. CASE WriteCall(p) BY <2>4, <1>0 DEF WriteCall
  <2>5. CASE PollCall(p) BY <2>5, <1>0 DEF PollCall
  <2>6. CASE Interrupted(p) BY <2>6, <1>0 DEF Interrupted
  <2>7. CASE Fasync(p) BY <2>7, <1>0 DEF Fasync
  <2>8. CASE TakeSigio(p) BY <2>8, <1>0 DEF TakeSigio
  <2>9. CASE TuneSize(p) BY <2>9, <1>0 DEF TuneSize
  <2> QED BY <1>3, <2>1, <2>2, <2>3, <2>4, <2>5, <2>6, <2>7, <2>8, <2>9
          DEF Environment
<1> QED BY <1>1, <1>2, <1>3

SleepInv == LockInv /\ SleepersServed

LEMMA SleepInit == Init => SleepInv
<1>1. Init => SleepersServed
  BY DEF Init, SleepersServed, ReaderLacksData, WriterLacksSpace
<1> QED BY <1>1, LockInit DEF SleepInv

LEMMA SleepStep == SleepInv /\ [Next]_vars => SleepInv'
<1> SUFFICES ASSUME SleepInv, [Next]_vars PROVE SleepersServed'
  BY LockStep DEF SleepInv
<1>1. CASE Next
  <2> PICK p \in Procs : Acquire(p) \/ Kernel(p) \/ Environment(p)
    BY <1>1 DEF Next
  <2> QED BY ReadersStep, WritersStep DEF SleepInv, SleepersServed
<1>2. CASE UNCHANGED vars
  BY <1>2 DEF SleepInv, SleepersServed, ReaderLacksData, WriterLacksSpace, Readable,
     Writable, SpaceFree, ReadInFlight, WriteInFlight, At, vars, ring, queues
<1> QED BY <1>1, <1>2

LEMMA SleepHolds == Spec => []SleepInv
BY SleepInit, SleepStep, PTL DEF Spec

\* When the lock is free nobody is in the middle of an operation, so that what
\* is in flight is a wake_up.
LEMMA FreeLock ==
  ASSUME SleepInv, sem = 1
  PROVE  ~At("opening") /\ ~At("rd_wrap") /\ ~At("wr_wrap")
BY DEF SleepInv, LockInv, MutualExclusion, InCritical, Critical, At

\* No reader sleeps on inq while there is data, unless a wake_up is coming.
THEOREM NoReaderForgotten == Spec => []ReaderWakeup
<1>1. SleepInv => ReaderWakeup
  BY FreeLock DEF SleepInv, SleepersServed, ReaderLacksData, WriteInFlight, At,
     ReaderWakeup
<1> QED BY <1>1, SleepHolds, PTL

\* No writer sleeps on outq while there is space, unless a wake_up is coming or
\* an open emptied the pipe under it.
THEOREM NoWriterForgotten == Spec => []WriterWakeup
<1>1. SleepInv => WriterWakeup
  BY FreeLock DEF SleepInv, SleepersServed, WriterLacksSpace, ReadInFlight, At,
     WriterWakeup
<1> QED BY <1>1, SleepHolds, PTL

\* The same for a process that sleeps in poll or select.
THEOREM NoPollerForgotten == Spec => []PollerWakeup
<1>1. SleepInv => PollerWakeup
  BY FreeLock DEF SleepInv, SleepersServed, ReaderLacksData, WriterLacksSpace,
     ReadInFlight, WriteInFlight, At, PollerWakeup
<1> QED BY <1>1, SleepHolds, PTL

\* Nobody who sleeps is forgotten, in a read, a write or a poll.
THEOREM NobodyForgotten == Spec => []NoLostWakeup
BY NoReaderForgotten, NoWriterForgotten, NoPollerForgotten, PTL DEF NoLostWakeup

\* The invariant behind it, which holds inside the operations too.
THEOREM SleepersCorrect == Spec => []SleepersServed
<1>1. SleepInv => SleepersServed
  BY DEF SleepInv
<1> QED BY <1>1, SleepHolds, PTL
-----------------------------------------------------------------------------
(* The files that are open *)

Inside == Locations \ {"closed", "opening", "releasing"}

\* The counts are right inside the operations too; only an open that has the
\* lock is not counted yet, and has a buffer.
CountsInv ==
  /\ nreaders = Cardinality(Holders \cap Readers)
  /\ nwriters = Cardinality(Holders \cap Writers)
  /\ allocsize = 0 <=> \A p \in Procs : pc[p] = "closed"
  /\ AsyncFilesOpen

LEMMA HoldersFinite ==
  ASSUME NEW H, H \subseteq Procs
  PROVE  /\ IsFiniteSet(H) /\ Cardinality(H) \in Nat
         /\ Cardinality(H) = 0 <=> H = {}
<1>1. IsFiniteSet(H)  BY ProcsAssumption, FS_Subset
<1>. QED  BY <1>1, FS_CardinalityType, FS_EmptySet

\* What a step of p does that is not about its file.
LEMMA StepStaysInside ==
  ASSUME TypeOK, NEW p \in Procs, Acquire(p) \/ Kernel(p) \/ Environment(p)
  PROVE  \/ OpenBegin(p) \/ OpenEnd(p) \/ ReleaseBegin(p) \/ ReleaseEnd(p)
         \/ /\ pc[p] \in Inside /\ \E to \in Inside : pc' = [pc EXCEPT ![p] = to]
            /\ UNCHANGED <<allocsize, counts, async>>
         \/ /\ UNCHANGED <<allocsize, counts, pc>>
            /\ async' = async \/ (pc[p] = "idle" /\ async' \subseteq async \cup {p})
<1> USE DEF Goto, Moves, Locations, Inside, ring, counts, queues, notify
<1>1. CASE Acquire(p)
  BY <1>1 DEF Acquire, ReadDown, WriteDown, PollScan
<1>2. CASE Kernel(p)
  <2>1. CASE ReadEmpty(p) BY <2>1 DEF ReadEmpty
  <2>2. CASE ReadCopy(p) \/ ReadFault(p) \/ ReadWrap(p) \/ ReadWake(p)
    BY <2>2 DEF ReadCopy, ReadFault, ReadWrap, ReadWake
  <2>3. CASE ReadPrepare(p) \/ ReadLoad(p) \/ ReadCheck(p) \/ ReadAwake(p)
    BY <2>3 DEF ReadPrepare, ReadLoad, ReadCheck, ReadAwake
  <2>4. CASE WriteFull(p) \/ WriteCopy(p) \/ WriteFault(p) \/ WriteWrap(p)
    BY <2>4 DEF WriteFull, WriteCopy, WriteFault, WriteWrap
  <2>5. CASE WriteWake(p) \/ WriteSigio(p)
    BY <2>5 DEF WriteWake, WriteSigio
  <2>6. CASE WritePrepare(p) \/ WriteLoad(p) \/ WriteCheck(p) \/ WriteAwake(p)
    BY <2>6 DEF WritePrepare, WriteLoad, WriteCheck, WriteAwake
  <2>7. CASE PollAwake(p) BY <2>7 DEF PollAwake
  <2> QED BY <1>2, <2>1, <2>2, <2>3, <2>4, <2>5, <2>6, <2>7 DEF Kernel
<1>3. CASE Environment(p)
  <2>1. CASE ReadCall(p) \/ WriteCall(p) \/ PollCall(p)
    BY <2>1 DEF ReadCall, WriteCall, PollCall
  <2>2. CASE Interrupted(p) BY <2>2 DEF Interrupted
  <2>3. CASE Fasync(p) BY <2>3 DEF Fasync
  <2>4. CASE TakeSigio(p) \/ TuneSize(p) BY <2>4 DEF TakeSigio, TuneSize
  <2> QED BY <1>3, <2>1, <2>2, <2>3, <2>4 DEF Environment
<1> QED BY <1>1, <1>2, <1>3

\* One file more in each mode p has.
LEMMA CountedJoin ==
  ASSUME NEW mode, mode \subseteq Procs, NEW p \in Procs,
         p \notin Holders, Holders' = Holders \cup {p}
  PROVE  Counted(Cardinality(Holders \cap mode), mode, p, 1) = Cardinality(Holders' \cap mode)
<1>1. IsFiniteSet(Holders \cap mode)  BY HoldersFinite
<1>2. CASE p \in mode
  <2>1. Holders' \cap mode = (Holders \cap mode) \cup {p} /\ p \notin Holders \cap mode
    BY <1>2
  <2>. QED  BY <1>1, <1>2, <2>1, FS_AddElement DEF Counted
<1>3. CASE p \notin mode
  <2>1. Holders' \cap mode = Holders \cap mode  BY <1>3
  <2>. QED  BY <1>3, <2>1 DEF Counted
<1>. QED  BY <1>2, <1>3

\* One file fewer.
LEMMA CountedLeave ==
  ASSUME NEW mode, mode \subseteq Procs, NEW p \in Procs,
         p \in Holders, Holders' = Holders \ {p}
  PROVE  Counted(Cardinality(Holders \cap mode), mode, p, -1) = Cardinality(Holders' \cap mode)
<1>1. IsFiniteSet(Holders \cap mode)  BY HoldersFinite
<1>2. CASE p \in mode
  <2>1. Holders' \cap mode = (Holders \cap mode) \ {p} /\ p \in Holders \cap mode
    BY <1>2
  <2>2. Cardinality(Holders \cap mode) \in Nat  BY HoldersFinite
  <2>3. Cardinality(Holders' \cap mode) = Cardinality(Holders \cap mode) - 1
    BY <1>1, <2>1, FS_RemoveElement
  <2>. QED  BY <1>2, <2>2, <2>3 DEF Counted
<1>3. CASE p \notin mode
  <2>1. Holders' \cap mode = Holders \cap mode  BY <1>3
  <2>. QED  BY <1>3, <2>1 DEF Counted
<1>. QED  BY <1>2, <1>3

LEMMA SumIsZero ==
  ASSUME NEW a \in Nat, NEW b \in Nat PROVE a + b = 0 <=> a = 0 /\ b = 0
OBVIOUS

LEMMA CountsInit ==
  ASSUME Init PROVE CountsInv
<1>1. Holders = {}  BY DEF Init, Holders
<1>. QED  BY <1>1, FS_EmptySet DEF Init, CountsInv, AsyncFilesOpen

LEMMA CountsStep ==
  ASSUME LockInv, CountsInv, LockInv', NEW p \in Procs,
         Acquire(p) \/ Kernel(p) \/ Environment(p)
  PROVE  CountsInv'
<1> USE DEF LockInv, TypeInv, TypeOK, counts, ring, queues, notify
<1>1. Readers \subseteq Procs /\ Writers \subseteq Procs  BY DEF Procs
<1>2. CASE OpenBegin(p)
  <2>1. /\ pc[p] = "closed" /\ pc' = [pc EXCEPT ![p] = "opening"]
        /\ allocsize' = IF allocsize = 0 THEN scull_p_buffer ELSE allocsize
        /\ UNCHANGED <<nreaders, nwriters, async>>
    BY <1>2 DEF OpenBegin, Goto
  <2>2. Holders' = Holders  BY <2>1 DEF Holders
  <2>3. allocsize' # 0  BY <2>1, SizeAssumption
  <2>. QED  BY <2>1, <2>2, <2>3 DEF CountsInv, AsyncFilesOpen
<1>3. CASE OpenEnd(p)
  <2>1. /\ pc[p] = "opening" /\ pc' = [pc EXCEPT ![p] = "idle"]
        /\ nreaders' = Counted(nreaders, Readers, p, 1)
        /\ nwriters' = Counted(nwriters, Writers, p, 1)
        /\ UNCHANGED <<allocsize, async>>
    BY <1>3 DEF OpenEnd, Goto
  <2>2. p \notin Holders /\ Holders' = Holders \cup {p}  BY <2>1 DEF Holders
  <2>. QED  BY <1>1, <2>1, <2>2, CountedJoin DEF CountsInv, AsyncFilesOpen
<1>4. CASE ReleaseBegin(p)
  <2>1. /\ pc[p] = "idle" /\ pc' = [pc EXCEPT ![p] = "releasing"]
        /\ async' = async \ {p}
        /\ UNCHANGED <<nreaders, nwriters, allocsize>>
    BY <1>4 DEF ReleaseBegin, Goto
  <2>2. Holders' = Holders  BY <2>1 DEF Holders
  <2>. QED  BY <2>1, <2>2 DEF CountsInv, AsyncFilesOpen
<1>5. CASE ReleaseEnd(p)
  <2>1. /\ pc[p] = "releasing" /\ pc' = [pc EXCEPT ![p] = "closed"] /\ sem > 0
        /\ nreaders' = Counted(nreaders, Readers, p, -1)
        /\ nwriters' = Counted(nwriters, Writers, p, -1)
        /\ allocsize' = IF nreaders' + nwriters' = 0 THEN 0 ELSE allocsize
        /\ UNCHANGED async
    BY <1>5 DEF ReleaseEnd, Goto
  <2>2. p \in Holders /\ Holders' = Holders \ {p}  BY <2>1 DEF Holders
  <2>3. /\ nreaders' = Cardinality(Holders' \cap Readers)
        /\ nwriters' = Cardinality(Holders' \cap Writers)
    BY <1>1, <2>1, <2>2, CountedLeave DEF CountsInv
  <2>4. nreaders' + nwriters' = 0 <=> Holders' = {}
    <3>1. Holders' \subseteq Procs /\ Holders' \cap Readers \subseteq Procs
          /\ Holders' \cap Writers \subseteq Procs
      BY DEF Holders
    <3>2. Holders' = {} <=> Holders' \cap Readers = {} /\ Holders' \cap Writers = {}
      BY <3>1 DEF Procs
    <3>3. nreaders' \in Nat /\ nwriters' \in Nat  BY <2>3, <3>1, HoldersFinite
    <3>4. nreaders' = 0 <=> Holders' \cap Readers = {}  BY <2>3, <3>1, HoldersFinite
    <3>5. nwriters' = 0 <=> Holders' \cap Writers = {}  BY <2>3, <3>1, HoldersFinite
    <3>6. nreaders' + nwriters' = 0 <=> nreaders' = 0 /\ nwriters' = 0  BY <3>3, SumIsZero
    <3>. QED  BY <3>2, <3>4, <3>5, <3>6
  <2>5. \A q \in Procs : pc'[q] # "opening"
    BY <2>1 DEF MutualExclusion, InCritical, Critical
  <2>6. allocsize # 0  BY <2>1 DEF CountsInv
  <2>7. Holders' = {} <=> \A q \in Procs : pc'[q] = "closed"  BY <2>5 DEF Holders
  <2>8. allocsize' = 0 <=> Holders' = {}  BY <2>1, <2>4, <2>6
  <2>. QED  BY <2>1, <2>3, <2>7, <2>8 DEF CountsInv, AsyncFilesOpen
<1>6. CASE /\ pc[p] \in Inside /\ \E to \in Inside : pc' = [pc EXCEPT ![p] = to]
           /\ UNCHANGED <<allocsize, counts, async>>
  <2>1. Holders' = Holders  BY <1>6 DEF Holders, Inside
  <2>. QED  BY <1>6, <2>1 DEF CountsInv, AsyncFilesOpen, Inside
<1>7. CASE /\ UNCHANGED <<allocsize, counts, pc>>
           /\ async' = async \/ (pc[p] = "idle" /\ async' \subseteq async \cup {p})
  <2>1. Holders' = Holders  BY <1>7 DEF Holders
  <2>. QED  BY <1>7, <2>1 DEF CountsInv, AsyncFilesOpen
<1>. QED  BY <1>2, <1>3, <1>4, <1>5, <1>6, <1>7, StepStaysInside

FilesInv == LockInv /\ CountsInv

LEMMA FilesHold == Spec => []FilesInv
<1>1. Init => FilesInv  BY LockInit, CountsInit DEF FilesInv
<1>2. ASSUME FilesInv, [Next]_vars PROVE FilesInv'
  <2>1. LockInv'  BY <1>2, LockStep DEF FilesInv
  <2>2. CASE Next
    <3> PICK p \in Procs : Acquire(p) \/ Kernel(p) \/ Environment(p)  BY <2>2 DEF Next
    <3>. QED  BY <1>2, <2>1, CountsStep DEF FilesInv
  <2>3. CASE UNCHANGED vars
    BY <1>2, <2>1, <2>3 DEF FilesInv, CountsInv, AsyncFilesOpen, Holders, vars, ring,
       counts, notify
  <2>. QED  BY <1>2, <2>2, <2>3
<1>. QED  BY <1>1, <1>2, PTL DEF Spec

\* nreaders and nwriters are the numbers of the open files, so that the last
\* close and no earlier one frees the buffer; and SIGIO is sent to no file that
\* is being closed (lines 72-96).
THEOREM FilesCorrect == Spec => []FilesAccounted
<1>1. ASSUME FilesInv PROVE FilesAccounted
  <2>1. sem = 1 => InCritical = {}
    BY <1>1 DEF FilesInv, LockInv, MutualExclusion
  <2>2. sem = 1 => (Holders = {} <=> \A p \in Procs : pc[p] = "closed")
    BY <2>1 DEF InCritical, Critical, Holders
  <2>. QED  BY <1>1, <2>2 DEF FilesInv, CountsInv, FilesAccounted, OpenCounts
<1>. QED  BY <1>1, FilesHold, PTL
-----------------------------------------------------------------------------
(* A scullpipe is a first-in first-out queue of bytes, where the size of   *)
(* the buffer is not changed while the module is loaded and reads ask for  *)
(* one byte at most: longer ones may pass the end (lines 125-126).         *)

OneSize    == TuneSizes \subseteq {InitialSize}
SmallReads == ReadCounts \subseteq {0, 1}

(* A ring of m bytes *)

Turned(m, x) == IF x = m THEN 0 ELSE x

\* How many bytes are from r to w, and where the i-th of them is.
Filled(m, r, w) == IF w >= r THEN w - r ELSE w - r + m
Place(m, r, i)  == IF r + i - 1 < m THEN r + i - 1 ELSE r + i - 1 - m

Content(m, b, r, w) == [i \in 1..Filled(m, r, w) |-> b[Place(m, r, i)]]

\* What the refinement takes for the queue, with the pointers as they are.
Window(m, b, r, w) ==
  [i \in 1..(Turned(m, w) - Turned(m, r)) % m |-> b[(r + i - 1) % m]]

Rem(x, m) == x % m

LEMMA Remainder ==
  ASSUME NEW m \in Nat \ {0}, NEW x \in Int
  PROVE  /\ x \in 0..m - 1 => Rem(x, m) = x
         /\ x - m \in 0..m - 1 => Rem(x, m) = x - m
         /\ x + m \in 0..m - 1 => Rem(x, m) = x + m
<1>1. x \in 0..m - 1 => Rem(x, m) = x  BY Z3 DEF Rem
<1>2. x - m \in 0..m - 1 => Rem(x, m) = x - m  BY Z3 DEF Rem
<1>3. x + m \in 0..m - 1 => Rem(x, m) = x + m  BY Z3 DEF Rem
<1>. QED  BY <1>1, <1>2, <1>3

LEMMA Around ==
  ASSUME NEW m \in Nat \ {0}, NEW x \in 0..m + m - 1
  PROVE  Rem(x, m) = IF x < m THEN x ELSE x - m
<1>1. x < m => x \in 0..m - 1  OBVIOUS
<1>2. x >= m => x - m \in 0..m - 1  OBVIOUS
<1>. QED  BY <1>1, <1>2, Remainder

LEMMA Behind ==
  ASSUME NEW m \in Nat \ {0}, NEW r \in 0..m - 1, NEW w \in 0..m - 1
  PROVE  Rem(w - r, m) = Filled(m, r, w)
<1>1. PICK x \in Int : x = w - r  OBVIOUS
<1>2. w >= r => x \in 0..m - 1  BY <1>1
<1>3. w < r => x + m \in 0..m - 1  BY <1>1
<1>4. Rem(x, m) = IF w >= r THEN x ELSE x + m  BY <1>2, <1>3, Remainder
<1>. QED  BY <1>1, <1>4 DEF Filled

LEMMA FilledRange ==
  ASSUME NEW m \in Nat \ {0}, NEW r \in 0..m - 1, NEW w \in 0..m - 1
  PROVE  /\ Filled(m, r, w) \in 0..m - 1
         /\ Filled(m, r, w) = 0 <=> r = w
BY DEF Filled

LEMMA PlaceRange ==
  ASSUME NEW m \in Nat \ {0}, NEW r \in 0..m - 1, NEW i \in 1..m
  PROVE  Place(m, r, i) \in 0..m - 1
BY DEF Place

LEMMA WindowIs ==
  ASSUME NEW m \in Nat \ {0}, NEW r \in 0..m, NEW w \in 0..m, NEW b
  PROVE  Window(m, b, r, w) = Content(m, b, Turned(m, r), Turned(m, w))
<1>1. Turned(m, r) \in 0..m - 1 /\ Turned(m, w) \in 0..m - 1  BY DEF Turned
<1>2. Rem(Turned(m, w) - Turned(m, r), m) = Filled(m, Turned(m, r), Turned(m, w))
  BY <1>1, Behind
<1>3. Filled(m, Turned(m, r), Turned(m, w)) \in 0..m - 1  BY <1>1, FilledRange
<1>4. ASSUME NEW i \in 1..Filled(m, Turned(m, r), Turned(m, w))
      PROVE  Rem(r + i - 1, m) = Place(m, Turned(m, r), i)
  <2>1. i \in 1..m - 1  BY <1>3
  <2>2. PICK x \in 0..m + m - 1 : x = r + i - 1  BY <2>1
  <2>3. Rem(x, m) = IF x < m THEN x ELSE x - m  BY Around
  <2>. QED  BY <2>1, <2>2, <2>3 DEF Turned, Place
<1>. QED  BY <1>2, <1>4 DEF Window, Content, Rem

\* The content is a sequence, whose elements are there.
Holds(m, b, r, w, S) ==
  /\ Content(m, b, r, w) \in Seq(S)
  /\ Len(Content(m, b, r, w)) = Filled(m, r, w)
  /\ \A i \in 1..Filled(m, r, w) : Content(m, b, r, w)[i] = b[Place(m, r, i)]

LEMMA ContentSeq ==
  ASSUME NEW m \in Nat \ {0}, NEW r \in 0..m - 1, NEW w \in 0..m - 1, NEW S,
         NEW b \in [0..m - 1 -> S]
  PROVE  Holds(m, b, r, w, S)
<1>1. Filled(m, r, w) \in 0..m - 1  BY FilledRange
<1>2. ASSUME NEW i \in 1..Filled(m, r, w) PROVE b[Place(m, r, i)] \in S
  <2>1. i \in 1..m  BY <1>1
  <2>2. Place(m, r, i) \in 0..m - 1  BY <2>1, PlaceRange
  <2>. QED  BY <2>2
<1>. QED  BY <1>1, <1>2 DEF Content, Holds

\* One byte is taken off the front.
LEMMA Taken ==
  ASSUME NEW m \in Nat \ {0, 1}, NEW r \in 0..m - 1, NEW w \in 0..m - 1, r # w, NEW S,
         NEW b \in [0..m - 1 -> S]
  PROVE  /\ Content(m, b, Turned(m, r + 1), w) =
              SubSeq(Content(m, b, r, w), 2, Len(Content(m, b, r, w)))
         /\ SubSeq(Content(m, b, r, w), 1, 1) = <<b[r]>>
<1> DEFINE s == Content(m, b, r, w)
           t == Content(m, b, Turned(m, r + 1), w)
           n == Filled(m, r, w)
<1>. m \in Nat \ {0}  OBVIOUS
<1>1. Turned(m, r + 1) \in 0..m - 1  BY DEF Turned
<1>2. /\ n \in 1..m - 1 /\ Filled(m, Turned(m, r + 1), w) = n - 1
      /\ \A i \in 1..n - 1 : Place(m, Turned(m, r + 1), i) = Place(m, r, i + 1)
      /\ Place(m, r, 1) = r
  BY DEF Filled, Turned, Place
<1>3. /\ s \in Seq(S) /\ Len(s) = n /\ \A i \in 1..n : s[i] = b[Place(m, r, i)]
  <2>1. Holds(m, b, r, w, S)  BY ContentSeq
  <2>. QED  BY <2>1, Zenon DEF Holds
<1>4. /\ t \in Seq(S) /\ Len(t) = n - 1
      /\ \A i \in 1..n - 1 : t[i] = b[Place(m, r, i + 1)]
  <2>1. PICK q \in 0..m - 1 : q = Turned(m, r + 1)  BY <1>1
  <2>2. Holds(m, b, q, w, S)  BY ContentSeq
  <2>. QED  BY <1>2, <2>1, <2>2 DEF Holds
<1> HIDE DEF s, t, n
<1>5. /\ SubSeq(s, 2, n) \in Seq(S) /\ Len(SubSeq(s, 2, n)) = n - 1
      /\ \A i \in 1..n - 1 : SubSeq(s, 2, n)[i] = s[i + 1]
  BY <1>2, <1>3
<1>6. t = SubSeq(s, 2, n)
  <2>1. ASSUME NEW i \in 1..n - 1 PROVE t[i] = SubSeq(s, 2, n)[i]
    <3>1. i + 1 \in 1..n  BY <1>2
    <3>2. s[i + 1] = b[Place(m, r, i + 1)]  BY <1>3, <3>1
    <3>. QED  BY <1>4, <1>5, <3>2
  <2>. QED  BY <1>4, <1>5, <2>1, SeqEqual
<1>7. SubSeq(s, 1, 1) = <<b[r]>>  BY <1>2, <1>3
<1>. QED  BY <1>3, <1>6, <1>7 DEF s, t

\* Bytes are stored behind the last.
Overlaid(m, S, b, c, w, k, bytes) ==
  /\ b \in [0..m - 1 -> S] /\ c \in [0..m - 1 -> S] /\ bytes \in [1..k -> S]
  /\ \A i \in 0..m - 1 :
       c[i] = IF w <= i /\ i < w + k THEN bytes[i - w + 1] ELSE b[i]

Appends(m, b, c, r, w, k, bytes) ==
  /\ Content(m, c, r, w) = Content(m, b, r, w)
  /\ Content(m, c, r, Turned(m, w + k)) = Content(m, b, r, w) \o bytes

LEMMA Appended ==
  ASSUME NEW m \in Nat \ {0, 1}, NEW r \in 0..m - 1, NEW w \in 0..m - 1, NEW S,
         NEW b, NEW c, NEW k \in Nat, NEW bytes, Overlaid(m, S, b, c, w, k, bytes),
         Filled(m, r, w) + k <= m - 1, w + k <= m
  PROVE  Appends(m, b, c, r, w, k, bytes)
<1> DEFINE s == Content(m, b, r, w)
           t == Content(m, c, r, Turned(m, w + k))
           n == Filled(m, r, w)
<1>. /\ m \in Nat \ {0}
     /\ b \in [0..m - 1 -> S] /\ c \in [0..m - 1 -> S] /\ bytes \in [1..k -> S]
  BY DEF Overlaid
<1>1. Turned(m, w + k) \in 0..m - 1  BY DEF Turned
<1>2. n \in 0..m - 1 /\ Filled(m, r, Turned(m, w + k)) = n + k
  BY DEF Filled, Turned
<1>3. ASSUME NEW i \in 1..n
      PROVE  Place(m, r, i) \in 0..m - 1 /\ c[Place(m, r, i)] = b[Place(m, r, i)]
  <2>1. Place(m, r, i) \in 0..m - 1 /\ ~(w <= Place(m, r, i) /\ Place(m, r, i) < w + k)
    BY <1>2, <1>3 DEF Place, Filled
  <2>. QED  BY <2>1 DEF Overlaid
<1>4. ASSUME NEW i \in n + 1..n + k
      PROVE  c[Place(m, r, i)] = bytes[i - n]
  <2>1. Place(m, r, i) \in 0..m - 1 /\ Place(m, r, i) = w + (i - n) - 1
    BY <1>2, <1>4 DEF Place, Filled
  <2>2. i - n \in 1..k  BY <1>2
  <2>. QED  BY <2>1, <2>2 DEF Overlaid
<1>5. /\ s \in Seq(S) /\ Len(s) = n /\ \A i \in 1..n : s[i] = b[Place(m, r, i)]
  <2>1. Holds(m, b, r, w, S)  BY ContentSeq
  <2>. QED  BY <2>1, Zenon DEF Holds
<1>6. /\ t \in Seq(S) /\ Len(t) = n + k
      /\ \A i \in 1..n + k : t[i] = c[Place(m, r, i)]
  <2>1. PICK v \in 0..m - 1 : v = Turned(m, w + k)  BY <1>1
  <2>2. Holds(m, c, r, v, S)  BY ContentSeq
  <2>. QED  BY <1>2, <2>1, <2>2 DEF Holds
<1>7. Content(m, c, r, w) = s  BY <1>3 DEF Content
<1> HIDE DEF s, t, n
<1>8. bytes \in Seq(S) /\ Len(bytes) = k  OBVIOUS
<1>9. /\ s \o bytes \in Seq(S) /\ Len(s \o bytes) = n + k
      /\ \A i \in 1..n + k : (s \o bytes)[i] = IF i <= n THEN s[i] ELSE bytes[i - n]
  <2>1. /\ s \o bytes \in Seq(S) /\ Len(s \o bytes) = Len(s) + Len(bytes)
        /\ \A i \in 1..Len(s) + Len(bytes) :
             (s \o bytes)[i] = IF i <= Len(s) THEN s[i] ELSE bytes[i - Len(s)]
    <3>1. s \in Seq(S) /\ bytes \in Seq(S)  BY <1>5, <1>8
    <3>. QED  BY ONLY <3>1, ConcatProperties, ZenonT(60)
  <2>. QED  BY <1>5, <1>8, <2>1, Zenon
<1>10. t = s \o bytes
  <2>1. ASSUME NEW i \in 1..n + k PROVE t[i] = (s \o bytes)[i]
    <3>1. CASE i <= n
      <4>1. i \in 1..n  BY <1>2, <3>1
      <4>2. t[i] = c[Place(m, r, i)] /\ s[i] = b[Place(m, r, i)]  BY <1>5, <1>6, <4>1
      <4>3. (s \o bytes)[i] = s[i]  BY <1>9, <3>1
      <4>. QED  BY <1>3, <4>1, <4>2, <4>3
    <3>2. CASE i > n
      <4>1. i \in n + 1..n + k /\ ~(i <= n)  BY <1>2, <3>2
      <4>2. (s \o bytes)[i] = bytes[i - n]  BY <1>9, <4>1
      <4>3. c[Place(m, r, i)] = bytes[i - n]  BY <1>4, <4>1
      <4>4. t[i] = c[Place(m, r, i)]  BY <1>6
      <4>. QED  BY <4>2, <4>3, <4>4
    <3>3. i <= n \/ i > n  BY <1>2
    <3>. QED  BY <3>1, <3>2, <3>3
  <2>. QED  BY <1>6, <1>9, <2>1, SeqEqual
<1>. QED  BY <1>7, <1>10 DEF s, t, Appends
-----------------------------------------------------------------------------
(* The pointers *)

\* A pointer is past the last byte only until the operation that moved it there
\* wraps it.
RingInv ==
  /\ allocsize \in {0, InitialSize} /\ scull_p_buffer = InitialSize
  /\ allocsize # 0 => buffersize = InitialSize
  /\ rp \in 0..InitialSize /\ wp \in 0..InitialSize
  /\ rp = InitialSize => At("rd_wrap")
  /\ wp = InitialSize => At("wr_wrap")

PipeInv == FilesInv /\ RingInv

\* Who is in the body of an operation is there alone, with an open file.
LEMMA AloneInside ==
  ASSUME PipeInv, NEW p \in Procs, pc[p] \in Critical
  PROVE  /\ \A q \in Procs \ {p} : pc[q] \notin Critical
         /\ allocsize = InitialSize /\ buffersize = InitialSize
         /\ rp = InitialSize => pc[p] = "rd_wrap"
         /\ wp = InitialSize => pc[p] = "wr_wrap"
<1>1. \A q \in Procs \ {p} : pc[q] \notin Critical
  BY DEF PipeInv, FilesInv, LockInv, MutualExclusion, InCritical
<1>2. allocsize = InitialSize /\ buffersize = InitialSize
  BY DEF PipeInv, FilesInv, CountsInv, RingInv, Critical
<1>. QED  BY <1>1, <1>2 DEF PipeInv, RingInv, At, Critical

LEMMA SizeNat == InitialSize \in Nat \ {0, 1}
BY SizeAssumption DEF Sizes

\* The space that is free is what is not filled, but for one byte.
LEMMA SpaceIs ==
  ASSUME buffersize = InitialSize, NEW r \in 0..InitialSize - 1, NEW w \in 0..InitialSize - 1
  PROVE  SpaceFree(r, w) = InitialSize - 1 - Filled(InitialSize, r, w)
<1>1. InitialSize \in Nat \ {0}  BY SizeNat
<1>2. CASE r = w  BY <1>1, <1>2 DEF SpaceFree, Filled
<1>3. CASE r # w
  <2>1. PICK x \in 0..InitialSize + InitialSize - 1 : x = r + InitialSize - w
    BY <1>1
  <2>2. Rem(x, InitialSize) = IF x < InitialSize THEN x ELSE x - InitialSize
    BY <1>1, Around
  <2>3. SpaceFree(r, w) = Rem(x, InitialSize) - 1
    BY <1>3, <2>1 DEF SpaceFree, Rem
  <2>. QED  BY <1>1, <1>3, <2>1, <2>2, <2>3 DEF Filled
<1>. QED  BY <1>2, <1>3

\* A read moves rp by one byte at most, and not past the end.
LEMMA ReadLimitIs ==
  ASSUME SmallReads, buffersize = InitialSize, NEW n \in ReadCounts,
         rp \in 0..InitialSize - 1, wp \in 0..InitialSize - 1, rp # wp
  PROVE  ReadLimit(n) \in {0, 1}
BY SizeNat DEF SmallReads, ReadLimit, CMin

\* A write stores no more than there is space for, and not past the end.
LEMMA WriteLimitIs ==
  ASSUME buffersize = InitialSize, NEW n \in WriteCounts,
         rp \in 0..InitialSize - 1, wp \in 0..InitialSize - 1
  PROVE  /\ WriteLimit(n) \in Nat /\ wp + WriteLimit(n) <= InitialSize
         /\ Filled(InitialSize, rp, wp) + WriteLimit(n) <= InitialSize - 1
<1>1. InitialSize \in Nat \ {0, 1} /\ n \in Nat  BY SizeNat, CountAssumption
<1>2. PICK f \in 0..InitialSize - 1 : f = Filled(InitialSize, rp, wp)
  BY <1>1, FilledRange
<1>3. SpaceFree(rp, wp) = InitialSize - 1 - f  BY <1>2, SpaceIs
<1>4. PICK room \in Nat : room = CMin(n, SpaceFree(rp, wp)) /\ room <= InitialSize - 1 - f
  BY <1>1, <1>3 DEF CMin
<1>5. WriteLimit(n) = IF wp >= rp THEN CMin(room, InitialSize - wp)
                                  ELSE CMin(room, rp - wp - 1)
  BY <1>4 DEF WriteLimit
<1>6. CASE wp >= rp
  <2>1. InitialSize - wp \in Nat  BY <1>1
  <2>2. WriteLimit(n) \in Nat /\ WriteLimit(n) <= room /\ WriteLimit(n) <= InitialSize - wp
    BY <1>5, <1>6, <2>1 DEF CMin
  <2>. QED  BY <1>1, <1>2, <1>4, <2>2
<1>7. CASE wp < rp
  <2>1. rp - wp - 1 \in Nat /\ ~(wp >= rp)  BY <1>1, <1>7
  <2>2. WriteLimit(n) \in Nat /\ WriteLimit(n) <= room /\ WriteLimit(n) <= rp - wp - 1
    BY <1>5, <2>1 DEF CMin
  <2>. QED  BY <1>1, <1>2, <1>4, <2>2
<1>. QED  BY <1>6, <1>7
-----------------------------------------------------------------------------
(* The steps *)

Opened == {p \in Procs : pc[p] # "closed"}

\* The queue of the refinement as a window on the ring.
LEMMA QueueIs ==
  /\ Queue = IF allocsize = 0 \/ At("opening") THEN <<>>
             ELSE Window(buffersize, buffer, rp, wp)
  /\ Queue' = IF allocsize' = 0 \/ At("opening")' THEN <<>>
              ELSE Window(buffersize', buffer', rp', wp')
BY DEF Queue, At, Window, Turned, Wrapped

\* Each step of PipeFifo, of what the refinement makes its variables.
MapStep == [Fifo!Next]_Fifo!vars

LEMMA MapStill ==
  ASSUME Opened' = Opened, Queue' = Queue, got' = got
  PROVE  MapStep
BY DEF MapStep, Opened, Fifo!vars

LEMMA MapOpen ==
  ASSUME NEW p \in Procs, p \notin Opened, Opened' = Opened \cup {p}, Queue' = <<>>, got' = got
  PROVE  MapStep
<1>1. Fifo!Open(p)  BY DEF Fifo!Open, Opened
<1>. QED  BY <1>1 DEF MapStep, Fifo!Next

LEMMA MapClose ==
  ASSUME NEW p \in Procs, p \in Opened, Opened' = Opened \ {p}, got' = got,
         Queue' = IF Opened' = {} THEN <<>> ELSE Queue
  PROVE  MapStep
<1>1. Fifo!Close(p)  BY DEF Fifo!Close, Opened
<1>. QED  BY <1>1 DEF MapStep, Fifo!Next

LEMMA MapReturn ==
  ASSUME NEW p \in Procs, Opened' = Opened, Queue' = Queue, got' = [got EXCEPT ![p] = <<>>]
  PROVE  MapStep
<1>1. Fifo!Return(p)  BY DEF Fifo!Return, Opened
<1>. QED  BY <1>1 DEF MapStep, Fifo!Next

LEMMA MapPut ==
  ASSUME NEW p \in Procs, p \in Opened, Opened' = Opened, got' = got,
         NEW n \in 0..InitialSize - 1, NEW bytes \in [1..n -> Data],
         Len(Queue) \in Nat, Len(Queue) + n <= InitialSize - 1,
         Queue' = Queue \o bytes
  PROVE  MapStep
<1>1. bytes \in Fifo!Strings  BY DEF Fifo!Strings
<1>2. Len(bytes) = n  OBVIOUS
<1>3. Fifo!Put(p, bytes)  BY <1>2 DEF Fifo!Put, Opened
<1>. QED  BY <1>1, <1>3 DEF MapStep, Fifo!Next

LEMMA MapTake ==
  ASSUME NEW p \in Procs, p \in Opened, Opened' = Opened,
         NEW n \in 0..InitialSize - 1, n <= Len(Queue),
         got' = [got EXCEPT ![p] = SubSeq(Queue, 1, n)],
         Queue' = SubSeq(Queue, n + 1, Len(Queue))
  PROVE  MapStep
<1>1. Fifo!Take(p, n)  BY DEF Fifo!Take, Opened
<1>. QED  BY <1>1 DEF MapStep, Fifo!Next

\* Most steps move no pointer.
Plain == Locations \ {"closed", "opening", "rd_wrap", "wr_wrap"}

Still(p) ==
  /\ UNCHANGED <<ring, got>> /\ scull_p_buffer' \in {scull_p_buffer, InitialSize}
  /\ \/ UNCHANGED pc
     \/ pc[p] \in Plain /\ \E to \in Plain : pc' = [pc EXCEPT ![p] = to]

LEMMA StepKinds ==
  ASSUME OneSize, NEW p \in Procs, Acquire(p) \/ Kernel(p) \/ Environment(p)
  PROVE  \/ OpenBegin(p) \/ OpenEnd(p) \/ ReleaseEnd(p)
         \/ ReadCopy(p) \/ ReadWrap(p) \/ ReadWake(p)
         \/ WriteCopy(p) \/ WriteFault(p) \/ WriteWrap(p)
         \/ Still(p)
<1> USE DEF Still, Plain, Locations, Goto, Moves
<1>1. CASE Acquire(p)
  BY <1>1 DEF Acquire, ReadDown, WriteDown, PollScan
<1>2. CASE Kernel(p)
  <2>1. CASE ReadEmpty(p) BY <2>1 DEF ReadEmpty
  <2>2. CASE ReadFault(p) BY <2>2 DEF ReadFault
  <2>3. CASE ReadPrepare(p) \/ ReadLoad(p) \/ ReadCheck(p) \/ ReadAwake(p)
    BY <2>3 DEF ReadPrepare, ReadLoad, ReadCheck, ReadAwake
  <2>4. CASE WriteFull(p) \/ WriteWake(p) \/ WriteSigio(p)
    BY <2>4 DEF WriteFull, WriteWake, WriteSigio
  <2>5. CASE WritePrepare(p) \/ WriteLoad(p) \/ WriteCheck(p) \/ WriteAwake(p)
    BY <2>5 DEF WritePrepare, WriteLoad, WriteCheck, WriteAwake
  <2>6. CASE PollAwake(p) BY <2>6 DEF PollAwake
  <2> QED BY <1>2, <2>1, <2>2, <2>3, <2>4, <2>5, <2>6 DEF Kernel
<1>3. CASE Environment(p)
  <2>1. CASE ReleaseBegin(p) \/ ReadCall(p) \/ WriteCall(p) \/ PollCall(p)
    BY <2>1 DEF ReleaseBegin, ReadCall, WriteCall, PollCall
  <2>2. CASE Interrupted(p) BY <2>2 DEF Interrupted
  <2>3. CASE Fasync(p) \/ TakeSigio(p) BY <2>3 DEF Fasync, TakeSigio
  <2>4. CASE TuneSize(p) BY <2>4 DEF TuneSize, OneSize
  <2> QED BY <1>3, <2>1, <2>2, <2>3, <2>4 DEF Environment
<1> QED BY <1>1, <1>2, <1>3

LEMMA StillStep ==
  ASSUME PipeInv, NEW p \in Procs, Still(p)
  PROVE  RingInv' /\ MapStep
<1>1. pc \in [Procs -> Locations]  BY DEF PipeInv, FilesInv, LockInv, TypeInv, TypeOK
<1>2. /\ At("opening")' <=> At("opening")
      /\ At("rd_wrap")' <=> At("rd_wrap")
      /\ At("wr_wrap")' <=> At("wr_wrap")
      /\ Opened' = Opened
  BY <1>1 DEF Still, Plain, At, Opened
<1>3. UNCHANGED <<allocsize, buffer, buffersize, rp, wp, got>>  BY DEF Still, ring
<1>4. Queue' = Queue  BY <1>2, <1>3, QueueIs
<1>5. RingInv'  BY <1>2, <1>3 DEF PipeInv, RingInv, Still
<1>. QED  BY <1>2, <1>3, <1>4, <1>5, MapStill

\* An open empties the pipe in two steps, and the last close frees it.
LEMMA FileStep ==
  ASSUME PipeInv, FilesInv', NEW p \in Procs, OpenBegin(p) \/ OpenEnd(p) \/ ReleaseEnd(p)
  PROVE  RingInv' /\ MapStep
<1>1. pc \in [Procs -> Locations]  BY DEF PipeInv, FilesInv, LockInv, TypeInv, TypeOK
<1>2. InitialSize \in Nat \ {0, 1}  BY SizeNat
<1>3. CASE OpenBegin(p)
  <2>1. /\ pc[p] = "closed" /\ pc' = [pc EXCEPT ![p] = "opening"] /\ sem > 0
        /\ allocsize' = IF allocsize = 0 THEN scull_p_buffer ELSE allocsize
        /\ buffersize' = scull_p_buffer /\ wp' = 0
        /\ UNCHANGED <<rp, scull_p_buffer, got>>
    BY <1>3 DEF OpenBegin, Goto, Down
  <2>2. \A l \in {"rd_wrap", "wr_wrap"} : ~At(l)
    BY <2>1 DEF PipeInv, FilesInv, LockInv, MutualExclusion, InCritical, Critical, At
  <2>3. RingInv'  BY <1>2, <2>1, <2>2 DEF PipeInv, RingInv
  <2>4. p \notin Opened /\ Opened' = Opened \cup {p} /\ At("opening")'
    BY <1>1, <2>1 DEF Opened, At
  <2>5. Queue' = <<>>  BY <2>4, QueueIs
  <2>. QED  BY <2>1, <2>3, <2>4, <2>5, MapOpen
<1>4. CASE OpenEnd(p)
  <2>1. /\ pc[p] = "opening" /\ pc' = [pc EXCEPT ![p] = "idle"] /\ rp' = wp
        /\ UNCHANGED <<allocsize, buffersize, wp, scull_p_buffer, got>>
    BY <1>4 DEF OpenEnd, Goto
  <2>2. /\ \A q \in Procs \ {p} : pc[q] \notin Critical
        /\ allocsize = InitialSize /\ buffersize = InitialSize
        /\ wp # InitialSize
    BY <2>1, AloneInside DEF Critical
  <2>3. RingInv'  BY <1>2, <2>1, <2>2 DEF PipeInv, RingInv
  <2>4. Opened' = Opened /\ At("opening") /\ ~At("opening")'
    BY <1>1, <2>1, <2>2 DEF Opened, At, Critical
  <2>5. Queue = <<>>  BY <2>4, QueueIs
  <2>6. Queue' = <<>>
    <3>1. Queue' = Window(InitialSize, buffer', wp, wp)
      BY <1>2, <2>1, <2>2, <2>4, QueueIs
    <3>2. wp \in 0..InitialSize - 1  BY <2>2 DEF PipeInv, RingInv
    <3>3. Turned(InitialSize, wp) = wp  BY <2>2 DEF Turned
    <3>4. Window(InitialSize, buffer', wp, wp) = Content(InitialSize, buffer', wp, wp)
      BY <1>2, <3>2, <3>3, WindowIs
    <3>5. Filled(InitialSize, wp, wp) = 0  BY <1>2, <3>2 DEF Filled
    <3>. QED  BY <3>1, <3>4, <3>5 DEF Content
  <2>. QED  BY <2>1, <2>3, <2>4, <2>5, <2>6, MapStill
<1>5. CASE ReleaseEnd(p)
  <2>1. /\ pc[p] = "releasing" /\ pc' = [pc EXCEPT ![p] = "closed"] /\ sem > 0
        /\ \/ allocsize' = 0
           \/ UNCHANGED <<allocsize, buffer>>
        /\ UNCHANGED <<buffersize, rp, wp, scull_p_buffer, got>>
    BY <1>5 DEF ReleaseEnd, Goto
  <2>2. \A l \in {"rd_wrap", "wr_wrap", "opening"} : ~At(l)
    BY <2>1 DEF PipeInv, FilesInv, LockInv, MutualExclusion, InCritical, Critical, At
  <2>3. RingInv'  BY <1>2, <2>1, <2>2 DEF PipeInv, RingInv
  <2>4. p \in Opened /\ Opened' = Opened \ {p} /\ ~At("opening")'
    BY <1>1, <2>1, <2>2 DEF Opened, At
  <2>5. (allocsize' = 0 <=> Opened' = {}) /\ allocsize # 0
    BY <2>1 DEF FilesInv, CountsInv, PipeInv, Opened
  <2>6. Queue' = IF Opened' = {} THEN <<>> ELSE Queue
    BY <2>1, <2>2, <2>4, <2>5, QueueIs
  <2>. QED  BY <2>1, <2>3, <2>4, <2>6, MapClose
<1>. QED  BY <1>3, <1>4, <1>5

\* What an operation does to the queue while it has the lock.
LEMMA InsideStep ==
  ASSUME PipeInv, NEW p \in Procs, pc[p] \in Critical \ {"opening"},
         UNCHANGED <<allocsize, buffersize, scull_p_buffer>>,
         NEW to \in Locations \ {"closed", "opening"}, pc' = [pc EXCEPT ![p] = to]
  PROVE  /\ Opened' = Opened /\ p \in Opened
         /\ Queue = Window(InitialSize, buffer, rp, wp)
         /\ Queue' = Window(InitialSize, buffer', rp', wp')
         /\ allocsize = InitialSize /\ buffersize = InitialSize
         /\ rp \in 0..InitialSize /\ wp \in 0..InitialSize
         /\ rp = InitialSize => pc[p] = "rd_wrap"
         /\ wp = InitialSize => pc[p] = "wr_wrap"
         /\ buffer \in [0..InitialSize - 1 -> Data \cup {Junk}]
<1>1. pc \in [Procs -> Locations]  BY DEF PipeInv, FilesInv, LockInv, TypeInv, TypeOK
<1>2. /\ \A q \in Procs \ {p} : pc[q] \notin Critical
      /\ allocsize = InitialSize /\ buffersize = InitialSize
      /\ rp = InitialSize => pc[p] = "rd_wrap"
      /\ wp = InitialSize => pc[p] = "wr_wrap"
  BY AloneInside
<1>3. Opened' = Opened /\ p \in Opened  BY <1>1 DEF Opened, Critical
<1>4. ~At("opening") /\ ~At("opening")'  BY <1>1, <1>2 DEF At, Critical
<1>5. allocsize # 0 /\ allocsize' # 0  BY <1>2, SizeNat
<1>6. /\ Queue = Window(InitialSize, buffer, rp, wp)
      /\ Queue' = Window(InitialSize, buffer', rp', wp')
  BY <1>2, <1>4, <1>5, QueueIs
<1>7. rp \in 0..InitialSize /\ wp \in 0..InitialSize  BY DEF PipeInv, RingInv
<1>8. buffer \in [0..InitialSize - 1 -> Data \cup {Junk}]
  BY <1>2 DEF PipeInv, FilesInv, LockInv, TypeInv, TypeOK
<1>. QED  BY <1>2, <1>3, <1>6, <1>7, <1>8

\* A read of a byte, or of none, takes it off the front.
LEMMA ReadStep ==
  ASSUME PipeInv, SmallReads, NEW p \in Procs, ReadCopy(p)
  PROVE  RingInv' /\ MapStep
<1> DEFINE M == InitialSize
<1>1. M \in Nat \ {0, 1} /\ M \in Nat \ {0}  BY SizeNat
<1>2. /\ pc[p] = "rd_crit" /\ pc' = [pc EXCEPT ![p] = "rd_wrap"] /\ rp # wp
      /\ UNCHANGED <<buffer, allocsize, buffersize, wp, scull_p_buffer>>
  BY DEF ReadCopy, Goto
<1>3. /\ Opened' = Opened /\ p \in Opened
      /\ Queue = Window(M, buffer, rp, wp)
      /\ Queue' = Window(M, buffer, rp', wp)
      /\ allocsize = M /\ buffersize = M
      /\ rp \in 0..M - 1 /\ wp \in 0..M - 1
      /\ buffer \in [0..M - 1 -> Data \cup {Junk}]
  <2>1. pc[p] \in Critical \ {"opening"} /\ "rd_wrap" \in Locations \ {"closed", "opening"}
    BY <1>2 DEF Critical, Locations
  <2>2. /\ Opened' = Opened /\ p \in Opened
        /\ Queue = Window(M, buffer, rp, wp)
        /\ Queue' = Window(M, buffer', rp', wp')
        /\ allocsize = M /\ buffersize = M /\ rp \in 0..M /\ wp \in 0..M
        /\ rp = M => pc[p] = "rd_wrap"
        /\ wp = M => pc[p] = "wr_wrap"
        /\ buffer \in [0..M - 1 -> Data \cup {Junk}]
    BY <1>2, <2>1, InsideStep
  <2>3. \A x \in 0..M : x # M => x \in 0..M - 1  BY <1>1
  <2>4. rp # M /\ wp # M  BY <1>2, <2>2
  <2>. QED  BY <1>2, <2>2, <2>3, <2>4
<1>4. PICK k \in {0, 1} : rp' = rp + k /\ got' = [got EXCEPT ![p] = BytesAt(rp, k)]
  <2>1. PICK n \in ReadCounts :
          /\ got' = [got EXCEPT ![p] = BytesAt(rp, ReadLimit(n))]
          /\ rp' = rp + ReadLimit(n)
    BY DEF ReadCopy
  <2>2. ReadLimit(n) \in {0, 1}  BY <1>2, <1>3, ReadLimitIs
  <2>. QED  BY <2>1, <2>2
<1>5. At("rd_wrap")'
  BY <1>2 DEF At, PipeInv, FilesInv, LockInv, TypeInv, TypeOK
<1>6. RingInv'
  <2>1. rp' \in 0..M /\ wp' \in 0..M /\ wp' # M  BY <1>1, <1>2, <1>3, <1>4
  <2>. QED  BY <1>2, <1>3, <1>5, <2>1 DEF PipeInv, RingInv
<1>7. Turned(M, rp) = rp /\ Turned(M, wp) = wp  BY <1>1, <1>3 DEF Turned
<1>8. Queue = Content(M, buffer, rp, wp)
  <2>1. rp \in 0..M /\ wp \in 0..M  BY <1>1, <1>3
  <2>2. Window(M, buffer, rp, wp) = Content(M, buffer, Turned(M, rp), Turned(M, wp))
    BY <1>1, <2>1, WindowIs
  <2>. QED  BY <1>3, <1>7, <2>2
<1>9. Queue' = Content(M, buffer, Turned(M, rp'), wp)
  <2>1. PICK r \in 0..M : r = rp'  BY <1>1, <1>3, <1>4
  <2>2. wp \in 0..M  BY <1>1, <1>3
  <2>3. Window(M, buffer, r, wp) = Content(M, buffer, Turned(M, r), Turned(M, wp))
    BY <1>1, <2>2, WindowIs
  <2>. QED  BY <1>3, <1>7, <2>1, <2>3
<1>10. /\ Queue \in Seq(Data \cup {Junk}) /\ Len(Queue) \in 1..M - 1
  <2>1. Holds(M, buffer, rp, wp, Data \cup {Junk})  BY <1>1, <1>3, ContentSeq
  <2>2. Filled(M, rp, wp) \in 1..M - 1  BY <1>1, <1>2, <1>3 DEF Filled
  <2>. QED  BY <1>8, <2>1, <2>2 DEF Holds
<1>11. BytesAt(rp, k) = SubSeq(Queue, 1, k) /\ Queue' = SubSeq(Queue, k + 1, Len(Queue))
  <2>1. CASE k = 0
    <3>1. BytesAt(rp, 0) = <<>> /\ SubSeq(Queue, 1, 0) = <<>>  BY <1>10 DEF BytesAt
    <3>2. rp + k = rp /\ k + 1 = 1  BY <1>1, <1>3, <2>1
    <3>3. Queue' = Queue  BY <1>4, <1>7, <1>8, <1>9, <3>2
    <3>4. SubSeq(Queue, 1, Len(Queue)) = Queue  BY <1>10
    <3>. QED  BY <2>1, <3>1, <3>2, <3>3, <3>4
  <2>2. CASE k = 1
    <3>1. BytesAt(rp, 1) = <<buffer[rp]>>  BY <1>1, <1>3 DEF BytesAt
    <3>2. /\ Content(M, buffer, Turned(M, rp + 1), wp) =
               SubSeq(Content(M, buffer, rp, wp), 2, Len(Content(M, buffer, rp, wp)))
          /\ SubSeq(Content(M, buffer, rp, wp), 1, 1) = <<buffer[rp]>>
      BY <1>1, <1>2, <1>3, Taken
    <3>3. k + 1 = 2 /\ rp + k = rp + 1  BY <2>2
    <3>. QED  BY <1>4, <1>8, <1>9, <2>2, <3>1, <3>2, <3>3, Zenon
  <2>. QED  BY <2>1, <2>2
<1>12. k \in 0..M - 1 /\ k <= Len(Queue)  BY <1>1, <1>10
<1>13. got' = [got EXCEPT ![p] = SubSeq(Queue, 1, k)]  BY <1>4, <1>11
<1>14. MapStep  BY <1>3, <1>11, <1>12, <1>13, MapTake
<1>. QED  BY <1>6, <1>14

\* The bytes of a write are appended; those of one that fails are not there.
LEMMA WriteStep ==
  ASSUME PipeInv, NEW p \in Procs, WriteCopy(p) \/ WriteFault(p)
  PROVE  RingInv' /\ MapStep
<1> DEFINE M == InitialSize
<1>1. M \in Nat \ {0, 1} /\ M \in Nat \ {0}  BY SizeNat
<1>2. PICK to \in {"wr_wrap", "idle"} :
        /\ pc[p] = "wr_crit" /\ pc' = [pc EXCEPT ![p] = to]
        /\ UNCHANGED <<allocsize, buffersize, rp, scull_p_buffer, got>>
        /\ to = "idle" => UNCHANGED wp
        /\ \E n \in WriteCounts : \E bytes \in [1..WriteLimit(n) -> Data] :
             buffer' = Stored(wp, bytes)
             /\ (to = "wr_wrap" => wp' = wp + WriteLimit(n))
  BY DEF WriteCopy, WriteFault, Goto
<1>3. /\ Opened' = Opened /\ p \in Opened
      /\ Queue = Window(M, buffer, rp, wp)
      /\ Queue' = Window(M, buffer', rp, wp')
      /\ allocsize = M /\ buffersize = M
      /\ rp \in 0..M - 1 /\ wp \in 0..M - 1
      /\ buffer \in [0..M - 1 -> Data \cup {Junk}]
  <2>1. pc[p] \in Critical \ {"opening"} /\ to \in Locations \ {"closed", "opening"}
    BY <1>2 DEF Critical, Locations
  <2>2. /\ Opened' = Opened /\ p \in Opened
        /\ Queue = Window(M, buffer, rp, wp)
        /\ Queue' = Window(M, buffer', rp', wp')
        /\ allocsize = M /\ buffersize = M /\ rp \in 0..M /\ wp \in 0..M
        /\ rp = M => pc[p] = "rd_wrap"
        /\ wp = M => pc[p] = "wr_wrap"
        /\ buffer \in [0..M - 1 -> Data \cup {Junk}]
    BY <1>2, <2>1, InsideStep
  <2>3. \A x \in 0..M : x # M => x \in 0..M - 1  BY <1>1
  <2>4. rp # M /\ wp # M  BY <1>2, <2>2
  <2>. QED  BY <1>2, <2>2, <2>3, <2>4
<1>12. PICK k \in Nat : \E bytes \in [1..k -> Data] :
        /\ buffer' = Stored(wp, bytes) /\ (to = "wr_wrap" => wp' = wp + k)
        /\ wp + k <= M /\ Filled(M, rp, wp) + k <= M - 1
  <2>1. PICK n \in WriteCounts : \E bytes \in [1..WriteLimit(n) -> Data] :
             buffer' = Stored(wp, bytes)
             /\ (to = "wr_wrap" => wp' = wp + WriteLimit(n))
    BY <1>2
  <2>2. /\ WriteLimit(n) \in Nat /\ wp + WriteLimit(n) <= M
        /\ Filled(M, rp, wp) + WriteLimit(n) <= M - 1
    BY <1>3, WriteLimitIs
  <2>. QED  BY <2>1, <2>2
<1>4. PICK bytes \in [1..k -> Data] :
        /\ buffer' = Stored(wp, bytes) /\ (to = "wr_wrap" => wp' = wp + k)
        /\ wp + k <= M /\ Filled(M, rp, wp) + k <= M - 1
  BY <1>12
<1>5. RingInv'
  <2>1. rp' \in 0..M /\ wp' \in 0..M /\ rp' # M  BY <1>1, <1>2, <1>3, <1>4
  <2>2. to = "wr_wrap" => At("wr_wrap")'
    BY <1>2 DEF At, PipeInv, FilesInv, LockInv, TypeInv, TypeOK
  <2>3. to = "idle" => wp' # M  BY <1>1, <1>2, <1>3
  <2>. QED  BY <1>2, <1>3, <2>1, <2>2, <2>3 DEF PipeInv, RingInv
<1>6. Turned(M, rp) = rp /\ Turned(M, wp) = wp  BY <1>1, <1>3 DEF Turned
<1>7. Queue = Content(M, buffer, rp, wp)
  <2>1. rp \in 0..M /\ wp \in 0..M  BY <1>1, <1>3
  <2>2. Window(M, buffer, rp, wp) = Content(M, buffer, Turned(M, rp), Turned(M, wp))
    BY <1>1, <2>1, WindowIs
  <2>. QED  BY <1>3, <1>6, <2>2
<1>8. Queue' = Content(M, buffer', rp, Turned(M, wp'))
  <2>1. PICK w \in 0..M : w = wp'  BY <1>1, <1>2, <1>3, <1>4
  <2>2. rp \in 0..M  BY <1>1, <1>3
  <2>3. Window(M, buffer', rp, w) = Content(M, buffer', Turned(M, rp), Turned(M, w))
    BY <1>1, <2>2, WindowIs
  <2>. QED  BY <1>3, <1>6, <2>1, <2>3
<1>9. /\ Content(M, buffer', rp, wp) = Content(M, buffer, rp, wp)
      /\ Content(M, buffer', rp, Turned(M, wp + k)) = Content(M, buffer, rp, wp) \o bytes
  <2> DEFINE S == Data \cup {Junk}
  <2>1. bytes \in [1..k -> S] /\ Len(bytes) = k  OBVIOUS
  <2>2. \A i \in 0..M - 1 :
          buffer'[i] = IF wp <= i /\ i < wp + k THEN bytes[i - wp + 1] ELSE buffer[i]
    BY <1>3, <1>4, <2>1 DEF Stored
  <2>3. buffer' \in [0..M - 1 -> S]
    <3>1. wp \in Nat  BY <1>1, <1>3
    <3>2. Stored(wp, bytes) \in [0..allocsize - 1 -> S]
      BY <3>1, StoredType DEF PipeInv, FilesInv, LockInv, TypeInv
    <3>. QED  BY <1>3, <1>4, <3>2
  <2>4. PICK b \in [0..M - 1 -> S], c \in [0..M - 1 -> S], r \in 0..M - 1, w \in 0..M - 1 :
          b = buffer /\ c = buffer' /\ r = rp /\ w = wp
    BY <1>3, <2>3
  <2>5. Overlaid(M, S, b, c, w, k, bytes)  BY <2>1, <2>2, <2>4 DEF Overlaid
  <2>6. Filled(M, r, w) + k <= M - 1 /\ w + k <= M  BY <1>4, <2>4
  <2> HIDE DEF S
  <2>7. Appends(M, b, c, r, w, k, bytes)  BY <1>1, <2>5, <2>6, Appended
  <2>. QED  BY <2>4, <2>7 DEF Appends
<1>10. CASE to = "wr_wrap"
  <2>1. Queue' = Queue \o bytes  BY <1>4, <1>7, <1>8, <1>9, <1>10
  <2>2. Len(Queue) \in Nat /\ Len(Queue) + k <= M - 1 /\ k \in 0..M - 1
    <3>1. Holds(M, buffer, rp, wp, Data \cup {Junk})  BY <1>1, <1>3, ContentSeq
    <3>2. Len(Queue) = Filled(M, rp, wp)  BY <1>7, <3>1 DEF Holds
    <3>3. Filled(M, rp, wp) \in 0..M - 1  BY <1>1, <1>3, FilledRange
    <3>. QED  BY <1>1, <1>4, <3>2, <3>3
  <2>3. MapStep  BY <1>2, <1>3, <2>1, <2>2, MapPut
  <2>. QED  BY <1>5, <2>3
<1>11. CASE to = "idle"
  <2>1. Queue' = Queue  BY <1>2, <1>6, <1>7, <1>8, <1>9, <1>11
  <2>. QED  BY <1>2, <1>3, <1>5, <2>1, MapStill
<1>. QED  BY <1>10, <1>11

\* A pointer at the end is one at the beginning.
LEMMA WrapStep ==
  ASSUME PipeInv, NEW p \in Procs, ReadWrap(p) \/ WriteWrap(p)
  PROVE  RingInv' /\ MapStep
<1> DEFINE M == InitialSize
<1>1. M \in Nat \ {0, 1} /\ M \in Nat \ {0}  BY SizeNat
<1>2. PICK to \in {"rd_wake", "wr_wake"} :
        /\ pc[p] \in {"rd_wrap", "wr_wrap"} /\ pc' = [pc EXCEPT ![p] = to]
        /\ \/ pc[p] = "rd_wrap" /\ rp' = Wrapped(rp) /\ UNCHANGED wp
           \/ pc[p] = "wr_wrap" /\ wp' = Wrapped(wp) /\ UNCHANGED rp
        /\ UNCHANGED <<buffer, allocsize, buffersize, scull_p_buffer, got>>
  BY DEF ReadWrap, WriteWrap, Goto
<1>3. /\ Opened' = Opened /\ p \in Opened
      /\ Queue = Window(M, buffer, rp, wp)
      /\ Queue' = Window(M, buffer, rp', wp')
      /\ allocsize = M /\ buffersize = M
      /\ rp \in 0..M /\ wp \in 0..M
      /\ rp = M => pc[p] = "rd_wrap"
      /\ wp = M => pc[p] = "wr_wrap"
  <2>1. pc[p] \in Critical \ {"opening"} /\ to \in Locations \ {"closed", "opening"}
    BY <1>2 DEF Critical, Locations
  <2>. QED  BY <1>1, <1>2, <2>1, InsideStep
<1>4. /\ rp' \in 0..M - 1 /\ wp' \in 0..M - 1
      /\ Turned(M, rp') = Turned(M, rp) /\ Turned(M, wp') = Turned(M, wp)
  <2>1. Wrapped(rp) = Turned(M, rp) /\ Wrapped(wp) = Turned(M, wp)
    BY <1>3 DEF Wrapped, Turned
  <2>2. \A x \in 0..M : Turned(M, x) \in 0..M - 1 /\ Turned(M, Turned(M, x)) = Turned(M, x)
    BY <1>1 DEF Turned
  <2>3. \A x \in 0..M : x # M => x \in 0..M - 1  BY <1>1
  <2>4. CASE pc[p] = "rd_wrap"  BY <1>2, <1>3, <2>1, <2>2, <2>3, <2>4
  <2>5. CASE pc[p] = "wr_wrap"  BY <1>2, <1>3, <2>1, <2>2, <2>3, <2>5
  <2>. QED  BY <1>2, <2>4, <2>5
<1>5. RingInv'  BY <1>1, <1>2, <1>3, <1>4 DEF PipeInv, RingInv
<1>6. Queue' = Queue
  <2>1. PICK r \in 0..M, w \in 0..M : r = rp' /\ w = wp'  BY <1>1, <1>4
  <2>2. Window(M, buffer, r, w) = Content(M, buffer, Turned(M, r), Turned(M, w))
    BY <1>1, WindowIs
  <2>3. Window(M, buffer, rp, wp) = Content(M, buffer, Turned(M, rp), Turned(M, wp))
    BY <1>1, <1>3, WindowIs
  <2>. QED  BY <1>3, <1>4, <2>1, <2>2, <2>3
<1>. QED  BY <1>2, <1>3, <1>5, <1>6, MapStill

\* A read returns.
LEMMA WakeStep ==
  ASSUME PipeInv, NEW p \in Procs, ReadWake(p)
  PROVE  RingInv' /\ MapStep
<1>1. /\ pc[p] = "rd_wake" /\ pc' = [pc EXCEPT ![p] = "idle"]
      /\ UNCHANGED <<buffer, allocsize, buffersize, rp, wp, scull_p_buffer>>
      /\ got' = [got EXCEPT ![p] = <<>>]
  BY DEF ReadWake, Goto, ring
<1>2. /\ At("opening")' <=> At("opening")
      /\ At("rd_wrap")' <=> At("rd_wrap")
      /\ At("wr_wrap")' <=> At("wr_wrap")
      /\ Opened' = Opened
  BY <1>1 DEF At, Opened, PipeInv, FilesInv, LockInv, TypeInv, TypeOK
<1>3. Queue' = Queue  BY <1>1, <1>2, QueueIs
<1>4. RingInv'  BY <1>1, <1>2 DEF PipeInv, RingInv
<1>. QED  BY <1>1, <1>2, <1>3, <1>4, MapReturn

LEMMA PipeStep ==
  ASSUME OneSize, SmallReads, PipeInv, FilesInv', [Next]_vars
  PROVE  RingInv' /\ MapStep
<1>1. CASE Next
  <2> PICK p \in Procs : Acquire(p) \/ Kernel(p) \/ Environment(p)  BY <1>1 DEF Next
  <2>. QED  BY StepKinds, StillStep, FileStep, ReadStep, WriteStep, WrapStep, WakeStep
<1>2. CASE UNCHANGED vars
  <2>1. UNCHANGED <<allocsize, buffer, buffersize, rp, wp, got, pc, scull_p_buffer>>
    BY <1>2 DEF vars, ring
  <2>2. Queue' = Queue /\ Opened' = Opened  BY <2>1 DEF Queue, Opened, Wrapped
  <2>3. RingInv'  BY <2>1 DEF PipeInv, RingInv, At
  <2>. QED  BY <2>1, <2>2, <2>3, MapStill
<1>. QED  BY <1>1, <1>2

LEMMA RingInit ==
  ASSUME Init PROVE RingInv /\ Fifo!Init
<1>1. RingInv  BY SizeNat DEF Init, RingInv
<1>2. Queue = <<>>  BY QueueIs DEF Init
<1>. QED  BY <1>1, <1>2 DEF Init, Fifo!Init

LEMMA PipeHolds ==
  ASSUME OneSize, SmallReads PROVE Spec => []PipeInv /\ IsFifo
<1>1. Init => RingInv /\ Fifo!Init  BY RingInit
<1>2. PipeInv /\ FilesInv' /\ [Next]_vars => RingInv' /\ MapStep  BY PipeStep
<1>3. FilesInv /\ RingInv <=> PipeInv  BY DEF PipeInv
<1>. QED  BY <1>1, <1>2, <1>3, FilesHold, PTL DEF Spec, IsFifo, Fifo!Spec, MapStep

\* Outside the operations rp and wp point into the memory that was allocated,
\* of which buffersize is the size (line 26).
THEOREM PointersCorrect ==
  ASSUME OneSize, SmallReads PROVE Spec => []PointersInBuffer
<1>1. PipeInv => PointersInBuffer
  BY SizeNat DEF PipeInv, RingInv, PointersInBuffer, InCritical, Critical, At
<1>. QED  BY <1>1, PipeHolds, PTL

\* What is read is what was written, in order, none twice and none lost between
\* opens: scull_p_read, scull_p_write and spacefree implement PipeFifo.
THEOREM PipesAreFifos ==
  ASSUME OneSize, SmallReads PROVE Spec => IsFifo
BY PipeHolds, PTL
=============================================================================
