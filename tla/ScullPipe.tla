------------------------------ MODULE ScullPipe ------------------------------
(***************************************************************************)
(* One scullpipe device (src/scull/pipe.c) and the processes that open,    *)
(* read, write, poll and close it.  dev->sem serialises the bodies of the  *)
(* file operations; the wait conditions of sleeping readers and writers    *)
(* read rp and wp without it, one load at a time, and a reader and a       *)
(* writer wake the other side after they have released it.  Pointers into  *)
(* the buffer are offsets from dev->buffer, so that `end' is buffersize.   *)
(***************************************************************************)
EXTENDS Integers, Sequences, FiniteSets

CONSTANTS Readers, Writers,  \* processes whose f_mode has FMODE_READ, FMODE_WRITE
          NonBlocking,       \* those that opened the device with O_NONBLOCK
          Pollers,           \* those that call poll or select
          Asynchronous,      \* those that set FASYNC on the file
          Data,              \* the bytes a process may write
          Junk,              \* what kmalloc'd memory holds, and memory past it
          InitialSize,       \* scull_p_buffer when the module is loaded
          TuneSizes,         \* what SCULL_P_IOCTSIZE may set it to
          ReadCounts, WriteCounts  \* the `count' a caller asks for

Procs == Readers \cup Writers
Sizes == {InitialSize} \cup TuneSizes

ASSUME ProcsAssumption ==
  IsFiniteSet(Procs) /\ NonBlocking \cup Pollers \cup Asynchronous \subseteq Procs
ASSUME DataAssumption  == Junk \notin Data
\* A buffer of one byte is full when it is empty and one of none divides by zero.
ASSUME SizeAssumption  == Sizes \subseteq Nat \ {0, 1}
ASSUME CountAssumption == ReadCounts \subseteq Nat /\ WriteCounts \subseteq Nat

VARIABLES
  sem,             \* dev->sem: 1 free, 0 held
  buffer,          \* the memory at dev->buffer, a function on offsets
  allocsize,       \* the size kmalloc gave it; 0 while dev->buffer is NULL
  buffersize,      \* dev->buffersize, which is also the offset of dev->end
  rp, wp,          \* dev->rp, dev->wp
  nreaders, nwriters,
  inq, outq,       \* the processes a wake_up of each queue would wake
  async,           \* dev->async_queue: the files with FASYNC set
  sigio,           \* the processes SIGIO is pending for
  scull_p_buffer,  \* the size the next open uses
  pc,              \* where each process is
  seen,            \* the dev->rp a wait condition has loaded, before it loads wp
  got,             \* history: the bytes the current read has copied out
  stranded         \* history: those in outq when an open emptied the pipe

ring   == <<buffer, allocsize, buffersize, rp, wp>>
counts == <<nreaders, nwriters>>
queues == <<inq, outq, stranded>>
notify == <<async, sigio>>
vars   == <<sem, ring, counts, queues, notify, scull_p_buffer, pc, seen, got>>

Locations == {"closed", "opening", "idle", "releasing",
              "rd_down", "rd_crit", "rd_wrap", "rd_wake",
              "rd_prep", "rd_load", "rd_check", "rd_sleep",
              "wr_down", "wr_crit", "wr_wrap", "wr_wake", "wr_sigio",
              "wr_prep", "wr_load", "wr_check", "wr_sleep",
              "poll_down", "poll_sleep"}

\* Where a process is between down(&dev->sem) and up(&dev->sem).
Critical == {"opening", "rd_crit", "rd_wrap", "wr_crit", "wr_wrap"}

Init ==
  /\ sem = 1
  /\ buffer = [i \in {} |-> Junk] /\ allocsize = 0 /\ buffersize = 0
  /\ rp = 0 /\ wp = 0
  /\ nreaders = 0 /\ nwriters = 0
  /\ inq = {} /\ outq = {} /\ stranded = {}
  /\ async = {} /\ sigio = {}
  /\ scull_p_buffer = InitialSize
  /\ pc = [p \in Procs |-> "closed"]
  /\ seen = [p \in Procs |-> 0]
  /\ got = [p \in Procs |-> <<>>]
-----------------------------------------------------------------------------
(* The helpers of the file operations *)

Goto(p, from, to) == pc[p] = from /\ pc' = [pc EXCEPT ![p] = to]

\* A step that changes nothing but where p is and, perhaps, the lock.
Moves(p, from, to) ==
  /\ Goto(p, from, to)
  /\ UNCHANGED <<ring, counts, queues, notify, scull_p_buffer, seen, got>>

\* Mutation: the operation only waits for the lock, and does not take it.
DownNotTaken == sem > 0 /\ UNCHANGED sem

Down == sem > 0 /\ sem' = sem - 1
Up   == sem' = sem + 1

\* Mutation: the count goes up on release too.
CountedUp(n, mode, p, by) == IF p \in mode THEN n + 1 ELSE n

\* One file more, or fewer, in each of the modes p has.
Counted(n, mode, p, by) == IF p \in mode THEN n + by ELSE n

\* min(a, (size_t)b): a negative b is a huge unsigned number.
CMin(a, b) == IF b < 0 \/ a <= b THEN a ELSE b

\* Mutations: one position too late; always.
WrappedLate(x) == IF x > buffersize THEN 0 ELSE x
WrappedAlways(x) == x - buffersize

\* A pointer that reached the end goes back to the beginning.
Wrapped(x) == IF x = buffersize THEN 0 ELSE x

\* Mutation: no byte is kept free to tell full from empty.
SpaceFreeAll(r, w) == IF r = w THEN buffersize ELSE (r + buffersize - w) % buffersize

SpaceFree(r, w) ==
  IF r = w THEN buffersize - 1
           ELSE ((r + buffersize - w) % buffersize) - 1

ReadLimit(n) ==
  IF wp > rp THEN CMin(n, wp - rp) ELSE CMin(n, buffersize - wp)

WriteLimit(n) ==
  LET room == CMin(n, SpaceFree(rp, wp))
  IN  IF wp >= rp THEN CMin(room, buffersize - wp) ELSE CMin(room, rp - wp - 1)

BytesAt(at, n) ==
  [i \in 1..n |-> IF at + i - 1 < allocsize THEN buffer[at + i - 1] ELSE Junk]

Stored(at, bytes) ==
  [i \in 0..allocsize - 1 |->
     IF at <= i /\ i < at + Len(bytes) THEN bytes[i - at + 1] ELSE buffer[i]]

\* Mutations: nobody is woken; one writer is, as for an exclusive wait.
WakeNoReader == UNCHANGED queues
WakeNoWriter == UNCHANGED queues
WakeOneWriter ==
  /\ outq' = {p \in outq : p # CHOOSE q \in outq : TRUE}
  /\ stranded' = stranded \cap outq' /\ UNCHANGED inq

\* wake_up_interruptible wakes all that wait: no waiter is exclusive.
WakeReaders == inq' = {} /\ UNCHANGED <<outq, stranded>>
WakeWriters == outq' = {} /\ stranded' = {} /\ UNCHANGED inq

Enqueue(p, in, out) ==
  /\ inq' = IF in THEN inq \cup {p} ELSE inq
  /\ outq' = IF out THEN outq \cup {p} ELSE outq
  /\ stranded' = stranded \ {p}

\* finish_wait, and poll_freewait at the end of a poll.
Leave(p) ==
  /\ inq' = inq \ {p}
  /\ outq' = outq \ {p}
  /\ stranded' = stranded \ {p}
-----------------------------------------------------------------------------
(* open and release *)

\* A failed open (a signal, no memory) changes nothing.  The assignments of
\* wp and rp are two steps, because sleepers look at both without the lock.
OpenBegin(p) ==
  /\ Goto(p, "closed", "opening")
  /\ Down
  /\ IF allocsize = 0
       THEN /\ allocsize' = scull_p_buffer
            /\ buffer' = [i \in 0..scull_p_buffer - 1 |-> Junk]
       ELSE UNCHANGED <<allocsize, buffer>>
  /\ buffersize' = scull_p_buffer
  /\ wp' = 0
  /\ UNCHANGED <<rp, counts, queues, notify, scull_p_buffer, seen, got>>

OpenEnd(p) ==
  /\ Goto(p, "opening", "idle")
  /\ rp' = wp
  /\ nreaders' = Counted(nreaders, Readers, p, 1)
  /\ nwriters' = Counted(nwriters, Writers, p, 1)
  /\ Up
  /\ stranded' = outq
  /\ UNCHANGED <<buffer, allocsize, buffersize, wp, inq, outq, notify,
                 scull_p_buffer, seen, got>>

\* Mutation: release leaves the file on the asynchronous list.
ReleaseKeepsAsync(p) ==
  /\ Moves(p, "idle", "releasing")
  /\ UNCHANGED sem

\* scull_p_fasync(-1, filp, 0) comes before the lock is taken.
ReleaseBegin(p) ==
  /\ Goto(p, "idle", "releasing")
  /\ async' = async \ {p}
  /\ UNCHANGED <<sem, ring, counts, queues, sigio, scull_p_buffer, seen, got>>

\* down, the body and up in one step: no other process looks at what it writes.
ReleaseEnd(p) ==
  /\ Goto(p, "releasing", "closed")
  /\ sem > 0
  /\ nreaders' = Counted(nreaders, Readers, p, -1)
  /\ nwriters' = Counted(nwriters, Writers, p, -1)
  /\ IF nreaders' + nwriters' = 0
       THEN allocsize' = 0 /\ buffer' = [i \in {} |-> Junk]
       ELSE UNCHANGED <<allocsize, buffer>>
  /\ UNCHANGED <<sem, buffersize, rp, wp, queues, notify, scull_p_buffer, seen, got>>
-----------------------------------------------------------------------------
(* read *)

ReadCall(p) ==
  /\ p \in Readers
  /\ Moves(p, "idle", "rd_down")
  /\ UNCHANGED sem

ReadDown(p) ==
  /\ Moves(p, "rd_down", "rd_crit")
  /\ Down

\* Nothing to read: -EAGAIN, or to the wait queue.
ReadEmpty(p) ==
  /\ rp = wp
  /\ Moves(p, "rd_crit", IF p \in NonBlocking THEN "idle" ELSE "rd_prep")
  /\ Up

\* copy_to_user and rp += count; the wrap is a step of its own, because the
\* sleepers can see rp at the end.
ReadCopy(p) ==
  /\ rp # wp
  /\ Goto(p, "rd_crit", "rd_wrap")
  /\ \E n \in ReadCounts :
       /\ got' = [got EXCEPT ![p] = BytesAt(rp, ReadLimit(n))]
       /\ rp' = rp + ReadLimit(n)
  /\ UNCHANGED <<sem, buffer, allocsize, buffersize, wp, counts, queues, notify,
                 scull_p_buffer, seen>>

ReadFault(p) ==
  /\ rp # wp
  /\ Moves(p, "rd_crit", "idle")
  /\ Up

ReadWrap(p) ==
  /\ Goto(p, "rd_wrap", "rd_wake")
  /\ rp' = Wrapped(rp)
  /\ Up
  /\ UNCHANGED <<buffer, allocsize, buffersize, wp, counts, queues, notify,
                 scull_p_buffer, seen, got>>

\* The lock is free again when the writers are woken; then the read returns.
ReadWake(p) ==
  /\ Goto(p, "rd_wake", "idle")
  /\ WakeWriters
  /\ got' = [got EXCEPT ![p] = <<>>]
  /\ UNCHANGED <<sem, ring, counts, notify, scull_p_buffer, seen>>

\* wait_event_interruptible(dev->inq, dev->rp != dev->wp): join the queue,
\* load rp, load wp and compare, sleep.  The test before the loop of the macro
\* is a pass of the loop that does not sleep.
ReadPrepare(p) ==
  /\ Goto(p, "rd_prep", "rd_load")
  /\ Enqueue(p, TRUE, FALSE)
  /\ UNCHANGED <<sem, ring, counts, notify, scull_p_buffer, seen, got>>

ReadLoad(p) ==
  /\ Goto(p, "rd_load", "rd_check")
  /\ seen' = [seen EXCEPT ![p] = rp]
  /\ UNCHANGED <<sem, ring, counts, queues, notify, scull_p_buffer, got>>

\* Mutation: sleep without looking again.
ReadCheckNone(p) ==
  /\ Goto(p, "rd_check", "rd_sleep")
  /\ seen' = [seen EXCEPT ![p] = 0]
  /\ UNCHANGED <<sem, ring, counts, queues, notify, scull_p_buffer, got>>

ReadCheck(p) ==
  /\ seen' = [seen EXCEPT ![p] = 0]
  /\ IF seen[p] # wp
       THEN Goto(p, "rd_check", "rd_down") /\ Leave(p)
       ELSE Goto(p, "rd_check", "rd_sleep") /\ UNCHANGED queues
  /\ UNCHANGED <<sem, ring, counts, notify, scull_p_buffer, got>>

ReadAwake(p) ==
  /\ p \notin inq
  /\ Moves(p, "rd_sleep", "rd_prep")
  /\ UNCHANGED sem
-----------------------------------------------------------------------------
(* write *)

WriteCall(p) ==
  /\ p \in Writers
  /\ Moves(p, "idle", "wr_down")
  /\ UNCHANGED sem

WriteDown(p) ==
  /\ Moves(p, "wr_down", "wr_crit")
  /\ Down

\* scull_getwritespace sleeps whether or not the file has O_NONBLOCK.
WriteFull(p) ==
  /\ SpaceFree(rp, wp) = 0
  /\ Moves(p, "wr_crit", "wr_prep")
  /\ Up

WriteCopy(p) ==
  /\ SpaceFree(rp, wp) # 0
  /\ Goto(p, "wr_crit", "wr_wrap")
  /\ \E n \in WriteCounts : \E bytes \in [1..WriteLimit(n) -> Data] :
       buffer' = Stored(wp, bytes) /\ wp' = wp + WriteLimit(n)
  /\ UNCHANGED <<sem, allocsize, buffersize, rp, counts, queues, notify,
                 scull_p_buffer, seen, got>>

\* copy_from_user fails after it has copied some of the bytes.
WriteFault(p) ==
  /\ SpaceFree(rp, wp) # 0
  /\ Goto(p, "wr_crit", "idle")
  /\ \E n \in WriteCounts : \E bytes \in [1..WriteLimit(n) -> Data] :
       buffer' = Stored(wp, bytes)
  /\ Up
  /\ UNCHANGED <<allocsize, buffersize, rp, wp, counts, queues, notify,
                 scull_p_buffer, seen, got>>

WriteWrap(p) ==
  /\ Goto(p, "wr_wrap", "wr_wake")
  /\ wp' = Wrapped(wp)
  /\ Up
  /\ UNCHANGED <<buffer, allocsize, buffersize, rp, counts, queues, notify,
                 scull_p_buffer, seen, got>>

WriteWake(p) ==
  /\ Goto(p, "wr_wake", "wr_sigio")
  /\ WakeReaders
  /\ UNCHANGED <<sem, ring, counts, notify, scull_p_buffer, seen, got>>

\* kill_fasync sends SIGIO to the owner of every file in the list.
WriteSigio(p) ==
  /\ Goto(p, "wr_sigio", "idle")
  /\ sigio' = sigio \cup async
  /\ UNCHANGED <<sem, ring, counts, queues, async, scull_p_buffer, seen, got>>

\* scull_getwritespace: prepare_to_wait, load rp, load wp and compare, schedule.
WritePrepare(p) ==
  /\ Goto(p, "wr_prep", "wr_load")
  /\ Enqueue(p, FALSE, TRUE)
  /\ UNCHANGED <<sem, ring, counts, notify, scull_p_buffer, seen, got>>

WriteLoad(p) ==
  /\ Goto(p, "wr_load", "wr_check")
  /\ seen' = [seen EXCEPT ![p] = rp]
  /\ UNCHANGED <<sem, ring, counts, queues, notify, scull_p_buffer, got>>

WriteCheck(p) ==
  /\ seen' = [seen EXCEPT ![p] = 0]
  /\ IF SpaceFree(seen[p], wp) = 0
       THEN Goto(p, "wr_check", "wr_sleep") /\ UNCHANGED queues
       ELSE Goto(p, "wr_check", "wr_down") /\ Leave(p)
  /\ UNCHANGED <<sem, ring, counts, notify, scull_p_buffer, got>>

WriteAwake(p) ==
  /\ p \notin outq
  /\ Moves(p, "wr_sleep", "wr_down")
  /\ UNCHANGED sem
-----------------------------------------------------------------------------
(* poll, signals, asynchronous notification and the size of the buffer *)

PollCall(p) ==
  /\ p \in Pollers
  /\ Moves(p, "idle", "poll_down")
  /\ UNCHANGED sem

Readable == rp # wp
Writable == SpaceFree(rp, wp) # 0

Ready(p) == (p \in Readers /\ Readable) \/ (p \in Writers /\ Writable)

\* scull_p_poll, under the lock from end to end, joins both queues; the caller
\* (a poll for what p's mode allows) returns if p is ready, else sleeps.
PollScan(p) ==
  /\ sem > 0
  /\ IF Ready(p) THEN Goto(p, "poll_down", "idle") /\ Leave(p)
                 ELSE Goto(p, "poll_down", "poll_sleep") /\ Enqueue(p, TRUE, TRUE)
  /\ UNCHANGED <<sem, ring, counts, notify, scull_p_buffer, seen, got>>

PollAwake(p) ==
  /\ p \notin inq \cap outq
  /\ Moves(p, "poll_sleep", "poll_down")
  /\ UNCHANGED sem

\* -ERESTARTSYS from an interruptible wait, or a poll that is interrupted or
\* times out.
Interrupted(p) ==
  /\ pc[p] \in {"rd_down", "rd_sleep", "wr_down", "wr_sleep", "poll_sleep"}
  /\ pc' = [pc EXCEPT ![p] = "idle"]
  /\ Leave(p)
  /\ UNCHANGED <<sem, ring, counts, notify, scull_p_buffer, seen, got>>

\* fcntl(F_SETFL) sets or clears FASYNC.
Fasync(p) ==
  /\ p \in Asynchronous
  /\ pc[p] = "idle"
  /\ async' = IF p \in async THEN async \ {p} ELSE async \cup {p}
  /\ UNCHANGED <<sem, ring, counts, queues, sigio, scull_p_buffer, pc, seen, got>>

TakeSigio(p) ==
  /\ p \in sigio
  /\ sigio' = sigio \ {p}
  /\ UNCHANGED <<sem, ring, counts, queues, async, scull_p_buffer, pc, seen, got>>

\* ioctl(SCULL_P_IOCTSIZE): no lock, no capability, and no device in particular.
TuneSize(p) ==
  /\ pc[p] = "idle"
  /\ scull_p_buffer' \in TuneSizes
  /\ UNCHANGED <<sem, ring, counts, queues, notify, pc, seen, got>>
-----------------------------------------------------------------------------
\* What takes the lock.
Acquire(p) == ReadDown(p) \/ WriteDown(p) \/ PollScan(p) \/ ReleaseEnd(p)

\* What a process in the kernel does next when it has no lock to wait for.
Kernel(p) ==
  \/ OpenEnd(p)
  \/ ReadEmpty(p) \/ ReadCopy(p) \/ ReadFault(p) \/ ReadWrap(p) \/ ReadWake(p)
  \/ ReadPrepare(p) \/ ReadLoad(p) \/ ReadCheck(p) \/ ReadAwake(p)
  \/ WriteFull(p) \/ WriteCopy(p) \/ WriteFault(p) \/ WriteWrap(p) \/ WriteWake(p)
  \/ WriteSigio(p)
  \/ WritePrepare(p) \/ WriteLoad(p) \/ WriteCheck(p) \/ WriteAwake(p)
  \/ PollAwake(p)

\* What the programs and the rest of the kernel may do, or not.
Environment(p) ==
  \/ OpenBegin(p) \/ ReleaseBegin(p) \/ ReadCall(p) \/ WriteCall(p) \/ PollCall(p)
  \/ Interrupted(p) \/ Fasync(p) \/ TakeSigio(p) \/ TuneSize(p)

Next == \E p \in Procs : Acquire(p) \/ Kernel(p) \/ Environment(p)

Spec == Init /\ [][Next]_vars

\* A process in the kernel runs on, and the wait list of a semaphore starves
\* nobody.  Nothing is assumed of the programs, of signals or of the lock's
\* holders coming back.
Fairness == \A p \in Procs : WF_vars(Kernel(p)) /\ SF_vars(Acquire(p))
FairSpec == Spec /\ Fairness
-----------------------------------------------------------------------------
(* Properties *)

TypeOK ==
  /\ sem \in Nat
  /\ allocsize \in {0} \cup Sizes
  /\ buffer \in [0..allocsize - 1 -> Data \cup {Junk}]
  /\ buffersize \in {0} \cup Sizes
  /\ rp \in Nat /\ wp \in Nat
  /\ nreaders \in Int /\ nwriters \in Int
  /\ inq \subseteq Procs /\ outq \subseteq Procs /\ stranded \subseteq outq
  /\ async \subseteq Procs /\ sigio \subseteq Procs
  /\ scull_p_buffer \in Sizes
  /\ pc \in [Procs -> Locations]
  /\ seen \in [Procs -> Nat]
  /\ got \in [Procs -> Seq(Data \cup {Junk})]

Holders == {p \in Procs : pc[p] \notin {"closed", "opening"}}
InCritical == {p \in Procs : pc[p] \in Critical}

\* dev->sem is held exactly while one process is in the body of an operation,
\* on every path: the returns of pipe.c give it back once and only once.
MutualExclusion ==
  /\ sem = IF InCritical = {} THEN 1 ELSE 0
  /\ \A p, q \in InCritical : p = q

\* The counts are those of the open files, so that the last close, and no
\* earlier one, frees the buffer (lines 72-75 and 89-96).
OpenCounts ==
  sem = 1 => /\ nreaders = Cardinality(Holders \cap Readers)
             /\ nwriters = Cardinality(Holders \cap Writers)
             /\ allocsize = 0 <=> Holders = {}

\* rp and wp point into the memory that was allocated, at most one past it in
\* the middle of an update, and `end' is its tail (line 26).
PointersInBuffer ==
  allocsize # 0 /\ InCritical = {} =>
    /\ rp \in 0..allocsize - 1
    /\ wp \in 0..allocsize - 1
    /\ buffersize = allocsize

\* Lines 125-126 return only bytes between the read pointer and the end of the
\* buffer, so that rp never passes the end.
ReadStopsAtEnd == rp <= buffersize

\* A reader does not sleep through a write: whoever waits on inq while there is
\* data and the lock is free has a writer on its way to wake it.
ReaderWakeup ==
  sem = 1 /\ Readable =>
    \A p \in inq : pc[p] = "rd_sleep" => \E q \in Procs : pc[q] = "wr_wake"

\* A writer does not sleep through a read: whoever waits on outq while there is
\* space and the lock is free has a reader on its way to wake it, or slept
\* already when an open emptied the pipe, which wakes nobody (line 69).
WriterWakeup ==
  sem = 1 /\ Writable =>
    \A p \in outq \ stranded :
      pc[p] = "wr_sleep" => \E q \in Procs : pc[q] = "rd_wake"

\* The same for a poll, which waits on both queues for what its mode allows.
PollerWakeup ==
  sem = 1 =>
    \A p \in inq \cap outq : pc[p] = "poll_sleep" =>
      /\ p \in Readers /\ Readable => \E q \in Procs : pc[q] = "wr_wake"
      /\ p \in Writers \ stranded /\ Writable => \E q \in Procs : pc[q] = "rd_wake"

\* Whoever sleeps in a read, a write or a poll is not forgotten.
NoLostWakeup == ReaderWakeup /\ WriterWakeup /\ PollerWakeup

\* What makes the three hold: whoever sleeps on a queue, or is about to on what
\* it has loaded, lacks what it waits for, or a wake_up is certain to come.
At(l) == \E q \in Procs : pc[q] = l
WriteInFlight == At("wr_wrap") \/ At("wr_wake") \/ At("opening")
ReadInFlight  == At("rd_wrap") \/ At("rd_wake") \/ At("opening")

ReaderLacksData ==
  \A p \in inq :
    \/ pc[p] = "rd_sleep"
    \/ pc[p] = "rd_check" /\ seen[p] = wp
    \/ pc[p] = "poll_sleep" /\ p \in Readers /\ p \in outq
    => ~Readable \/ WriteInFlight

WriterLacksSpace ==
  \A p \in outq \ stranded :
    /\ \/ pc[p] = "wr_sleep"
       \/ pc[p] = "poll_sleep" /\ p \in Writers /\ p \in inq
       => ~Writable \/ ReadInFlight
    /\ pc[p] = "wr_check" => seen[p] = rp \/ ReadInFlight

\* At every moment, also inside the operations, whoever sleeps in a queue lacks
\* what he waits for or is about to be woken: the inductive invariant behind the
\* three wakeups above.
SleepersServed ==
  /\ ReaderLacksData /\ WriterLacksSpace
  /\ buffersize # 0 /\ wp = buffersize => At("wr_wrap")

\* The comment of line 86: release takes the file off the asynchronous list, so
\* that no SIGIO is sent for a file that is being closed.
AsyncFilesOpen == \A p \in async : pc[p] \notin {"closed", "opening", "releasing"}

\* The files that are open, and they only, are counted and sent SIGIO.
FilesAccounted == OpenCounts /\ AsyncFilesOpen

\* The bytes between rp and wp, around the end of the buffer, oldest first.
Queue ==
  IF allocsize = 0 \/ \E p \in Procs : pc[p] = "opening" THEN <<>>
  ELSE [i \in 1..(Wrapped(wp) - Wrapped(rp)) % buffersize |->
          buffer[(rp + i - 1) % buffersize]]

Fifo == INSTANCE PipeFifo WITH
          Byte <- Data, Capacity <- InitialSize - 1,
          holders <- {p \in Procs : pc[p] # "closed"}, queue <- Queue

\* The device is a bounded first-in first-out queue of bytes: what is read is
\* what was written, in order, none twice and none lost between opens.
IsFifo == Fifo!Spec

\* A reader asleep while there is data, and a writer asleep while there is
\* space, do not sleep forever unless the data, the space, goes away.
ReaderNotForgotten ==
  \A p \in Procs : (pc[p] = "rd_sleep" /\ Readable) ~> (pc[p] # "rd_sleep" \/ ~Readable)

WriterNotForgotten ==
  \A p \in Procs : (pc[p] = "wr_sleep" /\ Writable /\ p \notin stranded)
                      ~> (pc[p] # "wr_sleep" \/ ~Writable \/ p \in stranded)

\* Every wait of a read or a write ends once its condition has come to stay.
SleepersWoken == ReaderNotForgotten /\ WriterNotForgotten
=============================================================================
