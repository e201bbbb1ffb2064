-------------------------------- MODULE Sbull --------------------------------
(***************************************************************************)
(* One disk of src/sbull/sbull.c: a ram disk whose medium counts as        *)
(* changed when nobody has had it open for a while.  Processes open and    *)
(* release it and submit bios; the request function of the queue modes     *)
(* runs under dev->lock, sbull_make_request in the process that submits.   *)
(* What the block layer does is modelled as far as the driver relies on    *)
(* it: bd_sem around open and release, the queue, the ends of requests.    *)
(***************************************************************************)
EXTENDS Integers, Sequences, SequencesExt

CONSTANTS Procs,
          NSectors, \* dev->size, in sectors of KERNEL_SECTOR_SIZE
          Byte,     \* what a sector holds; 0 is what vmalloc'd memory is set to
          Shapes,   \* the lengths of a bio's segments, in sectors
          Modes,    \* the values of request_mode
          Serial,   \* whether bd_sem serialises open and release
          NULL

ASSUME ProcsAssumption == NULL \notin Procs /\ "queue" \notin Procs
ASSUME SectorsAssumption == NSectors \in Nat \ {0} /\ 0 \in Byte
ASSUME ShapesAssumption == \A s \in Shapes : s # <<>> /\ s \in Seq(Nat \ {0})
ASSUME ModesAssumption == Modes \subseteq {"simple", "full", "noqueue"}

VARIABLES
  mode,          \* request_mode
  lock,          \* who holds dev->lock: the request function, or NULL
  bd_sem,        \* who holds the semaphore of the block_device, or NULL
  users,
  media_change,
  timer,         \* whether dev->timer is pending
  handler,       \* whether sbull_invalidate has been called and not returned
  data,
  pc,
  bio,           \* the bio of each process, or NULL
  at,            \* <<segments, sectors of the next segment>> it has moved
  buffer,        \* the memory of the bio, one entry for each sector
  queue          \* the requests, each a sequence of the owners of its bios

disk  == <<users, media_change, timer, handler, data>>
io    == <<bio, at, buffer, queue>>
vars  == <<mode, lock, bd_sem, disk, pc, io>>

Locations == {"closed", "opening", "synced", "idle", "waiting", "xfer", "done",
              "closing"}

Blank == [s \in 0..NSectors - 1 |-> 0]

Init ==
  /\ mode \in Modes
  /\ lock = NULL /\ bd_sem = NULL
  /\ users = 0 /\ media_change = FALSE
  /\ timer = FALSE /\ handler = FALSE
  /\ data = Blank
  /\ pc = [p \in Procs |-> "closed"]
  /\ bio = [p \in Procs |-> NULL] /\ at = [p \in Procs |-> <<0, 0>>]
  /\ buffer = [p \in Procs |-> <<>>]
  /\ queue = <<>>

Goto(p, from, to) == pc[p] = from /\ pc' = [pc EXCEPT ![p] = to]

Down(p) == IF Serial THEN bd_sem = NULL /\ bd_sem' = p ELSE UNCHANGED bd_sem
Up == bd_sem' = NULL
-----------------------------------------------------------------------------
(* sbull_open and sbull_release, and the timer between them *)

OpenBegin(p) ==
  /\ Goto(p, "closed", "opening")
  /\ Down(p)
  /\ UNCHANGED <<mode, lock, disk, io>>

\* Mutation: del_timer, which does not wait for the handler.
DelTimer(p) ==
  /\ Goto(p, "opening", "synced")
  /\ timer' = FALSE
  /\ UNCHANGED <<mode, lock, bd_sem, users, media_change, handler, data, io>>

DelTimerSync(p) ==
  /\ Goto(p, "opening", "synced")
  /\ ~handler
  /\ timer' = FALSE
  /\ UNCHANGED <<mode, lock, bd_sem, users, media_change, handler, data, io>>

\* Mutation: the change is not noted as seen.
RevalidateAgain ==
  /\ data' = IF media_change THEN Blank ELSE data
  /\ UNCHANGED media_change

\* check_disk_change, which asks sbull_media_changed and calls
\* sbull_revalidate if it says so; the latter asks again.
CheckDiskChange ==
  /\ data' = IF media_change THEN Blank ELSE data
  /\ media_change' = FALSE

\* Under dev->lock.
Open(p) ==
  /\ Goto(p, "synced", "idle")
  /\ lock = NULL
  /\ IF users = 0 THEN CheckDiskChange ELSE UNCHANGED <<data, media_change>>
  /\ users' = users + 1
  /\ Up
  /\ UNCHANGED <<mode, lock, timer, handler, io>>

ReleaseBegin(p) ==
  /\ Goto(p, "idle", "closing")
  /\ Down(p)
  /\ UNCHANGED <<mode, lock, disk, io>>

\* Under dev->lock.
Release(p) ==
  /\ Goto(p, "closing", "closed")
  /\ lock = NULL
  /\ users' = users - 1
  /\ timer' = (timer \/ users' = 0)
  /\ Up
  /\ UNCHANGED <<mode, lock, media_change, handler, data, io>>

\* The delay is over, and the handler goes for the lock.
Expire ==
  /\ timer /\ ~handler
  /\ timer' = FALSE /\ handler' = TRUE
  /\ UNCHANGED <<mode, lock, bd_sem, users, media_change, data, pc, io>>

\* sbull_invalidate, with the "timer sanity check".
Invalidate ==
  /\ handler /\ lock = NULL
  /\ handler' = FALSE
  /\ media_change' = (media_change \/ users = 0)
  /\ UNCHANGED <<mode, lock, bd_sem, users, timer, data, pc, io>>
-----------------------------------------------------------------------------
(* Transfers *)

SumOf(lengths) == FoldLeft(LAMBDA a, b : a + b, 0, lengths)
Count(b) == SumOf(b.segs)

\* Where segment i, counted from 0, has its memory.
Offset(b, i) == SumOf(SubSeq(b.segs, 1, i))

\* sbull_transfer: n sectors from sector on, and the memory from entry m on.
\* What is beyond the disk is not moved.
Transfer(p, sector, m, n) ==
  IF sector + n > NSectors
  THEN UNCHANGED <<data, buffer>>
  ELSE IF bio[p].op = "write"
       THEN /\ data' = [s \in DOMAIN data |->
                          IF sector <= s /\ s < sector + n
                          THEN buffer[p][m + s - sector] ELSE data[s]]
            /\ UNCHANGED buffer
       ELSE /\ buffer' = [buffer EXCEPT ![p] =
                 [j \in DOMAIN @ |-> IF m <= j /\ j < m + n
                                     THEN data[sector + j - m] ELSE @[j]]]
            /\ UNCHANGED data

\* bio_cur_sectors(bio): the length of the segment the bio stands at, the first
\* one all through sbull_xfer_bio.  A longer one is cut to the memory there is.
CurSectors(b) == b.segs[1]
SegmentSectors(b, i) ==
  IF CurSectors(b) < b.segs[i + 1] THEN CurSectors(b) ELSE b.segs[i + 1]

\* Mutation: sbull_xfer_bio does not advance the sector.
SameSector(b, i) == b.first

\* The sector at which sbull_xfer_bio finds segment i.
SegmentSector(b, i) == b.first + i * CurSectors(b)

Bios == {b \in [op : {"read", "write"}, first : 0..NSectors - 1, segs : Shapes]
                 \cup [op : {"special"}, first : {0}, segs : {<<1>>}] :
           b.first + Count(b) <= NSectors}

\* The elevator puts a bio into the queue, or at the end of a request that it
\* continues (__make_request).
Enqueue(p, b) ==
  \/ \E i \in 1..Len(queue) + 1 : queue' = InsertAt(queue, i, <<p>>)
  \/ \E i \in 1..Len(queue) :
       LET last == bio[Last(queue[i])] IN
       /\ last.op = b.op /\ b.op # "special"
       /\ last.first + Count(last) = b.first
       /\ queue' = [queue EXCEPT ![i] = Append(@, p)]

\* A process that has the disk open moves sectors.  The block layer takes no
\* request but a file system's without a queue.
Submit(p) ==
  \E b \in Bios : \E v \in Byte :
    /\ bio' = [bio EXCEPT ![p] = b]
    /\ at' = [at EXCEPT ![p] = <<0, 0>>]
    /\ buffer' = [buffer EXCEPT ![p] = [i \in 1..Count(b) |-> v]]
    /\ IF mode = "noqueue"
       THEN /\ b.op # "special"
            /\ Goto(p, "idle", "xfer") /\ UNCHANGED queue
       ELSE /\ lock = NULL
            /\ Goto(p, "idle", "waiting") /\ Enqueue(p, b)
    /\ UNCHANGED <<mode, lock, bd_sem, disk>>

Return(p) ==
  /\ Goto(p, "done", "idle")
  /\ bio' = [bio EXCEPT ![p] = NULL]
  /\ at' = [at EXCEPT ![p] = <<0, 0>>]
  /\ buffer' = [buffer EXCEPT ![p] = <<>>]
  /\ UNCHANGED <<mode, lock, bd_sem, disk, queue>>

\* sbull_make_request, a sector at a time, since nothing excludes the others.
MakeRequest(p) ==
  LET b == bio[p]  i == at[p][1]  k == at[p][2] IN
  /\ pc[p] = "xfer"
  /\ i < Len(b.segs)
  /\ Transfer(p, SegmentSector(b, i) + k, Offset(b, i) + k + 1, 1)
  /\ at' = [at EXCEPT ![p] =
              IF k + 1 < SegmentSectors(b, i) THEN <<i, k + 1>> ELSE <<i + 1, 0>>]
  /\ UNCHANGED <<mode, lock, bd_sem, users, media_change, timer, handler, pc,
                 bio, queue>>

BioEndio(p) ==
  /\ Goto(p, "xfer", "done")
  /\ at[p][1] = Len(bio[p].segs)
  /\ UNCHANGED <<mode, lock, bd_sem, disk, io>>
-----------------------------------------------------------------------------
(* The request function, which the queue calls with dev->lock held *)

Unplug ==
  /\ lock = NULL /\ queue # <<>>
  /\ lock' = "queue"
  /\ UNCHANGED <<mode, bd_sem, disk, pc, io>>

\* elv_next_request returns NULL.
QueueEmpty ==
  /\ lock = "queue" /\ queue = <<>>
  /\ lock' = NULL
  /\ UNCHANGED <<mode, bd_sem, disk, pc, io>>

\* The first k bios of the first request are over.
Completed(k) ==
  LET head == queue[1] IN
  /\ pc' = [p \in Procs |-> IF \E i \in 1..k : head[i] = p THEN "done" ELSE pc[p]]
  /\ queue' = IF k = Len(head) THEN Tail(queue)
              ELSE [queue EXCEPT ![1] = SubSeq(head, k + 1, Len(head))]

\* end_request(req, 0) of a request that is none of a file system.
Skip ==
  /\ lock = "queue" /\ queue # <<>>
  /\ bio[queue[1][1]].op = "special"
  /\ Completed(1)
  /\ UNCHANGED <<mode, lock, bd_sem, disk, bio, at, buffer>>

\* sbull_request: current_nr_sectors of the request, and end_request.
Simple ==
  /\ mode = "simple" /\ lock = "queue" /\ queue # <<>>
  /\ LET p == queue[1][1]  b == bio[p]  i == at[p][1] IN
     /\ b.op # "special"
     /\ Transfer(p, b.first + Offset(b, i), Offset(b, i) + 1, b.segs[i + 1])
     /\ at' = [at EXCEPT ![p] = <<i + 1, 0>>]
     /\ IF i + 1 = Len(b.segs) THEN Completed(1) ELSE UNCHANGED <<pc, queue>>
  /\ UNCHANGED <<mode, lock, bd_sem, users, media_change, timer, handler, bio>>

\* sbull_xfer_request: the next segment.
XferRequest ==
  /\ mode = "full" /\ lock = "queue" /\ queue # <<>>
  /\ \E j \in 1..Len(queue[1]) :
       LET p == queue[1][j]  b == bio[p]  i == at[p][1] IN
       /\ b.op # "special" /\ i < Len(b.segs)
       /\ \A l \in 1..j - 1 :
            at[queue[1][l]][1] = Len(bio[queue[1][l]].segs)
       /\ Transfer(p, SegmentSector(b, i), Offset(b, i) + 1, SegmentSectors(b, i))
       /\ at' = [at EXCEPT ![p] = <<i + 1, 0>>]
  /\ UNCHANGED <<mode, lock, bd_sem, users, media_change, timer, handler, pc,
                 bio, queue>>

\* Mutation: bi_size is taken for a number of sectors that is too small.
NoSectors == 0

\* What sbull_xfer_request adds up.
SectorsXferred == SumOf([j \in DOMAIN queue[1] |-> Count(bio[queue[1][j]])])

\* end_that_request_first ends the bios that so many sectors fill.
FullEnd ==
  /\ mode = "full" /\ lock = "queue" /\ queue # <<>>
  /\ bio[queue[1][1]].op # "special"
  /\ \A j \in 1..Len(queue[1]) :
       at[queue[1][j]][1] = Len(bio[queue[1][j]].segs)
  /\ LET counts == [j \in DOMAIN queue[1] |-> Count(bio[queue[1][j]])]
         fits   == {k \in 0..Len(counts) :
                      SumOf(SubSeq(counts, 1, k)) <= SectorsXferred}
     IN Completed(CHOOSE k \in fits : \A l \in fits : l <= k)
  /\ UNCHANGED <<mode, lock, bd_sem, disk, bio, at, buffer>>

RequestFn == QueueEmpty \/ Skip \/ Simple \/ XferRequest \/ FullEnd
-----------------------------------------------------------------------------
Proceed(p) == DelTimerSync(p) \/ MakeRequest(p) \/ BioEndio(p) \/ Return(p)
Locked(p)  == Open(p) \/ Release(p)

Next ==
  \/ \E p \in Procs : \/ OpenBegin(p) \/ ReleaseBegin(p) \/ Submit(p)
                      \/ Proceed(p) \/ Locked(p)
  \/ Expire \/ Invalidate
  \/ Unplug \/ RequestFn
Spec == Init /\ [][Next]_vars

\* A process in the kernel runs on, a handler that was called and a queue that
\* holds requests get the lock in the end; nobody has to call or to be silent
\* until the timer expires.
Fairness ==
  /\ \A p \in Procs : WF_vars(Proceed(p)) /\ SF_vars(Locked(p))
  /\ SF_vars(Invalidate) /\ SF_vars(Unplug) /\ WF_vars(RequestFn)
FairSpec == Spec /\ Fairness
-----------------------------------------------------------------------------
(* Properties *)

Opened == {p \in Procs : pc[p] \in {"idle", "waiting", "xfer", "done", "closing"}}

TypeOK ==
  /\ mode \in Modes /\ lock \in {NULL, "queue"} /\ bd_sem \in Procs \cup {NULL}
  /\ users \in Nat
  /\ media_change \in BOOLEAN /\ timer \in BOOLEAN /\ handler \in BOOLEAN
  /\ data \in [0..NSectors - 1 -> Byte]
  /\ pc \in [Procs -> Locations]
  /\ bio \in [Procs -> Bios \cup {NULL}] /\ at \in [Procs -> Nat \X Nat]
  /\ buffer \in [Procs -> Seq(Byte)]
  /\ queue \in Seq(Seq(Procs))

\* While anybody has the disk open the timer neither is pending nor runs its
\* handler, so that a release never adds a pending timer and the sanity check
\* of sbull_invalidate (line 216) never fails; and no open leaves a change of
\* the medium behind for the next one.
MediumAtRest == TypeOK /\ (users > 0 => ~timer /\ ~handler /\ ~media_change)

\* The disk is an array of sectors that loses its content only at the first
\* open after a change of the medium, and every request moves its sectors once.
Requests == {[op |-> b.op, first |-> b.first, count |-> Count(b)] : b \in Bios}
ASSUME NullAssumption == NULL \notin Requests
Pending == {p \in Procs : pc[p] \in {"waiting", "xfer"}}
Ahead(p) ==
  IF p \notin Pending \/ bio[p].op = "special" THEN {}
  ELSE bio[p].first + Offset(bio[p], at[p][1]) + at[p][2]
         .. bio[p].first + Count(bio[p]) - 1
Disk == INSTANCE SectorDisk WITH
  Blank <- 0, Sectors <- NSectors, None <- NULL,
  disk <- data, opened <- Opened, changed <- media_change,
  request <- [p \in Procs |->
                IF p \in Pending
                THEN [op |-> bio[p].op, first |-> bio[p].first, count |-> Count(bio[p])]
                ELSE NULL],
  todo <- [p \in Procs |-> Ahead(p)]
IsSectorDisk == Disk!Spec

\* Every open, release and request ends: the open that waits for the handler
\* does not hold the lock the handler wants, and the request function makes
\* progress with what it has transferred.
CallsEnd ==
  \A p \in Procs :
    pc[p] \notin {"closed", "idle"} ~> pc[p] \in {"closed", "idle"}
=============================================================================
