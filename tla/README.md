# A verification of the drivers in LinuxDeviceDriver

The repository holds a set of Linux 2.6 device drivers, written along *Linux
Device Drivers*.  Each is small and sequential to look at, and each runs under
processes, interrupts, timers and tasklets which interleave.  These modules
model the drivers' concurrency and protocols, check them with TLC on small
instances, and prove every safety property of the runs, those of loading and
unloading and the refinements included, with TLAPS.

Contents: 1 inventory, 2 the modules, 3 the runs, 4 bounds, 5 fairness, 6 what
is proved, 7 what the checks found, 8 what is not modelled, 9 plan.

## 1. Inventory

| Component | State | Operations | Driven by | Hard parts | What makes it correct |
|---|---|---|---|---|---|
| `scull/pipe.c` | circular buffer, `rp`, `wp`, counts, two wait queues, `async_queue`, `sem`, the tunable `scull_p_buffer` | open, release, read, write, poll, fasync, `SCULL_P_IOCTSIZE` | processes, signals | wait conditions read without the lock; both pointers wrap; three error paths per call | FIFO of bytes; lock given back once; nobody sleeps through a wake-up; counts equal open files |
| `scull/access.c` | an atomic counter, two counts with an owner each, a wait queue, a list of devices | open and release of four nodes | processes of several users and terminals | races of opens; a sleeping open; `kmalloc` under a spinlock | one opener, one owner, one device per terminal; no sleeper forgotten |
| `scull/main.c` | list of arrays of quanta, `size`, `quantum`, `qset`, `sem`, tunables | open (truncates), read, write, llseek, ioctl | processes | tunables read outside the lock; truncation under open files; positions beyond the size | an array of bytes with a size; no access outside a quantum or to freed memory |
| `sculld/main.c` | as scull, in pages; `order` | as scull; the device is its own first list item | processes | orders of the list items | as scull |
| `lddbus/lddbus.c` | a bus type and a bus device | init, exit, registration of drivers and devices | `sculld` | init that fails half-way | what is registered is unregistered, once |
| module init and exit (scull, lddbus, sculld, sbull, snull, tty, usb) | regions, cdevs, memory, devices on the bus, disks | `insmod`, `rmmod` | loader, processes that open early | a device is open while init still runs; gotos | only what was had is released; nothing stays |
| `snull/snull.c` | per interface: packet pool, receive queue, status word, interrupt flag, skb; queue state in the network core | transmit, two interrupt handlers, poll, timeout, open, stop, cleanup | processes, softirqs, watchdog, `rmmod` | the sender runs the receiver's interrupt; unlocked status word; poll that ends while a packet comes | packets conserved, skb freed once, packets attended to, transmission never fails, queue woken, unload clean |
| `usb/usb-skeleton.c` | `struct usb_skel` with a kref, `intfdata`, the minor, buffers of urbs | probe, disconnect, open, release, read, write, urb completion | usb core, processes | unplugged under open files; open against disconnect; error path of write | freed exactly when unused; no buffer leaks; a read returns its own data |
| `tty/tiny_tty.c` | `tiny_table`, `open_count`, `sem`, a timer, modem lines | open, close, write, write_room, timer, tiocmset/get, three ioctls, module exit | tty layer, processes, timer | first open; timer against close; big kernel lock let go when sleeping | count equals files; the timer runs while open and finds its tty |
| `sbull/sbull.c` | ram disk, `users`, timer, `media_change`, the request queue | open, release, revalidate, timer, three request modes | block layer, timer | timer against open; merged requests; a request function under the lock | the medium changes only while closed; an array of sectors; requests end once |
| `jit/jit.c` | per-read data with a timer or a tasklet; `jiffies` | reads of seven `/proc` files | processes, timers, tasklets, signals | a reader that is interrupted; `jiffies` wraps | freed only when nobody uses it; delays are kept |
| `jit/jiq.c` | one shared `jiq_data`, a work | reads of `/proc/jiqwq`, `/proc/jiqwqdelay` | processes, work queue | concurrent readers | a read returns its own lines, and returns |
| `scullc` | scull's layout over a slab cache | as scull | | | does not compile |
| `asynctest.c`, `ioctl.c` | none | user programs | | | they get what the driver promises |

The drivers share little state with each other: the nodes of `access.c` use the
reads, writes and `scull_trim` of `main.c`, the three files of scull are set up
and released by one pair of functions, and `sculld` registers on the bus of
`lddbus`.  Each interacts with the kernel: through the calls the kernel makes
(file operations, interrupts, timers, probe), and through the services it calls
(semaphores, wait queues, `kmalloc`, timers, krefs, the block layer).  Those
services are modelled inside the modules from how the driver uses them, and are
marked external in the map.

## 2. The modules

Every module has the driver's variables under the driver's names, one action for
each stretch of code that nothing can interrupt, and a `pc` for each process.  A
stretch ends where the code takes or gives a lock, sleeps, copies to or from
user memory, or reads shared state that it does not hold the lock of.
Definitions under the word *Mutation* are wrong variants of the definition they
stand before; each was substituted for it to see that the property concerned
notices.  Where a driver behaves differently on different machines, or several
devices are the same code, a variable that never changes (`env`, `plan`,
`mode`, `driver`) picks one in the initial state, so that one run covers all.

* **ScullPipe** is one pipe.  `rp`, `wp` are offsets, so that `dev->end` is
  `buffersize`.  A wait condition is two steps (`ReadLoad`, `ReadCheck`;
  `WriteLoad`, `WriteCheck`), since it reads `rp` and `wp` one after the other.
  `wake_up` empties the queue into the runnable processes; a process leaves it at
  `finish_wait`.  `scull_p_buffer` may be tuned between calls.  The history
  variable `got` holds what a read has copied out, `stranded` the sleepers that
  an open left behind when it emptied the pipe.
  **ScullPipeProofs** has its theorems, the implementation of `PipeFifo` included.
* **PipeFifo** is what the pipe promises: open empties, put appends, take removes
  from the front, in order.  `ScullPipe` implements it: `IsFifo` is
  `Fifo!Spec` with the queue computed from the buffer, `rp` and `wp`.
* **ScullAccess** is the four nodes of `access.c`, with users, effective users,
  capabilities and terminals as constants, and `Smp` to tell whether a spinlock
  excludes anybody.  `plan` says who may open what in a behaviour; `stored` is
  the devices that hold data, for the truncation at the end of each open.
  **ScullAccessProofs** has its theorems.
* **ScullDev** is one scull device: a list of arrays of quanta, with positions
  divided as the code divides them.  `LockedTrim` tells `scull_open`, which takes
  the semaphore to truncate, from the opens of `access.c`, which do not.  A call
  loads `quantum` and `qset` before it has the semaphore, and another open may
  replace them in between; the history variable `misfit` records that a call has
  gone on with the outdated ones (`Outdated`).
* **Sculld** extends it with the operations of `sculld/main.c`, which keep data
  in the same layout: `driver` is the one a behaviour is of.
* **ByteFile** is what both promise, an array of bytes with a size and
  a position for each file; `IsByteFile` states that `ScullDev` implements it.
  It allows one thing in which the code differs, a read that begins past the
  size (`ReadPastSize`; see 7); with an outdated geometry the code is no array of
  bytes, and `IsByteFile` says nothing from there on.  **ScullDevProofs** has the theorems of both
  drivers.
* **ModuleLoad** is the init and exit functions of scull, lddbus, sculld, sbull,
  snull, the tty and the usb driver.  Each is a set of blocks of steps, with the
  labels, gotos and loops of the C: a step acquires, releases, uses or tests a
  resource (memory, regions, cdevs, devices on the bus, disks) of the device that
  its loop is at, `at` is where the function is, `held` what it has, and `pointer`
  what it believes to have.  `plan` also holds the parameters that the functions
  branch on, where they are given: `scull_major`, `scull_minor`, `sbull_major`.  A
  process opens any device that can be reached, also half-way.  **LifetimeProofs** has its theorems.
* **Snull** is the two interfaces.  A transmission runs the receiver's interrupt
  and then the sender's in its own context, so that a thread has a `call` to tell
  which it is in; the poll is another thread.  The read of a status word and its
  store are two steps.  `memory` and `kfreed` follow `snull_cleanup`.
  **SnullProofs** has its theorems.
* **UsbSkel** is the skeleton driver, with one `struct usb_skel` for each time
  the device is plugged in; the usb core's calls and the processes interleave,
  apart from what the big kernel lock excludes.  **LifetimeProofs** has its
  theorems too.
* **TinyTty** is one port.  `bkl` is the big kernel lock, which the tty layer
  holds in open and close and which `Sleeps` gives up; `env` switches on a
  `kmalloc` that sleeps, one that fails, a timer that runs beside the processes,
  and callers that do not hold the lock.  `CloseOops` is a close that ends in a
  timer which is NULL: the process dies with the semaphore, and at the exit of the
  module the same ends the exit (`"stuck"`).  **TinyTtyProofs** has its theorems.
* **Sbull** is one disk.  Processes open and release it under the block device's
  semaphore and submit bios; the queue merges them into requests, which the
  request function works off under `dev->lock`, or `sbull_make_request` moves
  them in the process that submits.  Segments are moved one by one.
* **SectorDisk** is what it promises: between a submission and its end a bio
  writes or reads each of its sectors, in any order relative to those of others;
  `IsSectorDisk` states that `Sbull` implements it.  **SbullProofs** has the
  theorems of the disk.
* **ProcRead** is the `/proc` layer, a page for each read that is neither cleared
  nor kept; **Jit** and **Jiq** are the reads of the two files, and **JitProc**
  composes them, so that a page which one leaves to a timer may be given to the
  other.  `jiffies` is an integer modulo `Range`, and starts just before it wraps.
  **JitProcProofs** has the theorems of both files.

Each family has an MC module that names the model values and the environments;
`MCScullAccess` also gives users and terminals to the processes.

## 3. The runs

The configuration of a run has the run's name.  *Pass*:

| Run | Shows |
|---|---|
| pipe_fifo | the pipe is a FIFO and its pointers stay inside; under fairness nobody is forgotten |
| pipe_shared | lock, counts and wake-ups of four roles in three processes that read, write and poll, with a tuned size; the inductive invariant of the proofs |
| access | one opener, one owner until the last close, one device per terminal; data stays while scullsingle is open; waiting opens are not forgotten |
| dev | no copy of scull or sculld works on freed memory; and until a call has worked with an outdated geometry: the device is an array of bytes, copies stay inside their quantum, a changed geometry does not hold before the next truncation |
| snull | packets and skbs conserved, packets attended to, transmission never fails, queue woken, unload clean, in six environments |
| usb_refs | life time of the structure and of the urbs' buffers; what a read may return |
| tty | count, timer and pointers of a port, when nothing sleeps or fails; calls return, when everything can sleep and fail, until one has ended in the NULL timer of `tiny_tty.c:145` |
| sbull | the medium changes only while closed; an array of sectors; calls end |
| jit | timers and tasklets leave freed data alone, delays are kept across the wrap, a read returns its own lines |
| load | devices are ready when they can be opened; what is released was had; nothing stays behind but what `Lost` names; with and without the parameters |

*Violation*: `pipe_read_past_end` refutes the comment of `pipe.c:125`, and
`load_no_memory` that of `main.c:500` (see 7).

The properties hold in the environments that they, or the runs, name; the
violations of section 7 show why these have to be restricted.  `pipe_fifo` reads
at most one byte at a time and does not tune the size; in `access` a behaviour
opens either the uid nodes or the other two; in `dev` opens truncate under the
semaphore, truncations change the geometry under calls that have loaded it, and
the properties other than the lock and the use of freed memory end with the first
call that goes on with the outdated one (`misfit`); `CallsReturn` ends with the
first oops; the properties of snull
under `Plain`, those of the tty under `Quiet`, and those of jit under `~env.smp`
are about one processor and what their definitions list; in `load` any resource
may fail but those of section 7, and `NothingLeft` leaves out what `Lost`
names, the last two only where the parameters that lose them are given.  What is not restricted holds without these assumptions.

Deadlock is checked in all runs where the system cannot stop.  It may stop in
`snull` (unloaded, or with a receive interrupt lost and every packet waiting), in
`usb_refs` (every plug-in uses a new structure) and in `tty` (the opens are
counted, and the module is unloaded).

## 4. Bounds

Three processes in two roles each are the least where a wake-up may go to the
wrong sleeper; a buffer of three bytes has full, empty, wrapped and partly filled
states.  `pipe_shared` starts with a buffer of two bytes and tunes it to three,
the least sizes that differ.  The five processes of `access` stand for two users,
one who is both by su, root, who has the capability, and one who does not block;
three at a time suffice to keep each other waiting.  `dev` has quanta of one byte
that the next truncation makes two, arrays of two and calls of up to two bytes,
so that positions up to `MaxPos` reach the second list item and calls are cut at
the end of a quantum; a `Page` of one is the default order of sculld, so that the
run has no list items of another order (the theorems do).  Pools of
one to three packets run empty and fill again; a poll of weight two, which is the
code's, may take all packets or leave one.  Two plug-ins let a second device meet files of
the first.  `Calls` bounds how often a process opens the tty, `Packets` (in
`UsbSkel`) what the usb device sends, `lockup` (of `env`) is the module
parameter.  A disk of two sectors has bios of one segment, of two, and of one
that is longer, and requests that merge two bios.  Two readers of the `/proc`
files are two who disturb each other; a page has three lines, `Loops + 1` or
`Limit + 1` of which are used; `Range` is twice the delay and more, as the
comparison of `jiffies` demands.  `load` has two devices of each kind, the least
with a first and a last, and a process for either; scull is loaded with no
parameter, with `scull_minor`, and with both, sbull with and without its major;
the theorems have any number and any plan.  No other counter needs a
bound: sequences and counts are bounded by the calls in flight.

## 5. Fairness

Weak fairness of a process inside a call, since the scheduler runs whoever is
runnable; none for the calls themselves (nobody has to read).  Strong fairness
where a process competes for a semaphore, for the big kernel lock, or for the
lock of the disk, whose waiters are served in turn.  Closes are fair in
`UsbSkel`, as a process that exits closes its files.  Urbs complete, the timers
of jit and of the tty expire (that of the disk may never get the quiet it waits
for), time passes, the work queue works, and softirqs that were raised run: each
is an action of its own that is weakly fair, or strongly where others can
disable it for a while (a poll during transmissions, a watchdog whose queue is
woken and stopped again).

## 6. What is proved

`ScullPipeProofs` holds for all sets of readers, writers and pollers, all buffer
sizes of two or more, and all data; the assumptions are those of `ScullPipe`
(`ProcsAssumption`, `DataAssumption`, `SizeAssumption`, `CountAssumption`).

* `TypeCorrect`: the type invariant.  It needs one more conjunct to be inductive:
  the size of a buffer is set once there is one (`TypeInv`).
* `LockCorrect`: mutual exclusion.  Every step of a process is one of three moves
  of the lock (lemma `StepIsLockMove`) and each of these preserves the invariant
  (`LockMovePreserves`), so that the error paths are covered with the rest.
* `NoReaderForgotten`, `NoWriterForgotten`, `NoPollerForgotten`, together
  `NobodyForgotten`: the wake-ups.  None of them is inductive, since a sleeper
  is served or not according to where the others are in the middle of their
  calls. `SleepersServed` says so at every moment: who sleeps, or is about to on
  a value it has loaded, lacks what it waits for, or there is a process on its
  way to the `wake_up`; and the write pointer stands at the end of the buffer
  only inside the step that wraps it. The lemmas `ReadersStep` and `WritersStep`
  preserve it, `FreeLock` specialises it to the moments at which the lock is
  free.

`SleepersServed` is itself a theorem (`SleepersCorrect`), and checked by
`pipe_shared`.

* `FilesCorrect`: `nreaders` and `nwriters` count the open files.  `FilesInv` adds
  who holds a file at each `pc`, so that the counts are cardinalities of sets of
  processes, and that there is a buffer exactly while there is such a process or
  the operation that allocates or frees it is under way.
* `PointersCorrect` and `PipesAreFifos` need two hypotheses, the code divergences
  of 7: the size is not tuned (`OneSize`) and reads ask for one byte at most
  (`SmallReads`).  `RingInv` says that a pointer stands at the end only in the
  step that wraps it.  The refinement computes the queue from the ring; the
  lemmas on rings say what moving either pointer does to it, and `PipeStep` maps
  each action to a put, a take, an open, a close, a return or a stutter.

`ScullAccessProofs` is for any processes, users, terminals and plans.  It takes
`Control` (what a process at each `pc` has opened and holds) as the common part.

* `SingleCorrect`, `OwnersCorrect`: one opener of scullsingle; sculluid and
  scullwuid are open as often as their counts say, to users that the owner lets
  in.  Both hold also where spinlocks do not exclude, since nothing can come
  between the test and the count of a stretch that does not sleep.
* `WaiterWokenCorrect`: `WaitersServed` is inductive, as `SleepersServed` is: an
  open of scullwuid that has read the count and the owner, and not slept yet, has
  read what is still true or a release is on its way to the `wake_up`.
* `AccessRulesCorrect` adds the private devices.  The list has one entry for each
  terminal only where the spinlock excludes others during `kmalloc` (`Smp`, the
  divergence at `access.c:183`).
* `SingleDataKept` is an action property, where nobody may open sculluid too
  (`Apart`; the two nodes are one device).

`ScullDevProofs` covers scull and sculld (`FamilySpec`) for any sizes of quanta
and sets, positions and counts; products and quotients are in a few lemmas of
their own.

* `LockCorrect` has no hypothesis.
* `DevicesCorrect` is the inductive invariant: the position that a call has
  computed is that of its bytes (`Working`), the list reaches as far as the size
  (`SizeFits`), and the arrays and quanta have the lengths in force.  Its one
  hypothesis is `LockedTrim`, which is so of scull0 to scull3 and of sculld.  The
  geometry may change under a call that has loaded it, and the order of sculld
  may be any: what the invariant says of lengths and positions it says until
  `misfit`, which is set by a read or write that goes on with a quantum or qset
  that is outdated, or by a write in a list item after the first of a sculld
  whose page is not its quantum.  `CopiesCorrect` and `GeometryCorrect` follow;
  that no copy works on freed memory holds after a `misfit` too.
* `DevicesAreByteFiles`: the refinement of `ByteFile`.  A position is mapped to a
  list item, an array index and an offset, and the mapping is shown to be one to
  one, so that a copy changes the bytes it should and no others (`Scribbled`).  A
  step that sets or follows a `misfit` is not claimed to be one of `ByteFile`.
  `Bounded` says that there is a largest quantum, since `Reach` is finite.

`SnullProofs` is for pools of any size and all environments of `Snull`.

* `PacketsCorrect`: each packet is in one place.  Pools and receive queues are
  linked lists, and `Placement` is a function from packets to places that
  agrees with the lists.  What walking a list reaches (`Walk`) is defined by
  recursion over the naturals; that it ends and finds each packet once is proved
  from the least element of a set of naturals, in place of an induction.
* `TransmitCorrect`, `SkbCorrect`, `SkbKept`, `ReceiverCorrect`, `UnloadCorrect`: the rest of
  the invariant says in which order an interface goes down (`DownFirst`), that
  the interrupts of a transmission come in order (`InOrder`) and, for `Plain`
  environments, that an interface in service has its packets, its skb and
  somebody for its queue (`InService`).  `UnloadClean` needs `NoRush`: the module is
  unloaded only with the interfaces down, which `snull_unload.sh` does first,
  and without NAPI on one processor; otherwise it is refuted in 7.

`LifetimeProofs` is about how long things live: in its first part the resources
of a module, for any number of devices, processes and plans.  The invariant
`LoadInv` has a conjunct for each module, which says for every place in the functions of
that module

* where the function can be and for which devices anything can be held (`ScullPlace`,
  `ScullRange`);
* what is no longer held, or not yet: before its turn in the init and after it in
  the exit, where a loop at device `i` divides the devices (`ScullGone`);
* what whoever can reach a device needs, and what the init has on its way to
  adding it (`ScullThere`);
* what is still held where it will be released or used (`ScullOwned`).

A lemma for each block (`ScullAtSetup`, `SbullAtExit`, ...) follows its steps,
with what a step does to the resources and to `at` from `GetOrStep`, `PutOne`,
`TestStep` and the like; `Stays` adds that a step touches the resources of its
own module only (`KindsApart`), and takes no device away while the module is
being loaded.  `Busy` and `FilesOpen` relate the modules to each other and to the
open files.  The hypotheses are the failures from which the code recovers; each
is as weak as it can be, in that a kind of resource which it names is one that
TLC finds to break the property when it may fail (7).

* `DevicesReadyCorrect`: needs `DriverHad`, that `register_ldd_driver` succeeds, whose
  result `sculld_init` does not look at.
* `OnlyOwnReleasedCorrect`: needs `Careful`, that ten of the kinds can be had.
* `NothingLeftCorrect`: needs `LeavesNot`, that two can.  It is about any plan, with
  the parameters; `Lost` names what it does not claim: the tty driver always, the
  major of sbull with `sbull_major`, and scull's numbers with `scull_minor` and
  without `scull_major` (`FromMinor0`), where the exit names numbers that nobody
  has and `unregister_chrdev_region` does nothing.

Its second part is about `UsbSkel`, for every finite set of processes and any
number of plug-ins, buffers and packets (`SetsAssumption`, `PacketsAssumption`).

* `SkelCountedCorrect`: types, `SkelAlive` and `KrefExact`.  The three are one
  invariant, since a put frees exactly what the kref says nobody uses, and a file
  finds its structure there only because it is counted.  They are inductive with
  `FilesHeld` (a process holds a `usb_skel` from the open to the release),
  `CoreState` (what `skel_probe` and `skel_disconnect` have done at each place)
  and `OpensLocked`: an open that has found a `usb_skel` and not counted it holds
  the big kernel lock, so that the core, which would drop the only counted
  reference, is still `bound`.  `LastUser` says that a put which frees is that
  of the only user; the reads, writes and urbs count nothing (`OtherSteps`).
* `ReadsFresh`: an action property.  Its invariant `Fresh` says that the packets in
  the shared buffer come in order and that the buffer of a read between its
  transfer and its copy is at least as late as what it brought.

`TinyTtyProofs` is for any number of processes and opens.  `PortHolds` and
`TimerHolds` share the invariant `Types /\ CountInv /\ (Alone => QuietInv)`: types
and the bound of `open_count` hold in every environment, the rest where the port
is quiet.  `QuietAlone` says that the quiet environments have no caller that
writes without the big kernel lock; both properties are refuted without `Quiet` (7).

`SbullProofs` is for any processes, sectors and shapes of bios, in all three modes.

* `DiskCorrect`: `BiosHeld` (a bio has its memory until it is over, and what was
  moved of it ends in a segment or with it), `Queued` (who waits is in one place
  of one request, however requests are merged and cut) and `UsersCount`
  (`users` is the number of those who have the disk open).
* `MediumRests`: two more conjuncts, who holds the semaphore (`SemHeld`), and that
  an open finds the timer it deleted still at rest when it gets the lock
  (`Quiet`).  `Serial` is `bd_sem`, under which the block layer calls open and
  release; the driver relies on it, as its own lock is not held from
  `del_timer_sync` on.
* `DiskIsSectorDisk`: the refinement of `SectorDisk`.  What is ahead of a bio is an
  interval of sectors, each transfer cuts a portion from its front (`Portion`,
  `Remainder`) and moves exactly its sectors between disk and memory
  (`MovesSectors`), and a bio ends with nothing ahead; the sums of segments are
  those of the community module's fold, which is shown to have the value its
  equation defines.  `SegmentsFound`: the segments of a bio have one length, or
  only `sbull_request` is used; otherwise `sbull.c:113` refutes it.

`JitProcProofs` is for any readers, pages, lines and delays.  Its invariant is
`DataOwned` (a timer or a tasklet that is due has a reader who waits for it),
`LinesLeft` (what is printed yet fits in the page) and `Timely` (a reader that is
woken by the time is so after its delay, in arithmetic modulo `Range`).

* `AccessCorrect`, `DelayCorrect`: memory is used while it is owned, on one processor;
  delays are kept, across the wrap of `jiffies`.
* `ReadsCorrect` adds `PagesOwned` and `Unmixed`: each page is that of one reader, and
  where there are no signals holds the lines printed so far and no other.

What is not proved, and stays with TLC:

* liveness under fairness, which needs ENABLED: `SleepersWoken`,
  `WaiterNotForgotten`, `QueueWoken`, `NothingLeaks`, `CharactersCome`,
  `CallsReturn`, `CallsEnd` and `ReadsReturn`;
* that the hypotheses named above hold of the kernel around the driver: they are
  what `Serial`, `Smp` and the environments stand for.

## 7. What the checks found

Two are runs.  `pipe_read_past_end`: with the write pointer wrapped a read is
limited by `dev->end - dev->wp` (`pipe.c:126`) where the comment says "up to the
end of the buffer", and may pass the end.  `load_no_memory`: a failed `kmalloc`
in `scull_init_module` (`main.c:523`) goes to a cleanup that is also meant for
failures, by its comment, and that deletes the cdevs of `access.c` which were
never initialised.

The others are counterexamples that TLC gives when a passing run loses one of its
restrictions: the property (checked alone, where another fails earlier), and
after the colon the change.  *Without* a condition means that it is struck from
the definition of `Plain` (Snull) or `Quiet` (TinyTty); *with* a value, that one
of the environments in the MC module is given it.

| Source | What happens | To see it |
|---|---|---|
| `pipe.c:67` | a tuned size outgrows the buffer | PointersInBuffer: `TuneSizes = {4}` in pipe_fifo |
| `pipe.c:138` | the comment says that one writer is woken, the code wakes all, and one would not be enough | SleepersServed: the mutation `WakeOneWriter` |
| `access.c:70` | sculluid uses scullsingle's device, and truncates it | SingleKeepsData: `{"single", "uid"}` in a plan |
| `access.c:183`, 200 | a terminal may get two private devices | AccessRules: `Smp = FALSE` in access |
| `access.c:39` | a truncation without the semaphore frees what is being copied | CopiesInside: `LockedTrim = FALSE` in dev |
| `main.c:262` | a read past the size, after a truncation, returns bytes | `ReadPastSize` of ByteFile allows it; IsByteFile without it |
| `main.c:298` | outdated geometry: a write leaves its quantum, allocates arrays of a length that is no longer in force, and is at the wrong position | CopiesInside, DataMatchesGeometry, IsByteFile: each without its `misfit`, in dev |
| `sculld/main.c:151` | list items after the first allocate single pages | CopiesInside: `misfit'` in `SculldWriteLocate` without `Page # quantum`, and `Quantum = 2`, `Qset = 1`, `Quanta = {}` in dev (order 1) |
| `sbull.c:324` | a major that was given counts as a failure, and stays registered | NothingLeft: `Lost` without `sbull_major` |
| `main.c:550`, 505, 520 | a major that is found is had from minor 0 on, and given back from `scull_minor` on: it stays registered | NothingLeft: `Lost` without `scull_region` |
| `main.c:523`, 586; `access.c:292`, 302, 324 | without memory, a region or a cdev the cleanup releases what it does not have | OnlyOwnReleased: `scull_devices`, `sculla_region` or `sculla_cdev` in MayFail |
| `lddbus.c:131` | a bus device that fails leaves the bus type | NothingLeft: `ldd_bus` in MayFail |
| `sculld/main.c:305` | a failed kmalloc leaves the driver on the bus | NothingLeft: `sculld_devices` in MayFail |
| `sculld/main.c:289` | a driver that could not be registered is used | DevicesReady, OnlyOwnReleased: `sculld_driver` in MayFail |
| `sculld/main.c:271` | a device that could not be registered is unregistered | OnlyOwnReleased: `sculld_ldev` in MayFail |
| `sbull.c:349` | a disk without memory has no timer, which the exit deletes | OnlyOwnReleased: `sbull_data` in MayFail |
| `sbull.c:316`, 360 | a disk whose set-up fails frees its memory, and the exit again | OnlyOwnReleased: `sbull_queue` or `sbull_gd` in MayFail |
| `snull.c:598` | an init that fails unregisters interfaces it never registered | OnlyOwnReleased: `snull_dev` or `snull_reg` in MayFail |
| `tiny_tty.c:552` | every unload loses the tty driver (no `put_tty_driver`) | NothingLeft: `Lost` without `tiny_driver` |
| `snull.c:140` | the queue is woken with an empty pool | TransmitNeverFails: without `smp`, with `smp` (and NAPI) |
| `snull.c:473` | the same, by the watchdog | TransmitNeverFails: without `watched`, with it |
| `snull.c:470` | an skb is freed twice after a lockup | SkbFreedOnce: without `lockup` and `watched`, with both and no NAPI |
| `snull.c:284` | a receive interrupt is lost between the queue and the poll's end | ReceiverServed: without `smp`, with `smp` |
| `snull.c:419` | the same, of the status word | ReceiverServed: without `smp` |
| `snull.c:351` | interrupts stay off | ReceiverServed: without `closers`, with `{sn1}` |
| `snull.c:570` | packets in flight are lost, or used after they were freed | UnloadClean: `rmmod` *whenever* |
| `snull.c:355` | NAPI leaves packets in the queue of an interface that went down | UnloadClean: without `~env.napi` |
| `tiny_tty.c:92` | two first opens make two ports | PortCorrect: without `sleepy`, with it |
| `tiny_tty.c:85` | an open hides the port from the others | PortCorrect: without `smp`, with `smp` and writers |
| `tiny_tty.c:145` | the timer survives its tty | TimerCorrect: without `smp`, with `smp` |
| `tiny_tty.c:113`, 145 | a failed open ends in `del_timer(NULL)`, with the semaphore taken, and no later open or close returns | TimerCorrect: without `failing`, with it; CallsReturn: without `"dead"` |
| `sbull.c:113` | a segment is moved with the length of the first | IsSectorDisk: `Shapes` with `<<1, 2>>`, `NSectors = 3` |
| `jit.c:125` | with several processors the reader frees its data between the last `--loops` and the `wake_up` | NoStrayAccess: without `~env.smp` |

What the models show, or reading them does, without a property that denies it:
a failed write of the usb driver frees its buffer twice (`usb-skeleton.c:205`);
readers of the usb device share one buffer, so that a read may return another's
packet (130, `ReadNotStale` is what remains true); `tiny_tiocmset` sets RTS for
DTR (`tiny_tty.c:327`); the comment of `sbull.c:54` has the size in sectors where 261
stores bytes.  An interrupted reader of jit leaks its data, and the timer goes on
writing into a page that the `/proc` layer has freed (`jit.c:163`); two readers of
jiq take the buffer from each other (`ReadIsPrinted` leaves those that were
disturbed out), and a signal that goes on pending can keep one from returning;
`jit_exit` removes a file under the name "currenttimie" (`jit.c:254`) and waits
for no timer.

## 8. What is not modelled

* `scullc`: it does not compile at this commit (undeclared identifiers, a
  `kmalloc` without flags), so that there is no program to be faithful to.
  `mmap.c` of sculld is commented out.
* The `/proc` listings of scull and of the tty, `HDIO_GETGEO`, `tiny_tiocmget`,
  `TIOCGSERIAL`, `TIOCGICOUNT`, `scull_ioctl` commands that only return a value,
  the bus's match, hotplug and attributes: they only read.  `tiny_set_termios`
  logs.  snull's headers, `config`, `change_mtu` and statistics other than
  `tx_packets`.
* `TIOCMIWAIT` of the tty: its wait queue is never initialised nor woken.
* Init and exit of jit and jiq.
* What follows undefined behaviour: after an access to freed memory, and to NULL
  other than in `CloseOops`, the models go on with a harmless value; the properties
  are about the moment it happens.  `sculld_follow` that runs out of memory ends there.
* Memory contents other than the bytes of pipe, device and disk, and the lines of
  the `/proc` pages.
* User programs and shell scripts; the order the scripts keep is the environment
  of `ModuleLoad` and `Snull`.

`scull_fops` has no `llseek` of its own (it is commented out); the positions of
the default one are among those of `Seek`.

## 9. Plan

Done: the modules above, in the order pipe, access, device, snull, usb, tty;
sbull, jit and jiq, sculld, init and exit.

1. `ScullAccess` composed with `ScullDev`, where the unlocked truncations of
   `access.c` meet the reads; `AsyncTest`, composed with `ScullPipe` through
   SIGIO.
2. Proofs: `PortCorrect` and `TimerCorrect` with writers; `ReceiverServed` beyond
   `Plain`.
