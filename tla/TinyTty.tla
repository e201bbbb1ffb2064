------------------------------ MODULE TinyTty ------------------------------
(***************************************************************************)
(* One port of the tty driver of src/tty/tiny_tty.c.  Its struct           *)
(* tiny_serial is made by the first open and kept until the module goes; a *)
(* timer, which stands for the hardware, sends a character to the tty      *)
(* layer for as long as the port is open.  The tty layer calls open and    *)
(* close under the big kernel lock, which a call that sleeps lets go, and  *)
(* write_room (from poll) without it.                                      *)
(***************************************************************************)
EXTENDS Integers, FiniteSets

CONSTANTS Procs,
          Tinys,    \* the structs tiny_serial; one for each kmalloc
          Environments,  \* of which every behaviour has one
          Calls,    \* bound: how often each process opens the port
          NULL

\* Who opens the port and who then writes or polls, the modem lines that are
\* set, whether a timer runs beside the processes, and whether kmalloc sleeps
\* or fails.
ASSUME EnvironmentsAssumption ==
  Environments \subseteq [procs : SUBSET Procs, writers : SUBSET Procs,
                          lines : SUBSET {"DTR", "RTS"},
                          smp : BOOLEAN, sleepy : BOOLEAN, failing : BOOLEAN]
ASSUME SetsAssumption == IsFiniteSet(Procs) /\ NULL \notin Procs \cup Tinys
ASSUME CallsAssumption == Calls \in Nat

VARIABLES
  env,          \* the environment of this behaviour; it never changes
  bkl,          \* who holds the big kernel lock, or NULL
  tty,          \* the files that hold the tty_struct
  driver_data,  \* tty->driver_data
  tiny_table,   \* the entry of this port
  mem,          \* of each tiny_serial: unused, live or freed
  tiny_tty,     \* tiny->tty: none, live, or freed when the tty_struct is
  sem,          \* who holds tiny->sem, or NULL
  open_count,
  timer,        \* whether tiny->timer has been allocated
  pending,      \* whether it is in the kernel's list of timers
  running,      \* where its function is: no, called or pushed
  mcr,
  pc,
  tiny,         \* the tiny_serial of a process's call
  opens,        \* how often a process has opened
  module        \* loaded, closing its timers (in tiny_exit), gone, or stuck there

lock   == <<env, bkl, sem>>
port   == <<tty, driver_data, tiny_table, mem, tiny_tty>>
clock  == <<timer, pending, running>>
local  == <<tiny, opens>>
vars   == <<lock, port, open_count, clock, mcr, pc, local, module>>

Locations == {"closed", "op_init", "op_kmalloc", "op_store", "op_down",
              "op_timer", "op_up", "open", "failed", "cl_down", "cl_up",
              "release", "wr_down", "wr_up", "dead"}

Init ==
  /\ env \in Environments
  /\ bkl = NULL /\ tty = {} /\ driver_data = NULL /\ tiny_table = NULL
  /\ mem = [t \in Tinys |-> "unused"]
  /\ tiny_tty = [t \in Tinys |-> "none"]
  /\ sem = [t \in Tinys |-> NULL]
  /\ open_count = [t \in Tinys |-> 0]
  /\ timer = [t \in Tinys |-> FALSE]
  /\ pending = [t \in Tinys |-> FALSE]
  /\ running = [t \in Tinys |-> "no"]
  /\ mcr = [t \in Tinys |-> {}]
  /\ pc = [p \in Procs |-> "closed"]
  /\ tiny = [p \in Procs |-> NULL]
  /\ opens = [p \in Procs |-> 0]
  /\ module = "loaded"

\* On one processor no process runs while a timer does.
Goto(p, from, to) ==
  /\ env.smp \/ \A t \in Tinys : running[t] = "no"
  /\ pc[p] = from
  /\ pc' = [pc EXCEPT ![p] = to]

\* A process that slept has the lock again before it goes on.
Locked(p) == bkl \in {p, NULL} /\ bkl' = p

\* down(&tiny->sem) and up(&tiny->sem)
Down(p) == sem[tiny[p]] = NULL /\ sem' = [sem EXCEPT ![tiny[p]] = p]
Up(p) == sem' = [sem EXCEPT ![tiny[p]] = NULL]
-----------------------------------------------------------------------------
(* tiny_open, as tty_open calls it *)

OpenCall(p) ==
  /\ module = "loaded" /\ p \in env.procs
  /\ bkl = NULL /\ bkl' = p
  /\ opens[p] < Calls
  /\ opens' = [opens EXCEPT ![p] = @ + 1]
  /\ Goto(p, "closed", "op_init")
  /\ tty' = tty \cup {p}
  /\ UNCHANGED <<env, sem, driver_data, tiny_table, mem, tiny_tty, open_count,
                 clock, mcr, tiny, module>>

\* driver_data is NULL until the call has the semaphore.
OpenLook(p) ==
  /\ Locked(p)
  /\ Goto(p, "op_init", IF tiny_table = NULL THEN "op_kmalloc" ELSE "op_down")
  /\ driver_data' = NULL
  /\ tiny' = [tiny EXCEPT ![p] = tiny_table]
  /\ UNCHANGED <<env, sem, tty, tiny_table, mem, tiny_tty, open_count, clock, mcr,
                 opens, module>>

\* kmalloc clears nothing.
OpenKmalloc(p) ==
  /\ Locked(p)
  /\ Goto(p, "op_kmalloc", "op_store")
  /\ \E t \in Tinys : /\ mem[t] = "unused"
                      /\ mem' = [mem EXCEPT ![t] = "live"]
                      /\ tiny' = [tiny EXCEPT ![p] = t]
                      /\ \E m \in SUBSET env.lines : mcr' = [mcr EXCEPT ![t] = m]
  /\ UNCHANGED <<env, sem, tty, driver_data, tiny_table, tiny_tty, open_count,
                 clock, opens, module>>

\* -ENOMEM: tty_open calls tiny_close, which finds no driver_data.
OpenNoMemory(p) ==
  /\ env.failing /\ Locked(p)
  /\ Goto(p, "op_kmalloc", "failed")
  /\ UNCHANGED <<env, sem, port, open_count, clock, mcr, local, module>>

OpenStore(p) ==
  /\ Locked(p)
  /\ Goto(p, "op_store", "op_down")
  /\ tiny_table' = tiny[p]
  /\ UNCHANGED <<env, sem, tty, driver_data, mem, tiny_tty, open_count, clock, mcr,
                 local, module>>

\* The big kernel lock of a process that sleeps, in kmalloc or in down.
Sleeps(p) ==
  /\ bkl = p /\ bkl' = NULL
  /\ \/ env.sleepy /\ pc[p] \in {"op_kmalloc", "op_timer"}
     \/ pc[p] \in {"op_down", "cl_down"} /\ sem[tiny[p]] \notin {NULL, p}
  /\ UNCHANGED <<env, sem, port, open_count, clock, mcr, pc, local, module>>

FirstOpen(count) == count = 0

Saved(t) == t

OpenDown(p) ==
  /\ pc[p] = "op_down" /\ Locked(p) /\ Down(p)
  /\ LET t == tiny[p] IN
       /\ driver_data' = Saved(t)
       /\ tiny_tty' = [tiny_tty EXCEPT ![t] = "live"]
       /\ open_count' = [open_count EXCEPT ![t] = @ + 1]
       /\ Goto(p, "op_down", IF FirstOpen(open_count[t]) THEN "op_timer" ELSE "op_up")
  /\ UNCHANGED <<env, tty, tiny_table, mem, clock, mcr, local, module>>

Allocated(t) == [timer EXCEPT ![t] = TRUE]

\* init_timer and add_timer.
OpenTimer(p) ==
  /\ Locked(p)
  /\ Goto(p, "op_timer", "op_up")
  /\ timer' = Allocated(tiny[p])
  /\ pending' = [pending EXCEPT ![tiny[p]] = TRUE]
  /\ UNCHANGED <<env, sem, port, open_count, running, mcr, local, module>>

\* Mutation: the semaphore is not given back.
OpenTimerFailsLocked(p) ==
  /\ Goto(p, "op_timer", "failed")
  /\ env.failing /\ ~timer[tiny[p]] /\ Locked(p)
  /\ UNCHANGED <<env, sem, port, open_count, clock, mcr, local, module>>

\* -ENOMEM: tty_open calls tiny_close, with open_count already counted.
OpenTimerFails(p) ==
  /\ Goto(p, "op_timer", "failed")
  /\ env.failing /\ ~timer[tiny[p]] /\ Locked(p)
  /\ Up(p)
  /\ UNCHANGED <<env, port, open_count, clock, mcr, local, module>>

OpenUp(p) ==
  /\ bkl \in {p, NULL} /\ bkl' = NULL
  /\ Goto(p, "op_up", "open")
  /\ Up(p) /\ UNCHANGED <<env, port, open_count, clock, mcr, local, module>>
-----------------------------------------------------------------------------
(* tiny_close, as release_dev calls it: also after an open that failed *)

CloseCall(p) ==
  /\ \/ pc[p] = "open" /\ bkl = NULL
     \/ pc[p] = "failed" /\ bkl = p
  /\ bkl' = p
  /\ Goto(p, pc[p], IF driver_data = NULL THEN "release" ELSE "cl_down")
  /\ tiny' = [tiny EXCEPT ![p] = driver_data]
  /\ UNCHANGED <<env, sem, port, open_count, clock, mcr, opens, module>>

\* Mutation: the count is not lowered.
LeftKeeps(count) == count
Left(count) == IF count = 0 THEN 0 ELSE count - 1

\* Mutation: del_timer is never called.
LastCloseNone(count) == FALSE
LastClose(count) == count = 1

\* do_close: del_timer takes the timer out of the list, and neither stops nor
\* awaits its function when that is running.
CloseDown(p) ==
  /\ Goto(p, "cl_down", "cl_up")
  /\ Locked(p) /\ Down(p)
  /\ LastClose(open_count[tiny[p]]) => timer[tiny[p]]
  /\ LET t == tiny[p] IN
       /\ open_count' = [open_count EXCEPT ![t] = Left(@)]
       /\ pending' = [pending EXCEPT ![t] = @ /\ ~LastClose(open_count[t])]
  /\ UNCHANGED <<env, port, timer, running, mcr, local, module>>

\* The kmalloc of the timer had failed: del_timer is called with NULL, which ends
\* the process.  It keeps the semaphore and its file; the big kernel lock goes.
CloseOops(p) ==
  /\ Goto(p, "cl_down", "dead")
  /\ bkl \in {p, NULL} /\ bkl' = NULL
  /\ Down(p)
  /\ LastClose(open_count[tiny[p]]) /\ ~timer[tiny[p]]
  /\ open_count' = [open_count EXCEPT ![tiny[p]] = Left(@)]
  /\ UNCHANGED <<env, port, clock, mcr, local, module>>

CloseUp(p) ==
  /\ Locked(p)
  /\ Goto(p, "cl_up", "release")
  /\ Up(p) /\ UNCHANGED <<env, port, open_count, clock, mcr, local, module>>

\* release_dev frees the tty_struct with its last file.
Release(p) ==
  /\ bkl = p /\ bkl' = NULL
  /\ Goto(p, "release", "closed")
  /\ tty' = tty \ {p}
  /\ \/ tty' # {} /\ UNCHANGED <<driver_data, tiny_tty>>
     \/ /\ tty' = {}
        /\ driver_data' = NULL
        /\ tiny_tty' = [t \in Tinys |-> IF tiny_tty[t] = "live" THEN "freed"
                                        ELSE tiny_tty[t]]
  /\ tiny' = [tiny EXCEPT ![p] = NULL]
  /\ UNCHANGED <<env, sem, tiny_table, mem, open_count, clock, mcr, opens, module>>
-----------------------------------------------------------------------------
(* tiny_write and tiny_write_room; with no driver_data they return -ENODEV *)

WriteCall(p) ==
  /\ p \in env.writers /\ driver_data # NULL
  /\ Goto(p, "open", "wr_down")
  /\ tiny' = [tiny EXCEPT ![p] = driver_data]
  /\ UNCHANGED <<lock, port, open_count, clock, mcr, opens, module>>

WriteDown(p) ==
  /\ Goto(p, "wr_down", "wr_up")
  /\ Down(p)
  /\ UNCHANGED <<env, bkl, port, open_count, clock, mcr, local, module>>

WriteUp(p) ==
  /\ Goto(p, "wr_up", "open")
  /\ Up(p)
  /\ UNCHANGED <<env, bkl, port, open_count, clock, mcr, local, module>>
-----------------------------------------------------------------------------
(* tiny_tiocmset, which for DTR sets or clears RTS *)

TiocmSet(p, set, clear) ==
  /\ bkl = NULL /\ driver_data # NULL
  /\ Goto(p, "open", "open")
  /\ LET on == IF set # {} THEN {"RTS"} ELSE {}
         off == IF clear # {} THEN {"RTS"} ELSE {}
     IN mcr' = [mcr EXCEPT ![driver_data] = (@ \cup on) \ off]
  /\ UNCHANGED <<lock, port, open_count, clock, local, module>>
-----------------------------------------------------------------------------
(* tiny_timer *)

TimerCall(t) ==
  /\ pending[t] /\ running[t] = "no"
  /\ pending' = [pending EXCEPT ![t] = FALSE]
  /\ running' = [running EXCEPT ![t] = "called"]
  /\ UNCHANGED <<lock, port, open_count, timer, mcr, pc, local, module>>

\* tty_insert_flip_char and tty_flip_buffer_push
TimerPush(t) ==
  /\ running[t] = "called"
  /\ running' = [running EXCEPT ![t] = "pushed"]
  /\ UNCHANGED <<lock, port, open_count, timer, pending, mcr, pc, local, module>>

\* Mutation: the timer is not submitted again.
SubmittedNot(t) == pending
Submitted(t) == [pending EXCEPT ![t] = TRUE]

TimerAgain(t) ==
  /\ running[t] = "pushed"
  /\ running' = [running EXCEPT ![t] = "no"]
  /\ pending' = Submitted(t)
  /\ UNCHANGED <<lock, port, open_count, timer, mcr, pc, local, module>>
-----------------------------------------------------------------------------
(* tiny_exit, which no open file lets happen *)

\* The calls of do_close, which end with open_count 0, and del_timer.  With a
\* timer that was never allocated rmmod ends there, and what it leaves is of no
\* use to anybody.
ExitClose ==
  /\ module = "loaded"
  /\ module' = IF tiny_table # NULL /\ ~timer[tiny_table] THEN "stuck" ELSE "closing"
  /\ tty = {} /\ bkl = NULL
  /\ env.smp \/ \A t \in Tinys : running[t] = "no"
  /\ open_count' = [t \in Tinys |-> IF t = tiny_table THEN 0 ELSE open_count[t]]
  /\ pending' = [t \in Tinys |-> pending[t] /\ t # tiny_table]
  /\ UNCHANGED <<lock, port, timer, running, mcr, pc, local>>

ExitFree ==
  /\ module = "closing" /\ module' = "gone"
  /\ mem' = [t \in Tinys |-> IF t = tiny_table THEN "freed" ELSE mem[t]]
  /\ timer' = [t \in Tinys |-> timer[t] /\ t # tiny_table]
  /\ tiny_table' = NULL
  /\ UNCHANGED <<lock, tty, driver_data, tiny_tty, open_count, pending, running,
                 mcr, pc, local>>
-----------------------------------------------------------------------------
Open(p) ==
  \/ OpenLook(p) \/ OpenKmalloc(p) \/ OpenNoMemory(p) \/ OpenStore(p)
  \/ OpenDown(p) \/ OpenTimer(p) \/ OpenTimerFails(p) \/ OpenUp(p)
Close(p) ==
  \/ CloseDown(p) \/ CloseOops(p) \/ CloseUp(p) \/ Release(p)
  \/ pc[p] = "failed" /\ CloseCall(p)
Write(p) == WriteDown(p) \/ WriteUp(p)
Kernel(p) == Open(p) \/ Close(p) \/ Write(p)
Timer(t) == TimerCall(t) \/ TimerPush(t) \/ TimerAgain(t)

Next ==
  \/ \E p \in Procs :
       \/ OpenCall(p)
       \/ pc[p] = "open" /\ CloseCall(p)
       \/ WriteCall(p)
       \/ Kernel(p)
       \/ Sleeps(p)
       \/ \E set, clear \in SUBSET env.lines : TiocmSet(p, set, clear)
  \/ \E t \in Tinys : Timer(t)
  \/ ExitClose \/ ExitFree
Spec == Init /\ [][Next]_vars

\* The big kernel lock and the semaphore go round among those who wait for
\* them, every process runs on, and so does the clock.
Fairness ==
  /\ \A p \in Procs : SF_vars(Kernel(p)) /\ WF_vars(Sleeps(p))
  /\ \A t \in Tinys : WF_vars(Timer(t))
FairSpec == Spec /\ Fairness
-----------------------------------------------------------------------------
(* Properties *)

TypeOK ==
  /\ env \in Environments
  /\ bkl \in Procs \cup {NULL}
  /\ tty \subseteq Procs
  /\ driver_data \in Tinys \cup {NULL} /\ tiny_table \in Tinys \cup {NULL}
  /\ mem \in [Tinys -> {"unused", "live", "freed"}]
  /\ tiny_tty \in [Tinys -> {"none", "live", "freed"}]
  /\ sem \in [Tinys -> Procs \cup {NULL}]
  /\ open_count \in [Tinys -> 0..Calls * Cardinality(Procs)]
  /\ timer \in [Tinys -> BOOLEAN] /\ pending \in [Tinys -> BOOLEAN]
  /\ running \in [Tinys -> {"no", "called", "pushed"}]
  /\ mcr \in [Tinys -> SUBSET {"DTR", "RTS"}]
  /\ pc \in [Procs -> Locations]
  /\ tiny \in [Procs -> Tinys \cup {NULL}]
  /\ opens \in [Procs -> 0..Calls]
  /\ module \in {"loaded", "closing", "gone", "stuck"}

\* Between calls the port's open_count is the number of its files, so that the
\* last of them to go is the one that stops the timer (line 140).
OpenCountExact ==
  bkl = NULL /\ tiny_table # NULL => open_count[tiny_table] = Cardinality(tty)

\* The timer of a tiny_serial runs exactly while the port is open: it is
\* started by the first open and stopped by the last close.
TimerFollowsOpen ==
  \A t \in Tinys : sem[t] = NULL /\ bkl = NULL =>
    ((pending[t] \/ running[t] # "no") <=> (open_count[t] > 0))

\* The function of the timer works on a tiny_serial and a tty that are there.
TimerFindsTty ==
  \A t \in Tinys : running[t] = "called" => mem[t] = "live" /\ tiny_tty[t] = "live"

\* add_timer is called for a timer that is not in the list.
AddedOnce ==
  /\ \A p \in Procs : pc[p] = "op_timer" => ~pending[tiny[p]]
  /\ \A t \in Tinys : running[t] = "pushed" => ~pending[t]

\* del_timer is called for a timer that has been allocated (lines 145, 563):
\* neither a close nor rmmod ends there.
DelTimerExists == module # "stuck" /\ \A p \in Procs : pc[p] # "dead"

\* An open file finds the structure that its open has saved (line 106).
FileFindsPort ==
  bkl = NULL => \A p \in Procs : pc[p] = "open" => driver_data # NULL

\* One processor, with a kmalloc that neither sleeps nor fails.
Quiet == ~(env.smp \/ env.sleepy \/ env.failing)

\* A port between calls (lines 68-167).
PortCorrect  == TypeOK /\ (Quiet => OpenCountExact /\ FileFindsPort)

\* The port's timer at any moment (lines 35-66, 113-127 and 145).
TimerCorrect == Quiet => TimerFollowsOpen /\ TimerFindsTty /\ AddedOnce /\ DelTimerExists

\* Every call returns, whoever sleeps in it and with whatever locks, until a
\* close has ended in line 145 with the semaphore, which nobody gives back.
CallsReturn ==
  \A p \in Procs :
    (pc[p] \notin {"closed", "open"})
      ~> (pc[p] \in {"closed", "open"} \/ \E q \in Procs : pc[q] = "dead")

\* A port that stays open is sent characters for ever.
CharactersCome ==
  \A t \in Tinys : (Quiet /\ open_count[t] > 0) ~> (running[t] = "called" \/ open_count[t] = 0)
=============================================================================
