---------------------------- MODULE TinyTtyProofs ----------------------------
(***************************************************************************)
(* Theorems about one port of the tty driver.                              *)
(***************************************************************************)
EXTENDS TinyTty, FiniteSetTheorems, TLAPS

Looking == {"op_init", "op_kmalloc", "op_store", "op_down"}
Locking == {"op_timer", "op_up", "cl_up"}
Using   == {"op_timer", "op_up", "open", "cl_down"}

(* What holds in every environment: types, and how often a port was opened. *)

Types ==
  /\ env \in Environments
  /\ bkl \in Procs \cup {NULL}
  /\ tty \subseteq Procs
  /\ driver_data \in Tinys \cup {NULL} /\ tiny_table \in Tinys \cup {NULL}
  /\ mem \in [Tinys -> {"unused", "live", "freed"}]
  /\ tiny_tty \in [Tinys -> {"none", "live", "freed"}]
  /\ sem \in [Tinys -> Procs \cup {NULL}]
  /\ open_count \in [Tinys -> Nat]
  /\ timer \in [Tinys -> BOOLEAN] /\ pending \in [Tinys -> BOOLEAN]
  /\ running \in [Tinys -> {"no", "called", "pushed"}]
  /\ mcr \in [Tinys -> SUBSET {"DTR", "RTS"}]
  /\ pc \in [Procs -> Locations]
  /\ tiny \in [Procs -> Tinys \cup {NULL}]
  /\ opens \in [Procs -> 0..Calls]
  /\ module \in {"loaded", "closing", "gone", "stuck"}

\* The opens that have been counted, or that failed before: each is a process
\* and a number.
Done == {c \in Procs \X (1..Calls) :
           c[2] <= opens[c[1]] /\ (pc[c[1]] \in Looking => c[2] < opens[c[1]])}

CountInv ==
  /\ \A p \in Procs : pc[p] \in Looking => opens[p] \in 1..Calls
  /\ \A t \in Tinys : open_count[t] <= Cardinality(Done)

(* A quiet port that nobody writes to: the big kernel lock is held from the *)
(* start of a call to its end.                                              *)

Users == {p \in Procs : pc[p] \in Using}

\* What a call has found, at each place.
PortAt(p) ==
  /\ bkl = p <=> pc[p] \notin {"closed", "open"}
  /\ pc[p] \notin {"failed", "wr_down", "wr_up", "dead"}
  /\ pc[p] \in {"op_kmalloc", "op_store"} => tiny_table = NULL
  /\ pc[p] = "op_store" => tiny[p] \in Tinys /\ mem[tiny[p]] = "live"
  /\ pc[p] \in {"op_down", "cl_down"} \cup Locking =>
       tiny[p] = tiny_table /\ tiny_table \in Tinys
  /\ pc[p] \in Using => tiny_table \in Tinys /\ tiny_tty[tiny_table] = "live"

\* What a process knows of the file whose open it has found.
FilesInv ==
  /\ tty = {p \in Procs : pc[p] # "closed"}
  /\ module # "loaded" => tty = {}
  /\ module # "stuck"
  /\ tty # {} /\ (\A p \in Procs : pc[p] \notin Looking) =>
       driver_data = tiny_table /\ tiny_table \in Tinys

SemInv ==
  \A t \in Tinys : sem[t] # NULL =>
    bkl = sem[t] /\ pc[sem[t]] \in Locking /\ tiny[sem[t]] = t

\* The timer of the port goes round from the end of the first open to the last
\* close, and no other does.
Starting == \E p \in Procs : pc[p] = "op_timer"
Goes(t)  == pending[t] \/ running[t] # "no"

TableInv ==
  \A t \in Tinys :
    /\ t # tiny_table => open_count[t] = 0 /\ ~Goes(t)
    /\ t = tiny_table =>
         /\ mem[t] = "live"
         /\ open_count[t] = Cardinality(Users)
         /\ Goes(t) <=> Users # {} /\ ~Starting
         /\ timer[t] \/ \E p \in Procs : pc[p] \in {"op_down", "op_timer"}
    /\ Goes(t) => timer[t]
    /\ ~(pending[t] /\ running[t] # "no")

QuietInv == (\A p \in Procs : PortAt(p)) /\ FilesInv /\ SemInv /\ TableInv
Alone    == Quiet /\ env.writers = {}
-----------------------------------------------------------------------------
(* Types *)

LEMMA TypesInit ==
  ASSUME Init PROVE Types
BY EnvironmentsAssumption, SetsAssumption, CallsAssumption
   DEF Init, Types, Locations

LEMMA LinesTyped ==
  ASSUME env \in Environments PROVE env.lines \subseteq {"DTR", "RTS"}
BY EnvironmentsAssumption

LEMMA CountTyped ==
  ASSUME open_count \in [Tinys -> Nat], NEW t, NEW n,
         open_count' = [open_count EXCEPT ![t] = n], t \in Tinys => n \in Nat
  PROVE  open_count' \in [Tinys -> Nat]
OBVIOUS

LEMMA OpenTypes ==
  ASSUME Types, NEW p \in Procs, OpenCall(p) \/ Open(p)
  PROVE  Types'
<1> USE DEF Types, Goto, Locked, Locations, lock, port, clock, local
<1>1. CASE OpenCall(p)
  <2>1. opens[p] + 1 \in 0..Calls  BY <1>1, CallsAssumption DEF OpenCall
  <2>. QED  BY <1>1, <2>1 DEF OpenCall
<1>2. CASE OpenLook(p)  BY <1>2 DEF OpenLook
<1>3. CASE OpenKmalloc(p)
  <2>1. mcr' \in [Tinys -> SUBSET {"DTR", "RTS"}]
    BY <1>3, LinesTyped DEF OpenKmalloc
  <2>. QED  BY <1>3, <2>1 DEF OpenKmalloc
<1>4. CASE OpenNoMemory(p) \/ OpenStore(p)
  BY <1>4 DEF OpenNoMemory, OpenStore
<1>5. CASE OpenDown(p)
  <2>1. open_count' \in [Tinys -> Nat]
    <3>1. open_count' = [open_count EXCEPT ![tiny[p]] = open_count[tiny[p]] + 1]
      BY <1>5 DEF OpenDown
    <3>2. tiny[p] \in Tinys => open_count[tiny[p]] + 1 \in Nat  OBVIOUS
    <3>. QED  BY <3>1, <3>2, CountTyped
  <2>2. driver_data' \in Tinys \cup {NULL}  BY <1>5 DEF OpenDown, Saved
  <2>. QED  BY <1>5, <2>1, <2>2 DEF OpenDown, Down
<1>6. CASE OpenTimer(p)
  BY <1>6 DEF OpenTimer, Allocated
<1>7. CASE OpenTimerFails(p) \/ OpenUp(p)
  BY <1>7 DEF OpenTimerFails, OpenUp, Up
<1>. QED  BY <1>1, <1>2, <1>3, <1>4, <1>5, <1>6, <1>7 DEF Open

LEMMA CloseTypes ==
  ASSUME Types, NEW p \in Procs,
         CloseCall(p) \/ CloseDown(p) \/ CloseOops(p) \/ CloseUp(p) \/ Release(p)
  PROVE  Types'
<1> USE DEF Types, Goto, Locked, Locations, lock, port, clock, local
<1>1. CASE CloseCall(p)  BY <1>1 DEF CloseCall
<1>2. CASE CloseDown(p) \/ CloseOops(p)
  <2>1. open_count' \in [Tinys -> Nat]
    <3>1. open_count' = [open_count EXCEPT ![tiny[p]] = Left(open_count[tiny[p]])]
      BY <1>2 DEF CloseDown, CloseOops
    <3>2. tiny[p] \in Tinys => Left(open_count[tiny[p]]) \in Nat  BY DEF Left
    <3>. QED  BY <3>1, <3>2, CountTyped
  <2>2. pending' \in [Tinys -> BOOLEAN]  BY <1>2 DEF CloseDown, CloseOops
  <2>. QED  BY <1>2, <2>1, <2>2 DEF CloseDown, CloseOops, Down
<1>3. CASE CloseUp(p)  BY <1>3 DEF CloseUp, Up
<1>4. CASE Release(p)  BY <1>4 DEF Release
<1>. QED  BY <1>1, <1>2, <1>3, <1>4

LEMMA OtherTypes ==
  ASSUME Types,
         \/ \E p \in Procs : \/ WriteCall(p) \/ Write(p) \/ Sleeps(p)
                              \/ \E set, clear \in SUBSET env.lines : TiocmSet(p, set, clear)
         \/ \E t \in Tinys : Timer(t)
         \/ ExitClose \/ ExitFree
  PROVE  Types'
<1> USE DEF Types, Goto, Locations, lock, port, clock, local
<1>1. ASSUME NEW p \in Procs, WriteCall(p) \/ Write(p) \/ Sleeps(p) PROVE Types'
  BY <1>1 DEF WriteCall, Write, WriteDown, WriteUp, Down, Up, Sleeps
<1>2. ASSUME NEW p \in Procs, NEW set, NEW clear, TiocmSet(p, set, clear) PROVE Types'
  BY <1>2 DEF TiocmSet
<1>3. ASSUME NEW t \in Tinys, Timer(t) PROVE Types'
  BY <1>3 DEF Timer, TimerCall, TimerPush, TimerAgain, Submitted
<1>4. CASE ExitClose
  <2>1. pending' \in [Tinys -> BOOLEAN]  BY <1>4 DEF ExitClose
  <2>. QED  BY <1>4, <2>1 DEF ExitClose
<1>5. CASE ExitFree
  <2>1. timer' \in [Tinys -> BOOLEAN]  BY <1>5 DEF ExitFree
  <2>. QED  BY <1>5, <2>1 DEF ExitFree
<1>. QED  BY <1>1, <1>2, <1>3, <1>4, <1>5
-----------------------------------------------------------------------------
(* How often a port was opened *)

LEMMA DoneFinite ==
  ASSUME Types, NEW D, D \subseteq Procs \X (1..Calls)
  PROVE  IsFiniteSet(D) /\ Cardinality(D) <= Calls * Cardinality(Procs)
         /\ Cardinality(D) \in Nat
<1>1. IsFiniteSet(1..Calls) /\ Cardinality(1..Calls) = Calls
  BY CallsAssumption, FS_Interval
<1>2. /\ IsFiniteSet(Procs \X (1..Calls))
      /\ Cardinality(Procs \X (1..Calls)) = Cardinality(Procs) * Cardinality(1..Calls)
  BY <1>1, SetsAssumption, FS_Product
<1>3. /\ IsFiniteSet(D) /\ Cardinality(D) <= Cardinality(Procs \X (1..Calls))
  BY <1>2, FS_Subset
<1>4. Cardinality(Procs) * Calls = Calls * Cardinality(Procs)
  BY SetsAssumption, CallsAssumption, FS_CardinalityType
<1>. QED  BY <1>1, <1>2, <1>3, <1>4, FS_CardinalityType

\* Which opens are counted changes with those of one process.
LEMMA DoneGrows ==
  ASSUME Types, Types', NEW p \in Procs,
         \A q \in Procs \ {p} : pc'[q] = pc[q] /\ opens'[q] = opens[q],
         \/ opens'[p] = opens[p] /\ (pc'[p] \in Looking => pc[p] \in Looking)
         \/ opens'[p] = opens[p] + 1 /\ pc[p] \notin Looking
  PROVE  Cardinality(Done) <= Cardinality(Done')
<1>1. Done \subseteq Done'
  <2> SUFFICES ASSUME NEW c \in Done PROVE c \in Done'  OBVIOUS
  <2>1. c[1] \in Procs /\ c[2] \in 1..Calls  BY DEF Done
  <2>2. CASE c[1] = p  BY <2>1, <2>2 DEF Done, Types
  <2>3. CASE c[1] # p  BY <2>1, <2>3 DEF Done
  <2>. QED  BY <2>2, <2>3
<1>2. Done' \subseteq Procs \X (1..Calls)  BY DEF Done
<1>3. IsFiniteSet(Done')  BY <1>2, DoneFinite
<1>. QED  BY <1>1, <1>3, FS_Subset

LEMMA CountInit ==
  ASSUME Init PROVE CountInv
<1>1. Types  BY TypesInit
<1>2. Done \subseteq Procs \X (1..Calls)  BY DEF Done
<1>3. Cardinality(Done) \in Nat  BY <1>1, <1>2, DoneFinite
<1>. QED  BY <1>3 DEF CountInv, Init, Looking

LEMMA CountStep ==
  ASSUME Types, CountInv, Types', Next
  PROVE  CountInv'
<1>1. Cardinality(Done) \in Nat /\ Cardinality(Done') \in Nat
  <2>1. Done \subseteq Procs \X (1..Calls) /\ Done' \subseteq Procs \X (1..Calls)
    BY DEF Done
  <2>. QED  BY <2>1, DoneFinite
<1> USE DEF Types, Goto, Locations, Looking, lock, port, clock, local
<1>2. ASSUME NEW p \in Procs, OpenCall(p) PROVE CountInv'
  <2>1. pc' = [pc EXCEPT ![p] = "op_init"] /\ pc[p] = "closed"
        /\ opens' = [opens EXCEPT ![p] = opens[p] + 1] /\ UNCHANGED open_count
    BY <1>2 DEF OpenCall
  <2>2. \A q \in Procs : pc'[q] \in Looking => opens'[q] \in 1..Calls
    BY <2>1, CallsAssumption DEF CountInv
  <2>3. Cardinality(Done) <= Cardinality(Done')  BY <2>1, DoneGrows
  <2>. QED  BY <1>1, <2>1, <2>2, <2>3 DEF CountInv
<1>3. ASSUME NEW p \in Procs, OpenDown(p) PROVE CountInv'
  <2>1. pc[p] = "op_down" /\ pc'[p] \in {"op_timer", "op_up"} /\ UNCHANGED opens
        /\ \A q \in Procs \ {p} : pc'[q] = pc[q]
    BY <1>3 DEF OpenDown
  <2>2. Cardinality(Done') = Cardinality(Done) + 1
    <3> DEFINE c == <<p, opens[p]>>
    <3>1. c \in Procs \X (1..Calls)  BY <2>1 DEF CountInv
    <3>2. Done' = Done \cup {c}
      <4>1. ASSUME NEW d \in Procs \X (1..Calls)
            PROVE  d \in Done' <=> d \in Done \/ d = c
        <5>1. CASE d[1] = p
          <6>1. d = <<p, d[2]>>  BY <5>1
          <6>2. d \in Done' <=> d[2] <= opens[p]  BY <2>1, <5>1 DEF Done
          <6>3. d \in Done <=> d[2] < opens[p]  BY <2>1, <5>1 DEF Done
          <6>4. d[2] \in Nat /\ opens[p] \in Nat  BY CallsAssumption
          <6>. QED  BY <6>1, <6>2, <6>3, <6>4
        <5>2. CASE d[1] # p  BY <2>1, <5>2 DEF Done
        <5>. QED  BY <5>1, <5>2
      <4>. QED  BY <3>1, <4>1 DEF Done
    <3>3. c \notin Done  BY <2>1 DEF Done
    <3>4. IsFiniteSet(Done)
      <4>1. Done \subseteq Procs \X (1..Calls)  BY DEF Done
      <4>. QED  BY <4>1, DoneFinite
    <3>. QED  BY <3>2, <3>3, <3>4, FS_AddElement
  <2>3. \A t \in Tinys : open_count'[t] <= open_count[t] + 1
    <3>1. open_count' = [open_count EXCEPT ![tiny[p]] = open_count[tiny[p]] + 1]
      BY <1>3 DEF OpenDown
    <3>. QED  BY <3>1
  <2>4. \A t \in Tinys : open_count'[t] \in Nat /\ open_count[t] \in Nat  OBVIOUS
  <2>. QED  BY <1>1, <2>1, <2>2, <2>3, <2>4 DEF CountInv
<1>4. ASSUME NEW p \in Procs, UNCHANGED opens,
             \A q \in Procs \ {p} : pc'[q] = pc[q],
             pc'[p] \in Looking => pc[p] \in Looking,
             \A t \in Tinys : open_count'[t] <= open_count[t]
      PROVE  CountInv'
  <2>1. Cardinality(Done) <= Cardinality(Done')  BY <1>4, DoneGrows
  <2>2. \A t \in Tinys : open_count'[t] \in Nat /\ open_count[t] \in Nat  OBVIOUS
  <2>. QED  BY <1>1, <1>4, <2>1, <2>2 DEF CountInv
<1>5. ASSUME NEW p \in Procs,
             \/ OpenLook(p) \/ OpenKmalloc(p) \/ OpenNoMemory(p) \/ OpenStore(p)
             \/ OpenTimer(p) \/ OpenTimerFails(p) \/ OpenUp(p)
             \/ CloseCall(p) \/ CloseUp(p) \/ Release(p)
             \/ WriteCall(p) \/ Write(p) \/ Sleeps(p)
             \/ \E set, clear : TiocmSet(p, set, clear)
      PROVE  CountInv'
  <2>1. /\ UNCHANGED <<opens, open_count>>
        /\ \A q \in Procs \ {p} : pc'[q] = pc[q]
        /\ pc'[p] \in Looking => pc[p] \in Looking
    BY <1>5 DEF OpenLook, OpenKmalloc, OpenNoMemory, OpenStore, OpenTimer,
         OpenTimerFails, OpenUp, CloseCall, CloseUp, Release, WriteCall, Write,
         WriteDown, WriteUp, Sleeps, TiocmSet
  <2>. QED  BY <1>4, <2>1
<1>6. ASSUME NEW p \in Procs, CloseDown(p) \/ CloseOops(p) PROVE CountInv'
  <2>1. open_count' = [open_count EXCEPT ![tiny[p]] = Left(open_count[tiny[p]])]
    BY <1>6 DEF CloseDown, CloseOops
  <2>2. \A n \in Nat : Left(n) <= n  BY DEF Left
  <2>3. \A t \in Tinys : open_count'[t] <= open_count[t]  BY <2>1, <2>2
  <2>. QED  BY <1>4, <1>6, <2>3 DEF CloseDown, CloseOops
<1>7. CASE \/ \E t \in Tinys : Timer(t)
           \/ ExitClose \/ ExitFree
  <2>1. UNCHANGED <<opens, pc>> /\ \A t \in Tinys : open_count'[t] <= open_count[t]
    BY <1>7 DEF Timer, TimerCall, TimerPush, TimerAgain, ExitClose, ExitFree
  <2>2. Done' = Done  BY <2>1 DEF Done
  <2>3. \A t \in Tinys : open_count'[t] \in Nat /\ open_count[t] \in Nat  OBVIOUS
  <2>. QED  BY <1>1, <2>1, <2>2, <2>3 DEF CountInv
<1>. QED  BY <1>2, <1>3, <1>5, <1>6, <1>7 DEF Next, Kernel, Open, Close
-----------------------------------------------------------------------------
(* A quiet port *)

LEMMA UsersFinite ==
  /\ IsFiniteSet(Users) /\ Cardinality(Users) \in Nat
  /\ Cardinality(Users) = 0 <=> Users = {}
<1>1. IsFiniteSet(Users)  BY SetsAssumption, FS_Subset DEF Users
<1>. QED  BY <1>1, FS_CardinalityType, FS_EmptySet

LEMMA UsersKept ==
  ASSUME NEW p \in Procs, \A q \in Procs \ {p} : pc'[q] = pc[q],
         pc'[p] \in Using <=> pc[p] \in Using
  PROVE  Users' = Users
BY DEF Users

LEMMA UsersJoin ==
  ASSUME NEW p \in Procs, \A q \in Procs \ {p} : pc'[q] = pc[q],
         pc[p] \notin Using, pc'[p] \in Using
  PROVE  Cardinality(Users') = Cardinality(Users) + 1 /\ p \in Users'
<1>1. Users' = Users \cup {p} /\ p \notin Users  BY DEF Users
<1>. QED  BY <1>1, UsersFinite, FS_AddElement

LEMMA UsersLeave ==
  ASSUME NEW p \in Procs, \A q \in Procs \ {p} : pc'[q] = pc[q],
         pc[p] \in Using, pc'[p] \notin Using
  PROVE  /\ Cardinality(Users') = Cardinality(Users) - 1
         /\ Users' = {} <=> Cardinality(Users) = 1
         /\ Cardinality(Users) \in Nat \ {0}
<1>1. Users' = Users \ {p} /\ p \in Users  BY DEF Users
<1>2. Cardinality(Users') = Cardinality(Users) - 1
  BY <1>1, UsersFinite, FS_RemoveElement
<1>3. IsFiniteSet(Users')  BY <1>1, UsersFinite, FS_Subset
<1>4. Cardinality(Users') = 0 <=> Users' = {}  BY <1>3, FS_EmptySet
<1>5. Cardinality(Users) \in Nat /\ Cardinality(Users) # 0  BY <1>1, UsersFinite
<1>. QED  BY <1>2, <1>4, <1>5

\* Who moves under the big kernel lock is alone in the driver, and on one
\* processor the timer is not running.
LEMMA Rest ==
  ASSUME Types, \A q \in Procs : PortAt(q), NEW p \in Procs, bkl \in {p, NULL}
  PROVE  \A q \in Procs \ {p} : pc[q] \in {"closed", "open"}
BY SetsAssumption DEF PortAt

LEMMA NoTimer ==
  ASSUME Alone, NEW p, NEW from, NEW to, Goto(p, from, to)
  PROVE  \A t \in Tinys : running[t] = "no"
BY DEF Alone, Quiet, Goto

LEMMA QuietInit ==
  ASSUME Init PROVE QuietInv
<1>1. Users = {}  BY DEF Init, Users, Using
<1>. QED  BY <1>1, SetsAssumption
          DEF Init, QuietInv, PortAt, FilesInv, SemInv, TableInv, Looking, Locking,
              Using, Goes

LEMMA LookStep ==
  ASSUME Types, Alone, QuietInv, NEW p \in Procs,
         OpenCall(p) \/ OpenLook(p) \/ OpenKmalloc(p)
  PROVE  QuietInv'
<1> USE DEF Locked, lock, port, clock, local, Looking, Locking, Using
<1>1. /\ \A q \in Procs \ {p} : /\ pc'[q] = pc[q] /\ tiny'[q] = tiny[q]
                               /\ pc[q] \in {"closed", "open"}
      /\ bkl' = p /\ bkl \in {p, NULL}
      /\ pc[p] \in {"closed", "op_init", "op_kmalloc"} /\ pc'[p] \in Looking
      /\ UNCHANGED <<sem, tiny_table, tiny_tty, open_count, timer, pending, running, module>>
  <2>1. /\ bkl' = p /\ bkl \in {p, NULL}
        /\ pc[p] \in {"closed", "op_init", "op_kmalloc"} /\ pc'[p] \in Looking
        /\ \A q \in Procs \ {p} : pc'[q] = pc[q] /\ tiny'[q] = tiny[q]
        /\ UNCHANGED <<sem, tiny_table, tiny_tty, open_count, timer, pending, running, module>>
    BY DEF Types, OpenCall, OpenLook, OpenKmalloc, Goto
  <2>. QED  BY <2>1, Rest DEF QuietInv
<1>2. Users' = Users  BY <1>1, UsersKept
<1>3. \A q \in Procs : PortAt(q)'
  <2>1. PortAt(p)'
    <3>1. PortAt(p)  BY DEF QuietInv
    <3>. QED  BY <3>1, <1>1 DEF PortAt, OpenCall, OpenLook, OpenKmalloc, Goto, Types
  <2>2. ASSUME NEW q \in Procs \ {p} PROVE PortAt(q)'
    <3>1. PortAt(q)  BY DEF QuietInv
    <3>. QED  BY <3>1, <1>1, <2>2 DEF PortAt
  <2>. QED  BY <2>1, <2>2
<1>4. FilesInv'
  <2>1. tty' = {q \in Procs : pc'[q] # "closed"}
    <3>1. tty' = IF pc[p] = "closed" THEN tty \cup {p} ELSE tty
      BY DEF OpenCall, OpenLook, OpenKmalloc, Goto
    <3>. QED  BY <3>1, <1>1 DEF QuietInv, FilesInv
  <2>2. module = "loaded"
    <3>1. pc[p] # "closed" => tty # {}  BY DEF QuietInv, FilesInv
    <3>. QED  BY <3>1 DEF OpenCall, OpenLook, OpenKmalloc, Goto, QuietInv, FilesInv
  <2>. QED  BY <2>1, <2>2, <1>1 DEF FilesInv
<1>5. SemInv'
  <2> SUFFICES ASSUME NEW t \in Tinys, sem'[t] # NULL
               PROVE  bkl' = sem'[t] /\ pc'[sem'[t]] \in Locking /\ tiny'[sem'[t]] = t
    BY DEF SemInv
  <2>1. bkl = sem[t] /\ pc[sem[t]] \in Locking  BY <1>1 DEF QuietInv, SemInv
  <2>. QED  BY <1>1, <2>1
<1>6. TableInv'
  <2>1. Starting' <=> Starting  BY <1>1 DEF Starting
  <2>2. ASSUME NEW t \in Tinys, t = tiny_table
        PROVE  mem'[t] = "live" /\ pc[p] # "op_kmalloc"
    <3>1. PortAt(p) /\ mem[t] = "live"  BY <2>2 DEF QuietInv, TableInv
    <3>2. pc[p] # "op_kmalloc"  BY <2>2, <3>1, SetsAssumption DEF PortAt
    <3>. QED  BY <3>1, <3>2 DEF OpenCall, OpenLook, OpenKmalloc, Goto
  <2>3. (\E q \in Procs : pc[q] \in {"op_down", "op_timer"})
          => \E q \in Procs : pc'[q] \in {"op_down", "op_timer"}
    BY <1>1
  <2>. QED  BY <1>1, <1>2, <2>1, <2>2, <2>3 DEF QuietInv, TableInv, Goes
<1>. QED  BY <1>3, <1>4, <1>5, <1>6 DEF QuietInv

\* The new tiny_serial is unused until it is in the table.
LEMMA StoreStep ==
  ASSUME Types, Alone, QuietInv, NEW p \in Procs, OpenStore(p)
  PROVE  QuietInv'
<1> USE DEF Locked, lock, port, clock, local, Looking, Locking, Using
<1>1. /\ \A q \in Procs \ {p} : pc'[q] = pc[q] /\ pc[q] \in {"closed", "open"}
      /\ bkl' = p /\ bkl = p /\ pc[p] = "op_store" /\ pc'[p] = "op_down"
      /\ tiny_table = NULL /\ tiny_table' = tiny[p] /\ tiny[p] \in Tinys
      /\ mem[tiny[p]] = "live"
      /\ UNCHANGED <<tty, driver_data, sem, mem, tiny, tiny_tty, open_count, timer,
                     pending, running, module>>
  <2>1. PortAt(p)  BY DEF QuietInv
  <2>2. bkl \in {p, NULL} /\ bkl' = p /\ pc[p] = "op_store" /\ pc'[p] = "op_down"
        /\ \A q \in Procs \ {p} : pc'[q] = pc[q]
    BY DEF Types, OpenStore, Goto
  <2>3. \A q \in Procs \ {p} : pc[q] \in {"closed", "open"}  BY <2>2, Rest DEF QuietInv
  <2>. QED  BY <2>1, <2>2, <2>3 DEF OpenStore, PortAt
<1>2. Users = {} /\ Users' = {}
  <2>1. \A q \in Procs : pc[q] \notin Using
    BY <1>1, SetsAssumption DEF QuietInv, PortAt
  <2>. QED  BY <1>1, <2>1 DEF Users
<1>3. \A q \in Procs : PortAt(q)'
  <2>1. PortAt(p)'  BY <1>1 DEF PortAt
  <2>2. ASSUME NEW q \in Procs \ {p} PROVE PortAt(q)'
    <3>1. PortAt(q)  BY DEF QuietInv
    <3>. QED  BY <3>1, <1>1, SetsAssumption DEF PortAt
  <2>. QED  BY <2>1, <2>2
<1>4. FilesInv'
  <2>1. tty = {q \in Procs : pc[q] # "closed"} /\ (module # "loaded" => tty = {})
      /\ module # "stuck"
    BY DEF QuietInv, FilesInv
  <2>2. tty' = {q \in Procs : pc'[q] # "closed"}  BY <1>1, <2>1
  <2>. QED  BY <1>1, <2>1, <2>2 DEF FilesInv
<1>5. SemInv'
  <2>1. \A t \in Tinys : sem[t] = NULL  BY <1>1 DEF QuietInv, SemInv
  <2>. QED  BY <1>1, <2>1 DEF SemInv
<1>6. TableInv'
  <2>1. \A t \in Tinys : open_count[t] = 0 /\ ~Goes(t)
    BY <1>1, SetsAssumption DEF QuietInv, TableInv
  <2>2. Cardinality(Users') = 0  BY <1>2, FS_EmptySet
  <2>. QED  BY <1>1, <1>2, <2>1, <2>2 DEF TableInv, Goes
<1>. QED  BY <1>3, <1>4, <1>5, <1>6 DEF QuietInv

\* The process with the big kernel lock holds no semaphore, or has just this one.
LEMMA SemFree ==
  ASSUME Types, SemInv, NEW p \in Procs, bkl \in {p, NULL}, pc[p] \notin Locking
  PROVE  \A t \in Tinys : sem[t] = NULL
BY SetsAssumption DEF SemInv, Types

LEMMA DownStep ==
  ASSUME Types, Alone, QuietInv, NEW p \in Procs, OpenDown(p)
  PROVE  QuietInv'
<1> USE DEF Locked, lock, port, clock, local, Looking, Locking, Using
<1>1. PICK t \in Tinys : t = tiny[p] /\ t = tiny_table
  BY DEF QuietInv, PortAt, OpenDown
<1>2. PICK to \in {"op_timer", "op_up"} :
        /\ pc' = [pc EXCEPT ![p] = to]
        /\ to = IF open_count[t] = 0 THEN "op_timer" ELSE "op_up"
  BY <1>1 DEF OpenDown, Goto, FirstOpen
<1>3. /\ pc[p] = "op_down" /\ pc'[p] = to /\ bkl = p /\ bkl' = p
      /\ \A q \in Procs \ {p} : pc'[q] = pc[q]
      /\ \A r \in Tinys : running[r] = "no"
      /\ sem' = [sem EXCEPT ![t] = p] /\ driver_data' = t
      /\ tiny_tty' = [tiny_tty EXCEPT ![t] = "live"]
      /\ open_count' = [open_count EXCEPT ![t] = open_count[t] + 1]
      /\ UNCHANGED <<tty, tiny_table, mem, tiny, timer, pending, running, module>>
  BY <1>1, <1>2, NoTimer DEF OpenDown, Down, Saved, Types, QuietInv, PortAt
<1>4. \A q \in Procs \ {p} : pc[q] \in {"closed", "open"}  BY <1>3, Rest DEF QuietInv
<1>5. /\ Cardinality(Users') = Cardinality(Users) + 1 /\ p \in Users'
      /\ open_count[t] = Cardinality(Users)
      /\ open_count[t] = 0 <=> Users = {}
  <2>1. Cardinality(Users') = Cardinality(Users) + 1 /\ p \in Users'
    BY <1>3, UsersJoin
  <2>2. open_count[t] = Cardinality(Users)  BY <1>1 DEF QuietInv, TableInv
  <2>. QED  BY <2>1, <2>2, UsersFinite
<1>6. \A q \in Procs : PortAt(q)'
  <2>1. PortAt(p)'
    <3>1. /\ pc'[p] \in {"op_timer", "op_up"} /\ bkl' = p
          /\ tiny'[p] = tiny_table' /\ tiny_table' \in Tinys
      BY <1>1, <1>3
    <3>2. tiny_tty'[tiny_table'] = "live"  BY <1>1, <1>3 DEF Types
    <3>. QED  BY <3>1, <3>2 DEF PortAt
  <2>2. ASSUME NEW q \in Procs \ {p} PROVE PortAt(q)'
    <3>1. PortAt(q)  BY DEF QuietInv
    <3>. QED  BY <3>1, <1>1, <1>3, <1>4 DEF PortAt, Types
  <2>. QED  BY <2>1, <2>2
<1>7. FilesInv'
  <2>1. tty = {q \in Procs : pc[q] # "closed"} /\ (module # "loaded" => tty = {})
      /\ module # "stuck"
    BY DEF QuietInv, FilesInv
  <2>2. tty' = {q \in Procs : pc'[q] # "closed"}  BY <1>3, <2>1
  <2>. QED  BY <1>1, <1>3, <2>1, <2>2 DEF FilesInv
<1>8. SemInv'
  <2>1. \A r \in Tinys : sem[r] = NULL  BY <1>3, SemFree DEF QuietInv
  <2>2. \A r \in Tinys : sem'[r] = IF r = t THEN p ELSE NULL  BY <1>3, <2>1 DEF Types
  <2>. QED  BY <1>1, <1>3, <2>2 DEF SemInv
<1>9. TableInv'
  <2>1. ~Starting  BY <1>3, <1>4 DEF Starting
  <2>2. Starting' <=> to = "op_timer"  BY <1>3, <1>4 DEF Starting
  <2>3. Goes(t) <=> Users # {}  BY <1>1, <2>1 DEF QuietInv, TableInv
  <2>4. \A r \in Tinys : Goes(r)' <=> Goes(r)  BY <1>3 DEF Goes
  <2>5. ASSUME NEW r \in Tinys, r # t
        PROVE  open_count'[r] = 0 /\ ~Goes(r)'
    BY <1>1, <1>3, <2>4, <2>5 DEF QuietInv, TableInv, Types
  <2>6. /\ mem'[t] = "live" /\ open_count'[t] = Cardinality(Users')
        /\ Goes(t)' <=> Users' # {} /\ ~Starting'
    BY <1>1, <1>2, <1>3, <1>5, <2>2, <2>3, <2>4 DEF QuietInv, TableInv, Types
  <2>7. timer'[t] \/ \E q \in Procs : pc'[q] \in {"op_down", "op_timer"}
    <3>1. CASE to = "op_timer"  BY <1>3, <3>1
    <3>2. CASE to = "op_up"
      BY <1>2, <1>3, <1>5, <2>3, <3>2 DEF QuietInv, TableInv
    <3>. QED  BY <3>1, <3>2
  <2>8. \A r \in Tinys : (Goes(r)' => timer'[r]) /\ ~(pending'[r] /\ running'[r] # "no")
    BY <1>3, <2>4 DEF QuietInv, TableInv
  <2>. QED  BY <1>1, <1>3, <2>5, <2>6, <2>7, <2>8 DEF TableInv
<1>. QED  BY <1>6, <1>7, <1>8, <1>9 DEF QuietInv

\* The timer is added after all else is there.
LEMMA TimerStep ==
  ASSUME Types, Alone, QuietInv, NEW p \in Procs, OpenTimer(p)
  PROVE  QuietInv'
<1> USE DEF Locked, lock, port, clock, local, Looking, Locking, Using
<1>1. PICK t \in Tinys : t = tiny[p] /\ t = tiny_table
  BY DEF QuietInv, PortAt, OpenTimer, Goto
<1>2. /\ pc[p] = "op_timer" /\ pc'[p] = "op_up" /\ bkl = p /\ bkl' = p
      /\ \A q \in Procs \ {p} : pc'[q] = pc[q]
      /\ \A r \in Tinys : running[r] = "no"
      /\ timer' = [timer EXCEPT ![t] = TRUE] /\ pending' = [pending EXCEPT ![t] = TRUE]
      /\ UNCHANGED <<tty, driver_data, tiny_table, mem, tiny_tty, sem, open_count,
                     running, tiny, module>>
  <2>1. PortAt(p)  BY DEF QuietInv
  <2>2. /\ pc[p] = "op_timer" /\ pc'[p] = "op_up"
        /\ \A q \in Procs \ {p} : pc'[q] = pc[q]
    BY DEF OpenTimer, Goto, Types
  <2>3. bkl = p /\ bkl' = p  BY <2>1, <2>2 DEF PortAt, OpenTimer
  <2>4. \A r \in Tinys : running[r] = "no"  BY NoTimer DEF OpenTimer
  <2>. QED  BY <1>1, <2>2, <2>3, <2>4 DEF OpenTimer, Allocated
<1>3. \A q \in Procs \ {p} : pc[q] \in {"closed", "open"}  BY <1>2, Rest DEF QuietInv
<1>4. Users' = Users /\ p \in Users
  BY <1>2, UsersKept DEF Users
<1>5. \A q \in Procs : PortAt(q)'
  <2>1. PortAt(p) /\ PortAt(p)'  BY <1>1, <1>2 DEF PortAt, QuietInv
  <2>2. ASSUME NEW q \in Procs \ {p} PROVE PortAt(q)'
    <3>1. PortAt(q)  BY DEF QuietInv
    <3>. QED  BY <3>1, <1>2, <1>3 DEF PortAt
  <2>. QED  BY <2>1, <2>2
<1>6. FilesInv'
  <2>1. tty = {q \in Procs : pc[q] # "closed"} /\ (module # "loaded" => tty = {})
      /\ module # "stuck" /\ driver_data = tiny_table
    BY <1>2, <1>3 DEF QuietInv, FilesInv
  <2>2. tty' = {q \in Procs : pc'[q] # "closed"}  BY <1>2, <2>1
  <2>. QED  BY <1>1, <1>2, <2>1, <2>2 DEF FilesInv
<1>7. SemInv'
  <2>1. \A r \in Tinys : sem[r] \in {p, NULL}  BY <1>2 DEF QuietInv, SemInv
  <2>. QED  BY <1>2, <2>1, SetsAssumption DEF QuietInv, SemInv
<1>8. TableInv'
  <2>1. ~Starting'  BY <1>2, <1>3 DEF Starting
  <2>2. ASSUME NEW r \in Tinys, r # t
        PROVE  open_count'[r] = 0 /\ ~Goes(r)'
    BY <1>1, <1>2, <2>2 DEF QuietInv, TableInv, Types, Goes
  <2>3. Goes(t)' /\ timer'[t] /\ running'[t] = "no"  BY <1>2 DEF Types, Goes
  <2>4. mem[t] = "live" /\ open_count[t] = Cardinality(Users)
    BY <1>1 DEF QuietInv, TableInv
  <2>5. \A r \in Tinys : running'[r] = "no"  BY <1>2
  <2>. QED  BY <1>1, <1>2, <1>4, <2>1, <2>2, <2>3, <2>4, <2>5 DEF TableInv
<1>. QED  BY <1>5, <1>6, <1>7, <1>8 DEF QuietInv

\* What ends a call, or begins its end, without a change of who uses the port.
LEMMA UpStep ==
  ASSUME Types, Alone, QuietInv, NEW p \in Procs,
         OpenUp(p) \/ CloseCall(p) \/ CloseUp(p)
  PROVE  QuietInv'
<1> USE DEF Locked, lock, port, clock, local, Looking, Locking, Using
<1>1. /\ bkl \in {p, NULL}
      /\ \A q \in Procs \ {p} : pc'[q] = pc[q] /\ tiny'[q] = tiny[q]
      /\ pc[p] \in {"op_up", "open", "cl_up"}
      /\ UNCHANGED <<tty, driver_data, tiny_table, mem, tiny_tty, open_count, timer,
                     pending, running, module>>
  <2>1. pc[p] # "failed"  BY DEF QuietInv, PortAt
  <2>. QED  BY <2>1 DEF OpenUp, CloseCall, CloseUp, Goto, Types
<1>2. \A q \in Procs \ {p} : pc[q] \in {"closed", "open"}  BY <1>1, Rest DEF QuietInv
<1>3. tty = {q \in Procs : pc[q] # "closed"} /\ driver_data = tiny_table
      /\ tiny_table \in Tinys /\ module = "loaded"
  BY <1>1, <1>2 DEF QuietInv, FilesInv
<1>4. \/ pc[p] = "op_up" /\ pc'[p] = "open" /\ bkl' = NULL /\ UNCHANGED tiny
      \/ pc[p] = "open" /\ pc'[p] = "cl_down" /\ bkl' = p /\ tiny'[p] = tiny_table
      \/ pc[p] = "cl_up" /\ pc'[p] = "release" /\ bkl' = p /\ UNCHANGED tiny
  BY <1>1, <1>3, SetsAssumption DEF OpenUp, CloseCall, CloseUp, Goto, Types
<1>5. Users' = Users  BY <1>1, <1>4, UsersKept
<1>6. \A q \in Procs : PortAt(q)'
  <2>1. PortAt(p)'
    <3>1. PortAt(p)  BY DEF QuietInv
    <3>. QED  BY <3>1, <1>1, <1>3, <1>4, SetsAssumption DEF PortAt
  <2>2. ASSUME NEW q \in Procs \ {p} PROVE PortAt(q)'
    <3>1. PortAt(q)  BY DEF QuietInv
    <3>. QED  BY <3>1, <1>1, <1>2, <1>4, SetsAssumption DEF PortAt
  <2>. QED  BY <2>1, <2>2
<1>7. FilesInv'
  <2>1. tty' = {q \in Procs : pc'[q] # "closed"}  BY <1>1, <1>3, <1>4
  <2>. QED  BY <1>1, <1>3, <2>1 DEF FilesInv
<1>8. SemInv'
  <2> SUFFICES ASSUME NEW t \in Tinys PROVE sem'[t] = NULL  BY DEF SemInv
  <2>1. CASE pc[p] = "open"
    <3>1. sem[t] = NULL  BY <1>1, <2>1, SemFree DEF QuietInv
    <3>. QED  BY <2>1, <3>1 DEF OpenUp, CloseCall, CloseUp, Goto
  <2>2. CASE pc[p] # "open"
    <3>1. tiny[p] = tiny_table  BY <1>1, <2>2 DEF QuietInv, PortAt
    <3>2. sem[t] # NULL => sem[t] = p /\ tiny[p] = t
      BY <1>1, SetsAssumption DEF QuietInv, SemInv
    <3>3. sem' = [sem EXCEPT ![tiny[p]] = NULL]
      BY <2>2, <1>1 DEF OpenUp, CloseCall, CloseUp, Goto, Up
    <3>. QED  BY <3>2, <3>3 DEF Types
  <2>. QED  BY <2>1, <2>2
<1>9. TableInv'
  <2>1. (Starting' <=> Starting) /\ (\A r \in Tinys : Goes(r)' <=> Goes(r))
    BY <1>1, <1>4 DEF Starting, Goes
  <2>2. (\E q \in Procs : pc[q] \in {"op_down", "op_timer"})
          => \E q \in Procs : pc'[q] \in {"op_down", "op_timer"}
    BY <1>1, <1>4
  <2>. QED  BY <1>1, <1>5, <2>1, <2>2 DEF QuietInv, TableInv
<1>. QED  BY <1>6, <1>7, <1>8, <1>9 DEF QuietInv

\* The last close finds the timer in the list, where it waits.
LEMMA LeaveStep ==
  ASSUME Types, Alone, QuietInv, NEW p \in Procs, CloseDown(p)
  PROVE  QuietInv'
<1> USE DEF Locked, lock, port, clock, local, Looking, Locking, Using
<1>1. PICK t \in Tinys : t = tiny[p] /\ t = tiny_table
  BY DEF QuietInv, PortAt, CloseDown, Goto
<1>2. /\ pc[p] = "cl_down" /\ pc'[p] = "cl_up" /\ bkl = p /\ bkl' = p
      /\ \A q \in Procs \ {p} : pc'[q] = pc[q]
      /\ \A r \in Tinys : running[r] = "no"
      /\ sem' = [sem EXCEPT ![t] = p]
      /\ open_count' = [open_count EXCEPT ![t] = Left(open_count[t])]
      /\ pending' = [pending EXCEPT ![t] = pending[t] /\ ~LastClose(open_count[t])]
      /\ UNCHANGED <<tty, driver_data, tiny_table, mem, tiny_tty, timer, running,
                     tiny, module>>
  <2>1. PortAt(p)  BY DEF QuietInv
  <2>2. /\ pc[p] = "cl_down" /\ pc'[p] = "cl_up"
        /\ \A q \in Procs \ {p} : pc'[q] = pc[q]
    BY DEF CloseDown, Goto, Types
  <2>3. bkl = p /\ bkl' = p  BY <2>1, <2>2 DEF PortAt, CloseDown
  <2>4. \A r \in Tinys : running[r] = "no"  BY NoTimer DEF CloseDown
  <2>. QED  BY <1>1, <2>2, <2>3, <2>4 DEF CloseDown, Down
<1>3. \A q \in Procs \ {p} : pc[q] \in {"closed", "open"}  BY <1>2, Rest DEF QuietInv
<1>4. /\ Cardinality(Users') = Cardinality(Users) - 1
      /\ Users' = {} <=> Cardinality(Users) = 1
      /\ Cardinality(Users) \in Nat \ {0} /\ p \in Users
  <2>1. pc[p] \in Using /\ pc'[p] \notin Using  BY <1>2
  <2>. QED  BY <1>2, <2>1, UsersLeave DEF Users
<1>5. \A q \in Procs : PortAt(q)'
  <2>1. PortAt(p)'
    <3>1. /\ pc'[p] = "cl_up" /\ bkl' = p
          /\ tiny'[p] = tiny_table' /\ tiny_table' \in Tinys
      BY <1>1, <1>2
    <3>. QED  BY <3>1 DEF PortAt
  <2>2. ASSUME NEW q \in Procs \ {p} PROVE PortAt(q)'
    <3>1. PortAt(q)  BY DEF QuietInv
    <3>. QED  BY <3>1, <1>2, <1>3 DEF PortAt
  <2>. QED  BY <2>1, <2>2
<1>6. FilesInv'
  <2>1. tty = {q \in Procs : pc[q] # "closed"} /\ (module # "loaded" => tty = {})
      /\ module # "stuck" /\ driver_data = tiny_table
    BY <1>2, <1>3 DEF QuietInv, FilesInv
  <2>2. tty' = {q \in Procs : pc'[q] # "closed"}  BY <1>2, <2>1
  <2>. QED  BY <1>1, <1>2, <2>1, <2>2 DEF FilesInv
<1>7. SemInv'
  <2>1. \A r \in Tinys : sem[r] = NULL  BY <1>2, SemFree DEF QuietInv
  <2>2. \A r \in Tinys : sem'[r] = IF r = t THEN p ELSE NULL  BY <1>2, <2>1 DEF Types
  <2>. QED  BY <1>1, <1>2, <2>2 DEF SemInv
<1>8. TableInv'
  <2>1. ~Starting /\ ~Starting'  BY <1>2, <1>3 DEF Starting
  <2>2. /\ mem[t] = "live" /\ open_count[t] = Cardinality(Users) /\ pending[t]
        /\ timer[t] \/ \E q \in Procs : pc[q] \in {"op_down", "op_timer"}
    BY <1>1, <1>2, <1>4, <2>1 DEF QuietInv, TableInv, Goes
  <2>3. timer[t]  BY <1>2, <1>3, <2>2
  <2>4. open_count'[t] = Cardinality(Users')
    BY <1>2, <1>4, <2>2 DEF Left, Types
  <2>5. pending'[t] <=> Users' # {}
    BY <1>2, <1>4, <2>2 DEF LastClose, Types
  <2>6. ASSUME NEW r \in Tinys, r # t
        PROVE  open_count'[r] = 0 /\ ~Goes(r)'
    BY <1>1, <1>2, <2>6 DEF QuietInv, TableInv, Types, Goes
  <2>7. \A r \in Tinys : running'[r] = "no"  BY <1>2
  <2>. QED  BY <1>1, <1>2, <2>1, <2>2, <2>3, <2>4, <2>5, <2>6, <2>7 DEF TableInv, Goes
<1>. QED  BY <1>5, <1>6, <1>7, <1>8 DEF QuietInv

\* The tty_struct goes with the last file.
LEMMA ReleaseStep ==
  ASSUME Types, Alone, QuietInv, NEW p \in Procs, Release(p)
  PROVE  QuietInv'
<1> USE DEF lock, port, clock, local, Looking, Locking, Using
<1>1. /\ pc[p] = "release" /\ pc'[p] = "closed" /\ bkl = p /\ bkl' = NULL
      /\ \A q \in Procs \ {p} : pc'[q] = pc[q] /\ tiny'[q] = tiny[q]
      /\ tty' = tty \ {p}
      /\ tty' # {} => UNCHANGED <<driver_data, tiny_tty>>
      /\ UNCHANGED <<tiny_table, mem, sem, open_count, timer, pending, running, module>>
  BY DEF Release, Goto, Types
<1>2. \A q \in Procs \ {p} : pc[q] \in {"closed", "open"}  BY <1>1, Rest DEF QuietInv
<1>3. Users' = Users  BY <1>1, UsersKept
<1>4. /\ tty = {q \in Procs : pc[q] # "closed"} /\ (module # "loaded" => tty = {})
      /\ module # "stuck"
      /\ driver_data = tiny_table /\ tiny_table \in Tinys
  BY <1>1, <1>2 DEF QuietInv, FilesInv
<1>5. tty' = {q \in Procs : pc'[q] # "closed"}  BY <1>1, <1>4
<1>6. \A q \in Procs : PortAt(q)'
  <2>1. PortAt(p)'  BY <1>1, SetsAssumption DEF PortAt
  <2>2. ASSUME NEW q \in Procs \ {p} PROVE PortAt(q)'
    <3>1. PortAt(q)  BY DEF QuietInv
    <3>2. pc'[q] # "closed" => UNCHANGED tiny_tty  BY <1>1, <1>5, <2>2
    <3>. QED  BY <3>1, <3>2, <1>1, <1>2, SetsAssumption DEF PortAt
  <2>. QED  BY <2>1, <2>2
<1>7. FilesInv'  BY <1>1, <1>4, <1>5 DEF FilesInv
<1>8. SemInv'
  <2>1. \A r \in Tinys : sem[r] = NULL  BY <1>1, SemFree DEF QuietInv
  <2>. QED  BY <1>1, <2>1 DEF SemInv
<1>9. TableInv'
  <2>1. (Starting' <=> Starting) /\ (\A r \in Tinys : Goes(r)' <=> Goes(r))
    BY <1>1 DEF Starting, Goes
  <2>2. (\E q \in Procs : pc[q] \in {"op_down", "op_timer"})
          => \E q \in Procs : pc'[q] \in {"op_down", "op_timer"}
    BY <1>1
  <2>. QED  BY <1>1, <1>3, <2>1, <2>2 DEF QuietInv, TableInv
<1>. QED  BY <1>6, <1>7, <1>8, <1>9 DEF QuietInv

\* The timer goes on while it runs, and the modem lines have no part in this.
LEMMA ClockStep ==
  ASSUME QuietInv, UNCHANGED <<bkl, sem, port, open_count, timer, pc, tiny, module>>,
         \A t \in Tinys : /\ Goes(t)' <=> Goes(t)
                          /\ ~(pending'[t] /\ running'[t] # "no")
  PROVE  QuietInv'
<1> USE DEF port
<1>1. \A p \in Procs : PortAt(p)'  BY DEF QuietInv, PortAt
<1>2. FilesInv'  BY DEF QuietInv, FilesInv
<1>3. SemInv'  BY DEF QuietInv, SemInv
<1>4. Users' = Users /\ (Starting' <=> Starting)  BY DEF Users, Starting
<1>5. TableInv'  BY <1>4 DEF QuietInv, TableInv
<1>. QED  BY <1>1, <1>2, <1>3, <1>5 DEF QuietInv

LEMMA TicStep ==
  ASSUME Types, QuietInv,
         \/ \E t \in Tinys : Timer(t)
         \/ \E p \in Procs, set, clear \in SUBSET env.lines : TiocmSet(p, set, clear)
         \/ UNCHANGED vars
  PROVE  QuietInv'
<1> USE DEF lock, port, clock, local
<1>1. \A t \in Tinys : ~(pending[t] /\ running[t] # "no")  BY DEF QuietInv, TableInv
<1>2. ASSUME NEW t \in Tinys, Timer(t) PROVE QuietInv'
  <2>1. UNCHANGED <<bkl, sem, port, open_count, timer, pc, tiny, module>>
    BY <1>2 DEF Timer, TimerCall, TimerPush, TimerAgain
  <2>2. ASSUME NEW r \in Tinys
        PROVE  (Goes(r)' <=> Goes(r)) /\ ~(pending'[r] /\ running'[r] # "no")
    BY <1>1, <1>2 DEF Timer, TimerCall, TimerPush, TimerAgain, Submitted, Goes, Types
  <2>. QED  BY <2>1, <2>2, ClockStep
<1>3. ASSUME NEW p \in Procs, NEW set, NEW clear, TiocmSet(p, set, clear) PROVE QuietInv'
  <2>1. UNCHANGED <<bkl, sem, port, open_count, clock, pc, tiny, module>>
    BY <1>3 DEF TiocmSet, Goto, Types
  <2>. QED  BY <1>1, <2>1, ClockStep DEF Goes
<1>4. CASE UNCHANGED vars
  BY <1>1, <1>4, ClockStep DEF vars, Goes
<1>. QED  BY <1>2, <1>3, <1>4

\* tiny_exit finds the port closed.
LEMMA ExitStep ==
  ASSUME Types, QuietInv, ExitClose \/ ExitFree
  PROVE  QuietInv'
<1> USE DEF lock, port, clock, local
<1>1. tty = {} /\ (\A p \in Procs : pc[p] = "closed") /\ Users = {} /\ ~Starting
  <2>1. tty = {} /\ tty = {p \in Procs : pc[p] # "closed"}
    BY DEF QuietInv, FilesInv, ExitClose, ExitFree
  <2>. QED  BY <2>1 DEF Users, Using, Starting
<1>2. \A t \in Tinys : open_count[t] = 0 /\ ~Goes(t)
  BY <1>1, FS_EmptySet DEF QuietInv, TableInv
<1>3. /\ UNCHANGED <<bkl, sem, tty, tiny_tty, running, pc, tiny>>
      /\ module' \notin {"loaded", "stuck"}
      /\ \A t \in Tinys : open_count'[t] = 0 /\ ~Goes(t)'
  <2>1. tiny_table # NULL => timer[tiny_table]
    BY <1>1 DEF Types, QuietInv, TableInv
  <2>. QED  BY <1>2, <2>1 DEF ExitClose, ExitFree, Goes
<1>4. \A p \in Procs : PortAt(p)'
  BY <1>1, <1>3 DEF QuietInv, PortAt, Using, Locking
<1>5. FilesInv'  BY <1>1, <1>3 DEF FilesInv
<1>6. SemInv'  BY <1>3 DEF QuietInv, SemInv
<1>7. Users' = {} /\ Cardinality(Users') = 0
  BY <1>1, <1>3, FS_EmptySet DEF Users
<1>8. TableInv'
  <2>1. ASSUME NEW t \in Tinys, t = tiny_table' PROVE mem'[t] = "live" /\ timer'[t]
    <3>1. ExitClose  BY <2>1, SetsAssumption DEF ExitFree
    <3>. QED  BY <1>1, <2>1, <3>1 DEF ExitClose, QuietInv, TableInv
  <2>2. \A t \in Tinys : ~(pending'[t] /\ running'[t] # "no")  BY <1>3 DEF Goes
  <2>. QED  BY <1>3, <1>7, <2>1, <2>2 DEF TableInv
<1>. QED  BY <1>4, <1>5, <1>6, <1>8 DEF QuietInv

\* Nothing fails, nobody writes, and who has the lock never waits for the
\* semaphore.
LEMMA Never ==
  ASSUME Types, Alone, QuietInv, NEW p \in Procs
  PROVE  /\ ~OpenNoMemory(p) /\ ~OpenTimerFails(p) /\ ~WriteCall(p) /\ ~Write(p)
         /\ ~Sleeps(p) /\ ~CloseOops(p)
<1>1. PortAt(p)  BY DEF QuietInv
<1>2. ~OpenNoMemory(p) /\ ~OpenTimerFails(p) /\ ~WriteCall(p)
  BY DEF Alone, Quiet, OpenNoMemory, OpenTimerFails, WriteCall
<1>3. ~Write(p)  BY <1>1 DEF PortAt, Write, WriteDown, WriteUp, Goto
<1>4. ~Sleeps(p)
  BY <1>1 DEF Alone, Quiet, PortAt, QuietInv, SemInv, Sleeps
<1>5. ~CloseOops(p)
  <2> SUFFICES ASSUME pc[p] = "cl_down", bkl = p PROVE timer[tiny[p]]
    BY <1>1 DEF PortAt, CloseOops, Goto
  <2>1. tiny[p] = tiny_table /\ tiny_table \in Tinys  BY <1>1 DEF PortAt
  <2>2. \A q \in Procs \ {p} : pc[q] \in {"closed", "open"}  BY Rest DEF QuietInv
  <2>. QED  BY <2>1, <2>2 DEF QuietInv, TableInv
<1>. QED  BY <1>2, <1>3, <1>4, <1>5

LEMMA QuietStep ==
  ASSUME Types, Alone, QuietInv, [Next]_vars
  PROVE  QuietInv'
<1>1. ASSUME NEW p \in Procs, Kernel(p) \/ OpenCall(p) \/ CloseCall(p)
      PROVE  QuietInv'
  BY <1>1, Never, LookStep, StoreStep, DownStep, TimerStep, UpStep, LeaveStep,
     ReleaseStep DEF Kernel, Open, Close
<1>. QED  BY <1>1, Never, TicStep, ExitStep DEF Next
-----------------------------------------------------------------------------
(* The inductive invariant and its theorems *)

\* Nobody writes to a port on the one processor with the kind kmalloc.
QuietAlone == \A e \in Environments : ~(e.smp \/ e.sleepy \/ e.failing) => e.writers = {}

Inv == Types /\ CountInv /\ (Alone => QuietInv)

LEMMA TypesStep ==
  ASSUME Types, [Next]_vars
  PROVE  Types'
<1>1. CASE Next  BY <1>1, OpenTypes, CloseTypes, OtherTypes DEF Next, Kernel, Open, Close
<1>2. CASE UNCHANGED vars
  BY <1>2 DEF Types, vars, lock, port, clock, local
<1>. QED  BY <1>1, <1>2

\* The environment of a behaviour never changes.
LEMMA EnvKept ==
  ASSUME [Next]_vars PROVE env' = env
BY DEF Next, Kernel, Open, Close, Write, Timer, OpenCall, OpenLook, OpenKmalloc,
   OpenNoMemory, OpenStore, OpenDown, OpenTimer, OpenTimerFails, OpenUp, CloseCall,
   CloseDown, CloseOops, CloseUp, Release, WriteCall, WriteDown, WriteUp, Sleeps, TiocmSet,
   TimerCall, TimerPush, TimerAgain, ExitClose, ExitFree, vars, lock

LEMMA InvHolds == Spec => []Inv
<1>1. Init => Inv  BY TypesInit, CountInit, QuietInit DEF Inv
<1>2. ASSUME Inv, [Next]_vars PROVE Inv'
  <2>1. Types'  BY <1>2, TypesStep DEF Inv
  <2>2. CountInv'
    <3>1. CASE Next  BY <1>2, <2>1, <3>1, CountStep DEF Inv
    <3>2. CASE UNCHANGED vars
      <4>1. UNCHANGED <<pc, opens, open_count>>  BY <3>2 DEF vars, local
      <4>2. Done' = Done  BY <4>1 DEF Done
      <4>. QED  BY <1>2, <4>1, <4>2 DEF Inv, CountInv
    <3>. QED  BY <1>2, <3>1, <3>2
  <2>3. Alone' <=> Alone  BY <1>2, EnvKept DEF Alone, Quiet
  <2>4. Alone => QuietInv'  BY <1>2, QuietStep DEF Inv
  <2>. QED  BY <2>1, <2>2, <2>3, <2>4 DEF Inv
<1>. QED  BY <1>1, <1>2, PTL DEF Spec

\* A port between calls: in every environment the values of the types, and on
\* a quiet port a count of the open files that is exact, with a structure that
\* every open file finds (lines 68-167).  A writer who sleeps with the
\* semaphore would let an open or close go before the count (line 85).
THEOREM PortHolds ==
  ASSUME QuietAlone PROVE Spec => []PortCorrect
<1>1. ASSUME Inv PROVE PortCorrect
  <2>1. TypeOK
    <3>1. Done \subseteq Procs \X (1..Calls)  BY DEF Done
    <3>2. /\ Cardinality(Done) <= Calls * Cardinality(Procs) /\ Cardinality(Done) \in Nat
      BY <1>1, <3>1, DoneFinite DEF Inv
    <3>3. Calls * Cardinality(Procs) \in Nat
      BY CallsAssumption, SetsAssumption, FS_CardinalityType
    <3>4. \A t \in Tinys : open_count[t] \in 0..Calls * Cardinality(Procs)
      <4> SUFFICES ASSUME NEW t \in Tinys
                   PROVE  open_count[t] \in 0..Calls * Cardinality(Procs)
        OBVIOUS
      <4>1. open_count[t] \in Nat /\ open_count[t] <= Cardinality(Done)
        BY <1>1 DEF Inv, CountInv, Types
      <4>. QED  BY <4>1, <3>2, <3>3
    <3>5. open_count \in [Tinys -> 0..Calls * Cardinality(Procs)]
      BY <1>1, <3>4 DEF Inv, Types
    <3>. QED  BY <1>1, <3>5 DEF Inv, Types, TypeOK
  <2>2. ASSUME Quiet PROVE OpenCountExact /\ FileFindsPort
    <3>1. QuietInv  BY <1>1, <2>2, QuietAlone DEF Inv, Types, Alone, Quiet, QuietAlone
    <3>2. ASSUME bkl = NULL
          PROVE  /\ \A p \in Procs : pc[p] \in {"closed", "open"}
                 /\ Users = tty
      <4>1. \A p \in Procs : pc[p] \in {"closed", "open"}
        BY <3>1, <3>2, SetsAssumption DEF QuietInv, PortAt
      <4>2. tty = {p \in Procs : pc[p] # "closed"}  BY <3>1 DEF QuietInv, FilesInv
      <4>. QED  BY <4>1, <4>2 DEF Users, Using
    <3>3. OpenCountExact
      BY <1>1, <3>1, <3>2 DEF OpenCountExact, QuietInv, TableInv, Inv, Types
    <3>4. FileFindsPort
      BY <3>1, <3>2, SetsAssumption DEF FileFindsPort, QuietInv, FilesInv, Users, Using, Looking
    <3>. QED  BY <3>3, <3>4
  <2>. QED  BY <2>1, <2>2 DEF PortCorrect
<1>. QED  BY <1>1, InvHolds, PTL

\* The timer of a quiet port: it goes from the first open to the last close,
\* works on what is there, is added once and is there when it is deleted
\* (lines 35-66, 113-127 and 145).
THEOREM TimerHolds ==
  ASSUME QuietAlone PROVE Spec => []TimerCorrect
<1>1. ASSUME Inv PROVE TimerCorrect
  <2> SUFFICES ASSUME Quiet
               PROVE  TimerFollowsOpen /\ TimerFindsTty /\ AddedOnce /\ DelTimerExists
    BY DEF TimerCorrect
  <2>1. Types /\ QuietInv  BY <1>1, QuietAlone DEF Inv, Types, Alone, Quiet, QuietAlone
  <2>2. TimerFollowsOpen
    <3> SUFFICES ASSUME NEW t \in Tinys, bkl = NULL
                 PROVE  Goes(t) <=> open_count[t] > 0
      BY DEF TimerFollowsOpen, Goes
    <3>1. ~Starting  BY <2>1, SetsAssumption DEF QuietInv, PortAt, Starting
    <3>. QED  BY <2>1, <3>1, UsersFinite DEF QuietInv, TableInv
  <2>3. TimerFindsTty
    <3> SUFFICES ASSUME NEW t \in Tinys, running[t] = "called"
                 PROVE  mem[t] = "live" /\ tiny_tty[t] = "live"
      BY DEF TimerFindsTty
    <3>1. Goes(t)  BY DEF Goes
    <3>2. t = tiny_table /\ mem[t] = "live" /\ Users # {}
      BY <2>1, <3>1 DEF QuietInv, TableInv
    <3>. QED  BY <2>1, <3>2 DEF Users, QuietInv, PortAt
  <2>4. AddedOnce
    <3>1. ASSUME NEW p \in Procs, pc[p] = "op_timer" PROVE ~pending[tiny[p]]
      <4>1. tiny[p] = tiny_table /\ tiny_table \in Tinys
        BY <2>1, <3>1 DEF QuietInv, PortAt, Locking
      <4>2. Starting  BY <3>1 DEF Starting
      <4>. QED  BY <2>1, <4>1, <4>2 DEF QuietInv, TableInv, Goes
    <3>2. \A t \in Tinys : running[t] = "pushed" => ~pending[t]
      BY <2>1 DEF QuietInv, TableInv
    <3>. QED  BY <3>1, <3>2 DEF AddedOnce
  <2>5. DelTimerExists
    BY <2>1 DEF DelTimerExists, QuietInv, PortAt, FilesInv
  <2>. QED  BY <2>2, <2>3, <2>4, <2>5
<1>. QED  BY <1>1, InvHolds, PTL
=============================================================================
