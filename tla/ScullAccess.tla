----------------------------- MODULE ScullAccess -----------------------------
(***************************************************************************)
(* The four access-controlled scull devices (src/scull/access.c):          *)
(* scullsingle, open once; sculluid, open to one user at a time; scullwuid,*)
(* the same, but open waits; scullpriv, one device for each controlling    *)
(* terminal.  The spinlocks of sculluid and scullwuid protect straight     *)
(* code, so that their sections are single steps; what is done before or   *)
(* after them, and the tests of sleepers, are steps of their own.          *)
(***************************************************************************)
EXTENDS Integers, FiniteSets, Sequences

CONSTANTS Procs,
          Uid, Euid,    \* current->uid and current->euid of each process
          Capable,      \* those with CAP_DAC_OVERRIDE
          WriteOnly,    \* those that open with O_WRONLY
          NonBlocking,  \* those that open with O_NONBLOCK
          Keys, Tty, NoTty,  \* each process's controlling terminal, or none
          Plans,        \* the sets of <<process, node>> that may be opened
          Smp           \* whether a spinlock is more than a no-op

ASSUME ProcsAssumption ==
  IsFiniteSet(Procs) /\ Capable \cup WriteOnly \cup NonBlocking \subseteq Procs
ASSUME UserAssumption  == Uid \in [Procs -> Nat] /\ Euid \in [Procs -> Nat]
ASSUME TtyAssumption   == NoTty \notin Keys /\ Tty \in [Procs -> Keys \cup {NoTty}]
ASSUME PlansAssumption == Plans \subseteq SUBSET (Procs \X {"single", "uid", "wuid", "priv"})
ASSUME SmpAssumption   == Smp \in BOOLEAN

VARIABLES
  s_available,       \* scull_s_available
  u_count, u_owner,
  w_count, w_owner,
  w_wait,            \* the processes a wake_up of scull_w_wait would wake
  c_list,            \* the key of each scull_listitem, in the order of creation
  stored,            \* the devices that hold data
  plan,              \* who may open what in this behaviour; it never changes
  node,              \* the node each process opens or has open
  private_data,      \* the scull_dev of its file
  pc

single == s_available
user   == <<u_count, u_owner>>
wuser  == <<w_count, w_owner, w_wait>>
file   == <<plan, node, private_data>>
vars   == <<single, user, wuser, c_list, stored, file, pc>>

Locations == {"closed", "trim", "open", "s_busy", "c_alloc", "w_wake",
              "w_lock", "w_prep", "w_load", "w_check", "w_sleep"}

\* A scull_dev: one of the static ones, or the i-th that scullpriv created.
NoDev   == <<"none", 0>>
Static(d) == <<d, 0>>
Devices == {Static(d) : d \in {"scull_s", "scull_u", "scull_w"}}
             \cup ({"scull_c"} \X (1..Cardinality(Procs)))

Init ==
  /\ s_available = 1
  /\ u_count = 0 /\ u_owner = 0
  /\ w_count = 0 /\ w_owner = 0 /\ w_wait = {}
  /\ c_list = <<>>
  /\ stored = {}
  /\ plan \in Plans
  /\ node = [p \in Procs |-> "none"]
  /\ private_data = [p \in Procs |-> NoDev]
  /\ pc = [p \in Procs |-> "closed"]
-----------------------------------------------------------------------------
(* What the devices have in common *)

Goto(p, from, to) == pc[p] = from /\ pc' = [pc EXCEPT ![p] = to]

\* A process with nothing open calls open on n.
OpenNode(p, n, to) ==
  /\ <<p, n>> \in plan
  /\ Goto(p, "closed", to)
  /\ node' = [node EXCEPT ![p] = n]
  /\ UNCHANGED plan

\* The open fails, or the file is closed.
CloseNode(p, from) ==
  /\ Goto(p, from, "closed")
  /\ node' = [node EXCEPT ![p] = "none"]
  /\ private_data' = [private_data EXCEPT ![p] = NoDev]
  /\ UNCHANGED plan

Permitted(p, count, owner) ==
  count = 0 \/ owner \in {Uid[p], Euid[p]} \/ p \in Capable

\* Mutation: any opener becomes the owner.
OwnerAlways(p, count, owner) == Uid[p]

\* The first opener becomes the owner.
OwnerAfter(p, count, owner) == IF count = 0 THEN Uid[p] ELSE owner

\* The device an open ends up with: sculluid's is scull_s_device (line 70).
DeviceOf(p) ==
  CASE node[p] \in {"single", "uid"} -> Static("scull_s")
    [] node[p] = "wuid" -> Static("scull_w")
    [] OTHER -> private_data[p]

\* The end of every open: scull_trim for O_WRONLY, without dev->sem.
Trim(p) ==
  /\ Goto(p, "trim", "open")
  /\ private_data' = [private_data EXCEPT ![p] = DeviceOf(p)]
  /\ stored' = IF p \in WriteOnly THEN stored \ {DeviceOf(p)} ELSE stored
  /\ UNCHANGED <<single, user, wuser, c_list, plan, node>>

\* scull_write on an open file.
Write(p) ==
  /\ pc[p] = "open"
  /\ stored' = stored \cup {private_data[p]}
  /\ UNCHANGED <<single, user, wuser, c_list, file, pc>>
-----------------------------------------------------------------------------
(* scullsingle *)

\* Mutation: the test is for a counter that has not gone below zero.
SingleOpenLate(p) ==
  /\ OpenNode(p, "single", IF s_available >= 0 THEN "trim" ELSE "s_busy")
  /\ s_available' = s_available - 1
  /\ UNCHANGED <<user, wuser, c_list, stored, private_data>>

\* atomic_dec_and_test, and the atomic_inc of the loser, which is later.
SingleOpen(p) ==
  /\ OpenNode(p, "single", IF s_available = 1 THEN "trim" ELSE "s_busy")
  /\ s_available' = s_available - 1
  /\ UNCHANGED <<user, wuser, c_list, stored, private_data>>

\* Mutation: the loser does not put back what it took.
SingleBusyKeeps(p) ==
  /\ CloseNode(p, "s_busy")
  /\ UNCHANGED <<single, user, wuser, c_list, stored>>

SingleBusy(p) ==
  /\ CloseNode(p, "s_busy")
  /\ s_available' = s_available + 1
  /\ UNCHANGED <<user, wuser, c_list, stored>>

SingleRelease(p) ==
  /\ node[p] = "single"
  /\ CloseNode(p, "open")
  /\ s_available' = s_available + 1
  /\ UNCHANGED <<user, wuser, c_list, stored>>
-----------------------------------------------------------------------------
(* sculluid: an open that is not permitted returns -EBUSY and changes nothing *)

UserOpen(p) ==
  /\ Permitted(p, u_count, u_owner)
  /\ OpenNode(p, "uid", "trim")
  /\ u_owner' = OwnerAfter(p, u_count, u_owner)
  /\ u_count' = u_count + 1
  /\ UNCHANGED <<single, wuser, c_list, stored, private_data>>

UserRelease(p) ==
  /\ node[p] = "uid"
  /\ CloseNode(p, "open")
  /\ u_count' = u_count - 1
  /\ UNCHANGED <<single, u_owner, wuser, c_list, stored>>
-----------------------------------------------------------------------------
(* scullwuid *)

WaitOpen(p) ==
  /\ OpenNode(p, "wuid", "w_lock")
  /\ UNCHANGED <<single, user, wuser, c_list, stored, private_data>>

\* Under the lock: the device is granted, or not.
WaitGrant(p) ==
  /\ Permitted(p, w_count, w_owner)
  /\ Goto(p, "w_lock", "trim")
  /\ w_owner' = OwnerAfter(p, w_count, w_owner)
  /\ w_count' = w_count + 1
  /\ UNCHANGED <<single, user, w_wait, c_list, stored, file>>

WaitDenied(p) ==
  /\ ~Permitted(p, w_count, w_owner)
  /\ IF p \in NonBlocking THEN CloseNode(p, "w_lock")
                          ELSE Goto(p, "w_lock", "w_prep") /\ UNCHANGED file
  /\ UNCHANGED <<single, user, wuser, c_list, stored>>

\* wait_event_interruptible(scull_w_wait, scull_w_available()): the count and
\* the owner are loaded one after the other, without the lock.
WaitPrepare(p) ==
  /\ Goto(p, "w_prep", "w_load")
  /\ w_wait' = w_wait \cup {p}
  /\ UNCHANGED <<single, user, w_count, w_owner, c_list, stored, file>>

\* Mutation: sleep without looking at the count again.
WaitLoadNone(p) ==
  /\ Goto(p, "w_load", "w_check")
  /\ UNCHANGED <<single, user, wuser, c_list, stored, file>>

WaitLoad(p) ==
  /\ IF w_count = 0
       THEN Goto(p, "w_load", "w_lock") /\ w_wait' = w_wait \ {p}
       ELSE Goto(p, "w_load", "w_check") /\ UNCHANGED w_wait
  /\ UNCHANGED <<single, user, w_count, w_owner, c_list, stored, file>>

WaitCheck(p) ==
  /\ IF Permitted(p, 1, w_owner)
       THEN Goto(p, "w_check", "w_lock") /\ w_wait' = w_wait \ {p}
       ELSE Goto(p, "w_check", "w_sleep") /\ UNCHANGED w_wait
  /\ UNCHANGED <<single, user, w_count, w_owner, c_list, stored, file>>

WaitAwake(p) ==
  /\ p \notin w_wait
  /\ Goto(p, "w_sleep", "w_prep")
  /\ UNCHANGED <<single, user, wuser, c_list, stored, file>>

WaitInterrupted(p) ==
  /\ CloseNode(p, "w_sleep")
  /\ w_wait' = w_wait \ {p}
  /\ UNCHANGED <<single, user, w_count, w_owner, c_list, stored>>

\* Mutation: only the release of the user who came first wakes.
WaitReleaseOwner(p) ==
  /\ node[p] = "wuid" /\ pc[p] = "open"
  /\ IF w_count = 1 /\ Uid[p] = w_owner
       THEN Goto(p, "open", "w_wake") /\ UNCHANGED file
       ELSE CloseNode(p, "open")
  /\ w_count' = w_count - 1
  /\ UNCHANGED <<single, user, w_owner, w_wait, c_list, stored>>

\* The last release wakes, after it has given up the lock.
WaitRelease(p) ==
  /\ node[p] = "wuid" /\ pc[p] = "open"
  /\ IF w_count = 1 THEN Goto(p, "open", "w_wake") /\ UNCHANGED file
                    ELSE CloseNode(p, "open")
  /\ w_count' = w_count - 1
  /\ UNCHANGED <<single, user, w_owner, w_wait, c_list, stored>>

WaitWake(p) ==
  /\ CloseNode(p, "w_wake")
  /\ w_wait' = {}
  /\ UNCHANGED <<single, user, w_count, w_owner, c_list, stored>>
-----------------------------------------------------------------------------
(* scullpriv *)

\* Mutation: the list is not searched.
FoundNone(key) == {}

\* The items with a key; list_add puts the newest first.
Found(key) == {i \in DOMAIN c_list : c_list[i] = key}
Newest(S)  == CHOOSE i \in S : \A j \in S : j <= i

\* spin_lock(&scull_c_lock), which is held while kmalloc sleeps.
ListFree == Smp => \A q \in Procs : pc[q] # "c_alloc"

PrivFound(p) ==
  /\ Tty[p] # NoTty /\ ListFree
  /\ Found(Tty[p]) # {}
  /\ OpenNode(p, "priv", "trim")
  /\ private_data' = [private_data EXCEPT ![p] = <<"scull_c", Newest(Found(Tty[p]))>>]
  /\ UNCHANGED <<single, user, wuser, c_list, stored>>

PrivMissing(p) ==
  /\ Tty[p] # NoTty /\ ListFree
  /\ Found(Tty[p]) = {}
  /\ OpenNode(p, "priv", "c_alloc")
  /\ UNCHANGED <<single, user, wuser, c_list, stored, private_data>>

PrivCreate(p) ==
  /\ Goto(p, "c_alloc", "trim")
  /\ c_list' = Append(c_list, Tty[p])
  /\ private_data' = [private_data EXCEPT ![p] = <<"scull_c", Len(c_list')>>]
  /\ UNCHANGED <<single, user, wuser, stored, plan, node>>

PrivNoMemory(p) ==
  /\ CloseNode(p, "c_alloc")
  /\ UNCHANGED <<single, user, wuser, c_list, stored>>

PrivRelease(p) ==
  /\ node[p] = "priv"
  /\ CloseNode(p, "open")
  /\ UNCHANGED <<single, user, wuser, c_list, stored>>
-----------------------------------------------------------------------------
Calls(p) == SingleOpen(p) \/ UserOpen(p) \/ WaitOpen(p) \/ PrivFound(p) \/ PrivMissing(p)
Releases(p) == SingleRelease(p) \/ UserRelease(p) \/ WaitRelease(p) \/ PrivRelease(p)
Kernel(p) ==
  \/ Trim(p) \/ SingleBusy(p) \/ WaitGrant(p) \/ WaitDenied(p) \/ WaitPrepare(p)
  \/ WaitLoad(p) \/ WaitCheck(p) \/ WaitAwake(p) \/ WaitWake(p)
  \/ PrivCreate(p) \/ PrivNoMemory(p)

Next == \E p \in Procs : Calls(p) \/ Releases(p) \/ Kernel(p) \/ Write(p)
                           \/ WaitInterrupted(p)
Spec == Init /\ [][Next]_vars

\* A process in the kernel runs on.  Its caller may keep the device for ever.
FairSpec == Spec /\ \A p \in Procs : WF_vars(Kernel(p))
-----------------------------------------------------------------------------
(* Properties *)

Opened(n) == {p \in Procs : node[p] = n /\ pc[p] \in {"trim", "open"}}

TypeOK ==
  /\ s_available \in Int /\ u_count \in Int /\ w_count \in Int
  /\ u_owner \in Nat /\ w_owner \in Nat
  /\ w_wait \subseteq Procs
  /\ c_list \in Seq(Keys)
  /\ stored \subseteq Devices
  /\ plan \in Plans
  /\ \A p \in Procs : node[p] = "none" \/ <<p, node[p]>> \in plan
  /\ private_data \in [Procs -> Devices \cup {NoDev}]
  /\ pc \in [Procs -> Locations]

\* scullsingle is open once at a time, and what the losers of a race took from
\* the counter is put back (lines 32-35).
SingleExclusive ==
  /\ Cardinality(Opened("single")) <= 1
  /\ s_available = 1 - Cardinality(Opened("single"))
                     - Cardinality({p \in Procs : pc[p] = "s_busy"})

\* Nobody else's open empties the device under the process that has scullsingle
\* open (lines 32-40): what it has written stays until it closes.
SingleKeepsData ==
  [][\A p \in Procs :
       pc[p] = "open" /\ node[p] = "single" /\ private_data[p] \in stored
         => private_data[p] \in stored']_vars

\* Whoever has sculluid, or scullwuid, open is one whom its owner lets in, and
\* the count is that of the open files, so that the owner changes only when
\* nobody is left (lines 71-84 and 132-144).
OwnerExclusive ==
  /\ u_count = Cardinality(Opened("uid"))
  /\ \A p \in Opened("uid") : Permitted(p, 1, u_owner)
  /\ w_count = Cardinality(Opened("wuid"))
  /\ \A p \in Opened("wuid") : Permitted(p, 1, w_owner)

\* Nobody sleeps in the open of scullwuid while the device would be granted,
\* unless the release that freed it is about to wake the queue (line 162).
WaiterWoken ==
  \A p \in w_wait :
    pc[p] = "w_sleep" /\ Permitted(p, w_count, w_owner)
      => \E q \in Procs : pc[q] = "w_wake"

\* scullpriv gives all the processes of a terminal one device, and those of two
\* terminals two (line 183: the lock protects the list).
OneDevicePerKey ==
  /\ \A i, j \in DOMAIN c_list : c_list[i] = c_list[j] => i = j
  /\ \A p, q \in Opened("priv") : private_data[p] = private_data[q] <=> Tty[p] = Tty[q]

\* Each of the four devices keeps to its rule.
AccessRules == TypeOK /\ SingleExclusive /\ OwnerExclusive /\ OneDevicePerKey

\* A sleeping open that would be granted does not sleep for ever.
WaiterNotForgotten ==
  \A p \in Procs : (pc[p] = "w_sleep" /\ Permitted(p, w_count, w_owner))
                     ~> (pc[p] # "w_sleep" \/ ~Permitted(p, w_count, w_owner))
=============================================================================
