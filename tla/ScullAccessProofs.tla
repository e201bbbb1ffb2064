-------------------------- MODULE ScullAccessProofs --------------------------
(***************************************************************************)
(* The rules of the four devices of ScullAccess, for any processes, users, *)
(* terminals and plans.                                                    *)
(***************************************************************************)
EXTENDS ScullAccess, FiniteSetTheorems, TLAPS

Nodes   == {"none", "single", "uid", "wuid", "priv"}
Waiting == {"w_wake", "w_lock", "w_prep", "w_load", "w_check", "w_sleep"}
Private(d) == \E i : d = <<"scull_c", i>>

Types ==
  /\ s_available \in Int /\ u_count \in Int /\ w_count \in Int
  /\ u_owner \in Nat /\ w_owner \in Nat
  /\ w_wait \subseteq Procs
  /\ c_list \in Seq(Keys)
  /\ plan \in Plans
  /\ node \in [Procs -> Nodes]
  /\ private_data = [p \in Procs |-> private_data[p]]
  /\ pc \in [Procs -> Locations]

\* Where a process can be that has opened each node, and what it has there.
PlacedAt(p) ==
  /\ node[p] = "none" <=> pc[p] = "closed"
  /\ pc[p] \in {"closed", "c_alloc"} => private_data[p] = NoDev
  /\ node[p] # "none" => <<p, node[p]>> \in plan
  /\ pc[p] = "s_busy" => node[p] = "single"
  /\ pc[p] = "c_alloc" => node[p] = "priv"
  /\ pc[p] \in Waiting => node[p] = "wuid"
  /\ node[p] = "priv" => /\ Tty[p] \in Keys /\ pc[p] \in {"c_alloc", "trim", "open"}
                         /\ private_data[p] = NoDev \/ Private(private_data[p])
  /\ node[p] # "priv" => private_data[p] \in {NoDev, Static("scull_s"), Static("scull_w")}
  /\ pc[p] = "open" /\ node[p] \in {"single", "uid"} => private_data[p] = Static("scull_s")
  /\ pc[p] = "open" /\ node[p] = "wuid" => private_data[p] = Static("scull_w")

Control == Types /\ \A p \in Procs : PlacedAt(p)

LEMMA ControlInit == Init => Control
BY UserAssumption DEF Init, Control, Types, PlacedAt, Nodes, Locations, Waiting

\* What p does to the processes: it moves, and opens or closes, alone.
Alone(p) ==
  /\ plan' = plan
  /\ pc' = [pc EXCEPT ![p] = pc'[p]]
  /\ node' = [node EXCEPT ![p] = node'[p]]
  /\ private_data' = [private_data EXCEPT ![p] = private_data'[p]]

StepOf(p) == Calls(p) \/ Releases(p) \/ Kernel(p) \/ Write(p) \/ WaitInterrupted(p)

LEMMA StepAlone == ASSUME Types, NEW p \in Procs, StepOf(p) PROVE Alone(p)
<1> USE DEF Types, Alone, Goto, OpenNode, CloseNode, file
<1>1. CASE Calls(p)
  BY <1>1 DEF Calls, SingleOpen, UserOpen, WaitOpen, PrivFound, PrivMissing
<1>2. CASE Releases(p)
  BY <1>2 DEF Releases, SingleRelease, UserRelease, WaitRelease, PrivRelease
<1>3. CASE Trim(p) \/ SingleBusy(p) \/ WaitGrant(p) \/ WaitDenied(p) \/ WaitPrepare(p)
  BY <1>3 DEF Trim, SingleBusy, WaitGrant, WaitDenied, WaitPrepare
<1>4. CASE WaitLoad(p) \/ WaitCheck(p) \/ WaitAwake(p) \/ WaitWake(p)
             \/ PrivCreate(p) \/ PrivNoMemory(p)
  BY <1>4 DEF WaitLoad, WaitCheck, WaitAwake, WaitWake, PrivCreate, PrivNoMemory
<1>5. CASE Write(p) \/ WaitInterrupted(p)
  BY <1>5 DEF Write, WaitInterrupted
<1> QED BY <1>1, <1>2, <1>3, <1>4, <1>5 DEF StepOf, Kernel

LEMMA PlacedStep ==
  ASSUME Control, NEW p \in Procs, StepOf(p)
  PROVE  /\ PlacedAt(p)'
         /\ pc'[p] \in Locations /\ node'[p] \in Nodes
<1>1. /\ pc[p] \in Locations /\ node[p] \in Nodes
      /\ PlacedAt(p)
  BY DEF Control, Types
<1>2. Alone(p)
  BY StepAlone DEF Control
<1> USE <1>1 DEF PlacedAt, Locations, Nodes, Waiting, Goto, OpenNode, CloseNode, file
<1>3. CASE Calls(p)
  <2>1. /\ pc[p] = "closed" /\ pc'[p] \in {"trim", "s_busy", "w_lock", "c_alloc"}
        /\ node'[p] \in Nodes \ {"none"} /\ <<p, node'[p]>> \in plan'
        /\ pc'[p] = "s_busy" => node'[p] = "single"
        /\ pc'[p] = "c_alloc" => node'[p] = "priv"
        /\ pc'[p] \in Waiting => node'[p] = "wuid"
    BY <1>3 DEF Control, Types, Calls, SingleOpen, UserOpen, WaitOpen, PrivFound, PrivMissing
  <2>2. /\ node'[p] = "priv" =>
             /\ Tty[p] \in Keys
             /\ \/ pc'[p] = "c_alloc" /\ private_data'[p] = private_data[p]
                \/ pc'[p] = "trim" /\ Private(private_data'[p])
        /\ node'[p] # "priv" => private_data'[p] = private_data[p]
    BY <1>3, TtyAssumption
       DEF Calls, SingleOpen, UserOpen, WaitOpen, PrivFound, PrivMissing, Control, Types, Private
  <2> QED BY <2>1, <2>2
<1>4. CASE Releases(p)
  BY <1>4 DEF Releases, SingleRelease, UserRelease, WaitRelease, PrivRelease, Control, Types
<1>5. CASE Trim(p)
  BY <1>5 DEF Trim, DeviceOf, Control, Types
<1>6. CASE SingleBusy(p) \/ WaitDenied(p) \/ WaitWake(p) \/ PrivNoMemory(p)
             \/ WaitInterrupted(p)
  BY <1>6 DEF SingleBusy, WaitDenied, WaitWake, PrivNoMemory, WaitInterrupted, Control, Types
<1>7. CASE WaitGrant(p) \/ WaitPrepare(p) \/ WaitLoad(p) \/ WaitCheck(p) \/ WaitAwake(p)
             \/ Write(p)
  BY <1>7 DEF WaitGrant, WaitPrepare, WaitLoad, WaitCheck, WaitAwake, Write, Control, Types
<1>8. CASE PrivCreate(p)
  BY <1>8 DEF PrivCreate, Private, Control, Types
<1> QED BY <1>3, <1>4, <1>5, <1>6, <1>7, <1>8 DEF StepOf, Kernel

LEMMA TypesStep == ASSUME Control, NEW p \in Procs, StepOf(p) PROVE Types'
<1>1. Alone(p) /\ pc'[p] \in Locations /\ node'[p] \in Nodes
  BY PlacedStep, StepAlone DEF Control
<1>2. /\ plan' \in Plans /\ pc' \in [Procs -> Locations] /\ node' \in [Procs -> Nodes]
      /\ private_data' = [q \in Procs |-> private_data'[q]]
  BY <1>1 DEF Alone, Control, Types
<1>3. /\ s_available' \in Int /\ u_count' \in Int /\ w_count' \in Int
      /\ u_owner' \in Nat /\ w_owner' \in Nat
      /\ w_wait' \subseteq Procs /\ c_list' \in Seq(Keys)
  <2> USE DEF Control, Types, single, user, wuser
  <2>1. CASE Calls(p)
    BY <2>1, UserAssumption
       DEF Calls, SingleOpen, UserOpen, WaitOpen, PrivFound, PrivMissing, OwnerAfter
  <2>2. CASE Releases(p)
    BY <2>2 DEF Releases, SingleRelease, UserRelease, WaitRelease, PrivRelease
  <2>3. CASE WaitGrant(p)
    BY <2>3, UserAssumption DEF WaitGrant, OwnerAfter
  <2>4. CASE PrivCreate(p)
    <3>1. Tty[p] \in Keys
      BY <2>4 DEF PrivCreate, PlacedAt, Goto
    <3> QED BY <2>4, <3>1 DEF PrivCreate
  <2>5. CASE Trim(p) \/ SingleBusy(p) \/ WaitDenied(p) \/ WaitPrepare(p)
               \/ WaitLoad(p) \/ WaitCheck(p) \/ WaitAwake(p) \/ WaitWake(p) \/ PrivNoMemory(p)
    BY <2>5 DEF Trim, SingleBusy, WaitDenied, WaitPrepare, WaitLoad, WaitCheck,
                WaitAwake, WaitWake, PrivNoMemory
  <2>6. CASE Write(p) \/ WaitInterrupted(p)
    BY <2>6 DEF Write, WaitInterrupted
  <2> QED BY <2>1, <2>2, <2>3, <2>4, <2>5, <2>6 DEF StepOf, Kernel
<1> QED BY <1>2, <1>3 DEF Types

LEMMA ControlStep == Control /\ [Next]_vars => Control'
<1>1. ASSUME Control, NEW p \in Procs, StepOf(p) PROVE Control'
  <2>1. Types' /\ PlacedAt(p)' /\ Alone(p)
    BY <1>1, TypesStep, PlacedStep, StepAlone DEF Control
  <2>2. ASSUME NEW q \in Procs \ {p} PROVE PlacedAt(q)'
    <3>1. /\ plan' = plan /\ pc'[q] = pc[q] /\ node'[q] = node[q]
          /\ private_data'[q] = private_data[q]
      BY <1>1, <2>1 DEF Alone, Control, Types
    <3> QED BY <1>1, <3>1 DEF Control, PlacedAt
  <2> QED BY <2>1, <2>2 DEF Control
<1>2. ASSUME Control, UNCHANGED vars PROVE Control'
  BY <1>2 DEF Control, Types, PlacedAt, vars, single, user, wuser, file
<1> QED BY <1>1, <1>2 DEF Next, StepOf
-----------------------------------------------------------------------------
(* Counting *)

Has(p, n) == node[p] = n /\ pc[p] \in {"trim", "open"}
Busy(p)   == pc[p] = "s_busy"
One(b)    == IF b THEN 1 ELSE 0

\* A set from which only p can come and go.
LEMMA CountOne ==
  ASSUME NEW S, NEW T, IsFiniteSet(S), NEW p, T \ {p} = S \ {p}
  PROVE  Cardinality(S) \in Nat /\ Cardinality(T) = Cardinality(S) + One(p \in T) - One(p \in S)
<1>1. Cardinality(S) \in Nat
  BY FS_CardinalityType
<1>2. CASE p \in T
  <2>1. T = S \cup {p}
    BY <1>2
  <2>2. Cardinality(T) = IF p \in S THEN Cardinality(S) ELSE Cardinality(S) + 1
    BY <2>1, FS_AddElement
  <2> QED BY <1>1, <1>2, <2>2 DEF One
<1>3. CASE p \notin T
  <2>1. T = S \ {p}
    BY <1>3
  <2>2. Cardinality(T) = IF p \in S THEN Cardinality(S) - 1 ELSE Cardinality(S)
    BY <2>1, FS_RemoveElement
  <2> QED BY <1>1, <1>3, <2>2 DEF One
<1> QED BY <1>2, <1>3

LEMMA OpenedFinite == ASSUME NEW n PROVE IsFiniteSet(Opened(n))
BY ProcsAssumption, FS_Subset, Opened(n) \in SUBSET Procs DEF Opened

LEMMA OpenedCount ==
  ASSUME Control, NEW p \in Procs, Alone(p), NEW n
  PROVE  /\ Cardinality(Opened(n)) \in Nat
         /\ Cardinality(Opened(n)') = Cardinality(Opened(n)) + One(Has(p, n)') - One(Has(p, n))
         /\ Opened(n)' \ {p} = Opened(n) \ {p}
         /\ p \in Opened(n) <=> Has(p, n)
         /\ p \in Opened(n)' <=> Has(p, n)'
<1>1. Opened(n)' \ {p} = Opened(n) \ {p}
  BY DEF Opened, Alone, Control, Types
<1>2. (p \in Opened(n) <=> Has(p, n)) /\ (p \in Opened(n)' <=> Has(p, n)')
  BY DEF Opened, Has
<1>3. /\ Cardinality(Opened(n)) \in Nat
      /\ Cardinality(Opened(n)') = Cardinality(Opened(n)) + One(p \in Opened(n)')
                                    - One(p \in Opened(n))
  BY <1>1, OpenedFinite, CountOne
<1>4. One(p \in Opened(n)') = One(Has(p, n)') /\ One(p \in Opened(n)) = One(Has(p, n))
  BY <1>2 DEF One
<1> QED BY <1>1, <1>2, <1>3, <1>4

BusySet == {p \in Procs : pc[p] = "s_busy"}

LEMMA BusyCount ==
  ASSUME Control, NEW p \in Procs, Alone(p)
  PROVE  /\ Cardinality(BusySet) \in Nat
         /\ Cardinality(BusySet') = Cardinality(BusySet) + One(Busy(p)') - One(Busy(p))
<1>1. BusySet' \ {p} = BusySet \ {p} /\ IsFiniteSet(BusySet)
  BY ProcsAssumption, FS_Subset, BusySet \in SUBSET Procs DEF BusySet, Alone, Control, Types
<1>2. (p \in BusySet <=> Busy(p)) /\ (p \in BusySet' <=> Busy(p)')
  BY DEF BusySet, Busy
<1>3. One(p \in BusySet') = One(Busy(p)') /\ One(p \in BusySet) = One(Busy(p))
  BY <1>2 DEF One
<1> QED BY <1>1, <1>3, CountOne

\* What each step takes from the counts, and what it has for it.
LEMMA Balance ==
  ASSUME Control, NEW p \in Procs, StepOf(p)
  PROVE  /\ s_available' = s_available - One(Has(p, "single")') + One(Has(p, "single"))
                                       - One(Busy(p)') + One(Busy(p))
         /\ Has(p, "single")' => Has(p, "single") \/ s_available = 1
         /\ u_count' = u_count + One(Has(p, "uid")') - One(Has(p, "uid"))
         /\ w_count' = w_count + One(Has(p, "wuid")') - One(Has(p, "wuid"))
<1> USE DEF Has, Busy, One, Goto, OpenNode, CloseNode, single, user, wuser, file
<1>1. PlacedAt(p) /\ s_available \in Int /\ u_count \in Int /\ w_count \in Int
      /\ pc \in [Procs -> Locations] /\ node \in [Procs -> Nodes]
  BY DEF Control, Types
<1> USE <1>1 DEF PlacedAt, Waiting
<1>2. CASE Calls(p)
  BY <1>2 DEF Calls, SingleOpen, UserOpen, WaitOpen, PrivFound, PrivMissing
<1>3. CASE Releases(p)
  BY <1>3 DEF Releases, SingleRelease, UserRelease, WaitRelease, PrivRelease
<1>4. CASE Trim(p) \/ SingleBusy(p) \/ WaitGrant(p) \/ WaitDenied(p) \/ WaitPrepare(p)
  BY <1>4 DEF Trim, SingleBusy, WaitGrant, WaitDenied, WaitPrepare
<1>5. CASE WaitLoad(p) \/ WaitCheck(p) \/ WaitAwake(p) \/ WaitWake(p)
             \/ PrivCreate(p) \/ PrivNoMemory(p)
  BY <1>5 DEF WaitLoad, WaitCheck, WaitAwake, WaitWake, PrivCreate, PrivNoMemory
<1>6. CASE Write(p) \/ WaitInterrupted(p)
  BY <1>6 DEF Write, WaitInterrupted
<1> QED BY <1>2, <1>3, <1>4, <1>5, <1>6 DEF StepOf, Kernel
-----------------------------------------------------------------------------
(* scullsingle *)

LEMMA SingleInit == Init => SingleExclusive
<1> SUFFICES ASSUME Init PROVE SingleExclusive
  OBVIOUS
<1>1. Opened("single") = {} /\ {p \in Procs : pc[p] = "s_busy"} = {}
  BY DEF Init, Opened
<1>2. s_available = 1
  BY DEF Init
<1> QED BY <1>1, <1>2, FS_EmptySet DEF SingleExclusive

LEMMA SingleStep == Control /\ SingleExclusive /\ [Next]_vars => SingleExclusive'
<1>1. ASSUME Control, SingleExclusive, NEW p \in Procs, StepOf(p) PROVE SingleExclusive'
  <2> DEFINE old == Cardinality(Opened("single"))
             now == Cardinality(Opened("single")')
             losers == Cardinality(BusySet)
  <2>1. Alone(p)
    BY <1>1, StepAlone DEF Control
  <2>2. /\ old \in Nat /\ now = old + One(Has(p, "single")') - One(Has(p, "single"))
        /\ losers \in Nat
        /\ Cardinality(BusySet') = losers + One(Busy(p)') - One(Busy(p))
    BY <1>1, <2>1, OpenedCount, BusyCount
  <2>3. /\ s_available' = s_available - One(Has(p, "single")') + One(Has(p, "single"))
                                      - One(Busy(p)') + One(Busy(p))
        /\ Has(p, "single")' => Has(p, "single") \/ s_available = 1
    BY <1>1, Balance
  <2>4. old <= 1 /\ s_available = 1 - old - losers
    BY <1>1 DEF SingleExclusive, BusySet
  <2>5. s_available' = 1 - now - Cardinality(BusySet')
    BY <2>2, <2>3, <2>4 DEF One
  <2>6. now <= 1
    BY <2>2, <2>3, <2>4 DEF One
  <2> HIDE DEF old, now, losers
  <2> QED BY <2>5, <2>6 DEF SingleExclusive, BusySet, now
<1>2. ASSUME SingleExclusive, UNCHANGED vars PROVE SingleExclusive'
  BY <1>2 DEF SingleExclusive, Opened, vars, single, file
<1> QED BY <1>1, <1>2 DEF Next, StepOf
-----------------------------------------------------------------------------
(* sculluid and scullwuid *)

LEMMA OwnerInit == Init => OwnerExclusive
<1> SUFFICES ASSUME Init PROVE OwnerExclusive
  OBVIOUS
<1>1. Opened("uid") = {} /\ Opened("wuid") = {}
  BY DEF Init, Opened
<1> QED BY <1>1, FS_EmptySet DEF Init, OwnerExclusive

\* The owner changes only for the first opener, whom the new one lets in.
LEMMA OwnerKept ==
  ASSUME Control, NEW p \in Procs, StepOf(p)
  PROVE  /\ u_count = 0 \/ u_owner' = u_owner
         /\ w_count = 0 \/ w_owner' = w_owner
         /\ Has(p, "uid")' => \/ Has(p, "uid") /\ u_owner' = u_owner
                              \/ Permitted(p, 1, u_owner')
         /\ Has(p, "wuid")' => \/ Has(p, "wuid") /\ w_owner' = w_owner
                              \/ Permitted(p, 1, w_owner')
<1> USE DEF Has, Goto, OpenNode, CloseNode, single, user, wuser, file, Permitted, OwnerAfter
<1>1. /\ PlacedAt(p) /\ pc \in [Procs -> Locations] /\ node \in [Procs -> Nodes]
  BY DEF Control, Types
<1> USE <1>1 DEF PlacedAt, Waiting
<1>2. CASE Calls(p)
  BY <1>2 DEF Calls, SingleOpen, UserOpen, WaitOpen, PrivFound, PrivMissing
<1>3. CASE Releases(p)
  BY <1>3 DEF Releases, SingleRelease, UserRelease, WaitRelease, PrivRelease
<1>4. CASE Trim(p) \/ SingleBusy(p) \/ WaitGrant(p) \/ WaitDenied(p) \/ WaitPrepare(p)
  BY <1>4 DEF Trim, SingleBusy, WaitGrant, WaitDenied, WaitPrepare
<1>5. CASE WaitLoad(p) \/ WaitCheck(p) \/ WaitAwake(p) \/ WaitWake(p)
             \/ PrivCreate(p) \/ PrivNoMemory(p)
  BY <1>5 DEF WaitLoad, WaitCheck, WaitAwake, WaitWake, PrivCreate, PrivNoMemory
<1>6. CASE Write(p) \/ WaitInterrupted(p)
  BY <1>6 DEF Write, WaitInterrupted
<1> QED BY <1>2, <1>3, <1>4, <1>5, <1>6 DEF StepOf, Kernel

LEMMA NobodyLeft == ASSUME NEW n, Cardinality(Opened(n)) = 0 PROVE Opened(n) = {}
BY OpenedFinite, FS_EmptySet

LEMMA OwnerStep == Control /\ OwnerExclusive /\ [Next]_vars => OwnerExclusive'
<1>1. ASSUME Control, OwnerExclusive, NEW p \in Procs, StepOf(p) PROVE OwnerExclusive'
  <2>1. Alone(p)
    BY <1>1, StepAlone DEF Control
  <2>2. /\ u_count' = Cardinality(Opened("uid")') /\ w_count' = Cardinality(Opened("wuid")')
    <3>1. /\ u_count' = u_count + One(Has(p, "uid")') - One(Has(p, "uid"))
          /\ w_count' = w_count + One(Has(p, "wuid")') - One(Has(p, "wuid"))
      BY <1>1, Balance
    <3>2. /\ Cardinality(Opened("uid")')
               = Cardinality(Opened("uid")) + One(Has(p, "uid")') - One(Has(p, "uid"))
          /\ Cardinality(Opened("wuid")')
               = Cardinality(Opened("wuid")) + One(Has(p, "wuid")') - One(Has(p, "wuid"))
      BY <1>1, <2>1, OpenedCount
    <3> QED BY <1>1, <3>1, <3>2 DEF OwnerExclusive
  <2>3. ASSUME NEW q \in Opened("uid")' PROVE Permitted(q, 1, u_owner')
    <3>1. CASE q # p
      <4>1. q \in Opened("uid")
        BY <1>1, <2>1, <2>3, <3>1, OpenedCount
      <4>2. u_count # 0
        BY <1>1, <4>1, NobodyLeft DEF OwnerExclusive
      <4> QED BY <1>1, <4>1, <4>2, OwnerKept DEF OwnerExclusive
    <3>2. CASE q = p
      BY <1>1, <2>1, <2>3, <3>2, OwnerKept, OpenedCount DEF OwnerExclusive
    <3> QED BY <3>1, <3>2
  <2>4. ASSUME NEW q \in Opened("wuid")' PROVE Permitted(q, 1, w_owner')
    <3>1. CASE q # p
      <4>1. q \in Opened("wuid")
        BY <1>1, <2>1, <2>4, <3>1, OpenedCount
      <4>2. w_count # 0
        BY <1>1, <4>1, NobodyLeft DEF OwnerExclusive
      <4> QED BY <1>1, <4>1, <4>2, OwnerKept DEF OwnerExclusive
    <3>2. CASE q = p
      BY <1>1, <2>1, <2>4, <3>2, OwnerKept, OpenedCount DEF OwnerExclusive
    <3> QED BY <3>1, <3>2
  <2> QED BY <2>2, <2>3, <2>4 DEF OwnerExclusive, Permitted
<1>2. ASSUME OwnerExclusive, UNCHANGED vars PROVE OwnerExclusive'
  BY <1>2 DEF OwnerExclusive, Opened, vars, user, wuser, file, Permitted
<1> QED BY <1>1, <1>2 DEF Next, StepOf
-----------------------------------------------------------------------------
(* The queue of scullwuid *)

\* Also who is about to sleep, on a count that it has loaded, is on the way of a
\* wake_up if the device has become free since.
Misses(p) ==
  \/ pc[p] = "w_check" /\ w_count = 0
  \/ pc[p] = "w_sleep" /\ Permitted(p, w_count, w_owner)
WaitersServed == \A p \in w_wait : Misses(p) => \E q \in Procs : pc[q] = "w_wake"

\* What a step of p does to the queue, and to those who stand in it.
LEMMA WaitMoves ==
  ASSUME Control, w_count \in Nat, NEW p \in Procs, StepOf(p)
  PROVE  /\ w_wait' \subseteq w_wait \cup {p}
         /\ w_count' = 0 => w_count = 0 \/ pc'[p] = "w_wake"
         /\ pc[p] = "w_wake" => w_wait' = {}
         /\ pc'[p] = "w_check" => w_count' # 0
         /\ pc'[p] = "w_sleep" =>
              /\ pc[p] = "w_check" /\ w_wait' = w_wait /\ ~Permitted(p, 1, w_owner)
              /\ w_count' = w_count /\ w_owner' = w_owner
<1> USE DEF Goto, OpenNode, CloseNode, single, user, wuser, file
<1>1. pc \in [Procs -> Locations] /\ w_wait \subseteq Procs
  BY DEF Control, Types
<1> USE <1>1
<1>2. CASE Calls(p)
  BY <1>2 DEF Calls, SingleOpen, UserOpen, WaitOpen, PrivFound, PrivMissing
<1>3. CASE Releases(p)
  BY <1>3 DEF Releases, SingleRelease, UserRelease, WaitRelease, PrivRelease
<1>4. CASE Trim(p) \/ SingleBusy(p) \/ WaitGrant(p) \/ WaitDenied(p) \/ WaitPrepare(p)
  BY <1>4 DEF Trim, SingleBusy, WaitGrant, WaitDenied, WaitPrepare
<1>5. CASE WaitLoad(p) \/ WaitCheck(p) \/ WaitAwake(p) \/ WaitWake(p)
             \/ PrivCreate(p) \/ PrivNoMemory(p)
  BY <1>5 DEF WaitLoad, WaitCheck, WaitAwake, WaitWake, PrivCreate, PrivNoMemory
<1>6. CASE Write(p) \/ WaitInterrupted(p)
  BY <1>6 DEF Write, WaitInterrupted
<1> QED BY <1>2, <1>3, <1>4, <1>5, <1>6 DEF StepOf, Kernel

LEMMA WaitersInit == Init => WaitersServed
BY DEF Init, WaitersServed

LEMMA WaitersStep ==
  Control /\ OwnerExclusive /\ WaitersServed /\ [Next]_vars => WaitersServed'
<1>1. ASSUME Control, OwnerExclusive, WaitersServed, NEW p \in Procs, StepOf(p)
      PROVE  WaitersServed'
  <2>1. Alone(p) /\ w_count \in Nat
    BY <1>1, StepAlone, OpenedFinite, FS_CardinalityType DEF Control, OwnerExclusive
  <2> SUFFICES ASSUME NEW q \in w_wait', Misses(q)' PROVE \E r \in Procs : pc'[r] = "w_wake"
    BY DEF WaitersServed
  <2>2. \A r \in Procs \ {p} : pc'[r] = pc[r]
    BY <1>1, <2>1 DEF Alone, Control, Types
  <2>3. ASSUME q \in w_wait, Misses(q), pc[p] # "w_wake" \/ w_wait' # {}
        PROVE  \E r \in Procs : pc'[r] = "w_wake"
    BY <1>1, <2>1, <2>2, <2>3, WaitMoves DEF WaitersServed
  <2>4. CASE q = p
    BY <1>1, <2>1, <2>3, <2>4, WaitMoves DEF Misses, Permitted
  <2>5. CASE q # p
    <3>1. q \in w_wait /\ pc'[q] = pc[q]
      BY <1>1, <2>1, <2>2, <2>5, WaitMoves DEF Control, Types
    <3>2. CASE w_count = 0
      <4>1. Misses(q)
        BY <3>1, <3>2 DEF Misses, Permitted
      <4> QED BY <2>3, <3>1, <4>1
    <3>3. CASE w_count # 0 /\ w_count' = 0
      BY <1>1, <2>1, <3>3, WaitMoves
    <3>4. CASE w_count # 0 /\ w_count' # 0
      <4>1. w_owner' = w_owner
        BY <1>1, <3>4, OwnerKept
      <4>2. Misses(q)
        BY <3>1, <3>4, <4>1 DEF Misses, Permitted
      <4> QED BY <2>3, <3>1, <4>2
    <3> QED BY <3>2, <3>3, <3>4
  <2> QED BY <2>4, <2>5
<1>2. ASSUME WaitersServed, UNCHANGED vars PROVE WaitersServed'
  BY <1>2 DEF WaitersServed, Misses, Permitted, vars, wuser
<1> QED BY <1>1, <1>2 DEF Next, StepOf
-----------------------------------------------------------------------------
(* scullpriv, where a spinlock excludes *)

\* While the list has no device for a terminal, one process at most makes one.
ListInv ==
  /\ \A i, j \in DOMAIN c_list : c_list[i] = c_list[j] => i = j
  /\ \A i \in DOMAIN c_list : \E p \in Procs : Tty[p] = c_list[i]
  /\ \A p \in Procs : pc[p] = "c_alloc" =>
       /\ \A i \in DOMAIN c_list : c_list[i] # Tty[p]
       /\ \A q \in Procs : pc[q] = "c_alloc" => p = q
  /\ \A p \in Opened("priv") :
       \E i \in DOMAIN c_list : private_data[p] = <<"scull_c", i>> /\ c_list[i] = Tty[p]

LEMMA ListInit == Init => ListInv
BY DEF Init, ListInv, Opened

\* A search finds the one device with a key.
LEMMA FoundOne ==
  ASSUME Control, ListInv, NEW key, Found(key) # {}
  PROVE  Newest(Found(key)) \in DOMAIN c_list /\ c_list[Newest(Found(key))] = key
<1>1. PICK i \in DOMAIN c_list : c_list[i] = key
  BY DEF Found
<1>2. Found(key) = {i} /\ i \in Nat
  BY <1>1 DEF Found, ListInv, Control, Types
<1>3. Newest({i}) = i
  BY <1>2 DEF Newest
<1> QED BY <1>1, <1>2, <1>3

\* How a step of p changes the list and what p has of it.
LEMMA ListMoves ==
  ASSUME Smp, Control, ListInv, NEW p \in Procs, StepOf(p)
  PROVE  /\ \/ c_list' = c_list
            \/ pc[p] = "c_alloc" /\ pc'[p] # "c_alloc" /\ c_list' = Append(c_list, Tty[p])
         /\ pc'[p] = "c_alloc" =>
              /\ c_list' = c_list /\ \A i \in DOMAIN c_list : c_list[i] # Tty[p]
              /\ \A q \in Procs : pc[q] # "c_alloc"
         /\ Has(p, "priv")' =>
              \/ Has(p, "priv") /\ private_data'[p] = private_data[p]
              \/ \E i \in DOMAIN c_list' : /\ private_data'[p] = <<"scull_c", i>>
                                           /\ c_list'[i] = Tty[p]
<1> USE DEF Has, Goto, OpenNode, CloseNode, single, user, wuser, file
<1>1. /\ PlacedAt(p) /\ pc \in [Procs -> Locations] /\ node \in [Procs -> Nodes]
      /\ private_data = [q \in Procs |-> private_data[q]] /\ c_list \in Seq(Keys)
  BY DEF Control, Types
<1> USE <1>1 DEF PlacedAt, Waiting
<1>2. CASE SingleOpen(p) \/ UserOpen(p) \/ WaitOpen(p)
  BY <1>2 DEF SingleOpen, UserOpen, WaitOpen
<1>3. CASE PrivFound(p)
  BY <1>3, FoundOne DEF PrivFound
<1>4. CASE PrivMissing(p)
  BY <1>4 DEF PrivMissing, Found, ListFree
<1>5. CASE Releases(p)
  BY <1>5 DEF Releases, SingleRelease, UserRelease, WaitRelease, PrivRelease
<1>6. CASE Trim(p) \/ SingleBusy(p) \/ WaitGrant(p) \/ WaitDenied(p) \/ WaitPrepare(p)
  BY <1>6 DEF Trim, SingleBusy, WaitGrant, WaitDenied, WaitPrepare, DeviceOf
<1>7. CASE WaitLoad(p) \/ WaitCheck(p) \/ WaitAwake(p) \/ WaitWake(p) \/ PrivNoMemory(p)
  BY <1>7 DEF WaitLoad, WaitCheck, WaitAwake, WaitWake, PrivNoMemory
<1>8. CASE PrivCreate(p)
  <2>1. /\ c_list' = Append(c_list, Tty[p]) /\ private_data'[p] = <<"scull_c", Len(c_list')>>
        /\ pc[p] = "c_alloc" /\ pc'[p] = "trim"
    BY <1>8 DEF PrivCreate
  <2>2. Tty[p] \in Keys
    BY <2>1
  <2>3. Len(c_list') \in DOMAIN c_list' /\ c_list'[Len(c_list')] = Tty[p]
    BY <2>1, <2>2
  <2> QED BY <2>1, <2>3
<1>9. CASE Write(p) \/ WaitInterrupted(p)
  BY <1>9 DEF Write, WaitInterrupted
<1> QED BY <1>2, <1>3, <1>4, <1>5, <1>6, <1>7, <1>8, <1>9 DEF StepOf, Kernel, Calls

LEMMA ListStep ==
  ASSUME Smp PROVE Control /\ ListInv /\ [Next]_vars => ListInv'
<1>1. ASSUME Control, ListInv, NEW p \in Procs, StepOf(p) PROVE ListInv'
  <2>1. Alone(p)
    BY <1>1, StepAlone DEF Control
  <2>2. \A q \in Procs \ {p} : pc'[q] = pc[q] /\ node'[q] = node[q]
                               /\ private_data'[q] = private_data[q]
    BY <1>1, <2>1 DEF Alone, Control, Types
  <2>3. /\ Opened("priv")' \ {p} = Opened("priv") \ {p}
        /\ p \in Opened("priv") <=> Has(p, "priv")
        /\ p \in Opened("priv")' <=> Has(p, "priv")'
    BY <1>1, <2>1, OpenedCount
  <2>4. CASE c_list' = c_list
    <3>1. \A q \in Procs : pc'[q] = "c_alloc" =>
            /\ \A i \in DOMAIN c_list : c_list[i] # Tty[q]
            /\ \A r \in Procs : pc'[r] = "c_alloc" => q = r
      BY <1>1, <2>2, ListMoves DEF ListInv
    <3>2. \A q \in Opened("priv")' : \E i \in DOMAIN c_list :
            private_data'[q] = <<"scull_c", i>> /\ c_list[i] = Tty[q]
      BY <1>1, <2>2, <2>3, <2>4, ListMoves DEF ListInv, Opened
    <3> QED BY <1>1, <2>4, <3>1, <3>2 DEF ListInv
  <2>5. CASE pc[p] = "c_alloc" /\ pc'[p] # "c_alloc" /\ c_list' = Append(c_list, Tty[p])
    <3>1. /\ c_list \in Seq(Keys) /\ Tty[p] \in Keys
      BY <1>1, <2>5 DEF Control, Types, PlacedAt
    <3>2. /\ DOMAIN c_list = 1..Len(c_list) /\ Len(c_list) \in Nat
          /\ DOMAIN c_list' = 1..Len(c_list) + 1
          /\ \A i \in DOMAIN c_list : c_list'[i] = c_list[i]
          /\ c_list'[Len(c_list) + 1] = Tty[p]
      BY <2>5, <3>1
    <3>3. \A i \in DOMAIN c_list : c_list[i] # Tty[p]
      BY <1>1, <2>5 DEF ListInv
    <3>4. \A i, j \in DOMAIN c_list' : c_list'[i] = c_list'[j] => i = j
      BY <1>1, <3>2, <3>3 DEF ListInv
    <3>5. \A i \in DOMAIN c_list' : \E q \in Procs : Tty[q] = c_list'[i]
      BY <1>1, <3>2 DEF ListInv
    <3>6. \A q \in Procs : pc'[q] # "c_alloc"
      BY <1>1, <2>2, <2>5 DEF ListInv
    <3>7. \A q \in Opened("priv")' : \E i \in DOMAIN c_list' :
            private_data'[q] = <<"scull_c", i>> /\ c_list'[i] = Tty[q]
      <4>1. ASSUME NEW q \in Opened("priv")', q # p
            PROVE  \E i \in DOMAIN c_list' :
                     private_data'[q] = <<"scull_c", i>> /\ c_list'[i] = Tty[q]
        <5>1. q \in Opened("priv") /\ private_data'[q] = private_data[q]
          BY <2>2, <2>3, <4>1 DEF Opened
        <5>2. PICK i \in DOMAIN c_list : private_data[q] = <<"scull_c", i>> /\ c_list[i] = Tty[q]
          BY <1>1, <5>1 DEF ListInv
        <5> QED BY <3>2, <5>1, <5>2
      <4>2. ~Has(p, "priv")
        BY <2>5 DEF Has
      <4> QED BY <1>1, <2>3, <4>1, <4>2, ListMoves
    <3> QED BY <3>4, <3>5, <3>6, <3>7 DEF ListInv
  <2> QED BY <1>1, <2>4, <2>5, ListMoves
<1>2. ASSUME ListInv, UNCHANGED vars PROVE ListInv'
  BY <1>2 DEF ListInv, Opened, vars, file
<1> QED BY <1>1, <1>2 DEF Next, StepOf

LEMMA ListCorrect == ASSUME Control, ListInv PROVE OneDevicePerKey
<1> SUFFICES ASSUME NEW p \in Opened("priv"), NEW q \in Opened("priv")
             PROVE  private_data[p] = private_data[q] <=> Tty[p] = Tty[q]
  BY DEF ListInv, OneDevicePerKey
<1>1. PICK i \in DOMAIN c_list : private_data[p] = <<"scull_c", i>> /\ c_list[i] = Tty[p]
  BY DEF ListInv
<1>2. PICK j \in DOMAIN c_list : private_data[q] = <<"scull_c", j>> /\ c_list[j] = Tty[q]
  BY DEF ListInv
<1> QED BY <1>1, <1>2 DEF ListInv

\* There is never more than one device for each terminal, hence for each process.
LEMMA ListBound == ASSUME Control, ListInv PROVE Len(c_list) <= Cardinality(Procs)
<1> DEFINE of == [i \in 1..Len(c_list) |-> CHOOSE p \in Procs : Tty[p] = c_list[i]]
<1>1. DOMAIN c_list = 1..Len(c_list) /\ Len(c_list) \in Nat
  BY DEF Control, Types
<1>2. \A i \in 1..Len(c_list) : of[i] \in Procs /\ Tty[of[i]] = c_list[i]
  BY <1>1 DEF ListInv
<1>3. of \in [1..Len(c_list) -> Procs]
  BY <1>2
<1>4. \A i, j \in 1..Len(c_list) : of[i] = of[j] => i = j
  <2> SUFFICES ASSUME NEW i \in 1..Len(c_list), NEW j \in 1..Len(c_list), of[i] = of[j]
               PROVE  i = j
    OBVIOUS
  <2>1. c_list[i] = c_list[j]
    BY <1>2
  <2> QED BY <1>1, <2>1 DEF ListInv
<1> HIDE DEF of
<1>5. of \in Injection(1..Len(c_list), Procs)
  BY <1>3, <1>4 DEF Injection, IsInjective
<1>6. Cardinality(1..Len(c_list)) <= Cardinality(Procs)
  BY <1>5, ProcsAssumption, FS_Injection
<1>7. Cardinality(1..Len(c_list)) = Len(c_list)
  <2>1. Cardinality(1..Len(c_list)) = IF 1 > Len(c_list) THEN 0 ELSE Len(c_list) - 1 + 1
    BY <1>1, FS_Interval
  <2> QED BY <1>1, <2>1
<1> QED BY <1>6, <1>7
-----------------------------------------------------------------------------
(* The memory of the devices *)

StoredInv == stored \subseteq Devices

LEMMA PrivateIsDevice ==
  ASSUME Control, ListInv
  PROVE  private_data \in [Procs -> Devices \cup {NoDev}]
<1> SUFFICES ASSUME NEW p \in Procs PROVE private_data[p] \in Devices \cup {NoDev}
  BY DEF Control, Types
<1>1. CASE node[p] = "priv" /\ pc[p] # "c_alloc"
  <2>1. p \in Opened("priv")
    BY <1>1 DEF Control, PlacedAt, Opened
  <2>2. PICK i \in DOMAIN c_list : private_data[p] = <<"scull_c", i>>
    BY <2>1 DEF ListInv
  <2>3. i \in 1..Cardinality(Procs)
    BY <2>2, ListBound, ProcsAssumption, FS_CardinalityType DEF Control, Types
  <2> QED BY <2>2, <2>3 DEF Devices
<1>2. CASE node[p] # "priv" \/ pc[p] = "c_alloc"
  BY <1>2 DEF Control, PlacedAt, Devices
<1> QED BY <1>1, <1>2

LEMMA StoredStep == Control /\ ListInv /\ StoredInv /\ [Next]_vars => StoredInv'
<1>1. ASSUME Control, ListInv, StoredInv, NEW p \in Procs, StepOf(p) PROVE StoredInv'
  <2> USE <1>1 DEF StoredInv
  <2>1. CASE Calls(p)
    BY <2>1 DEF Calls, SingleOpen, UserOpen, WaitOpen, PrivFound, PrivMissing
  <2>2. CASE Releases(p)
    BY <2>2 DEF Releases, SingleRelease, UserRelease, WaitRelease, PrivRelease
  <2>3. CASE Trim(p) \/ SingleBusy(p) \/ WaitGrant(p) \/ WaitDenied(p) \/ WaitPrepare(p)
    BY <2>3 DEF Trim, SingleBusy, WaitGrant, WaitDenied, WaitPrepare
  <2>4. CASE WaitLoad(p) \/ WaitCheck(p) \/ WaitAwake(p) \/ WaitWake(p)
               \/ PrivCreate(p) \/ PrivNoMemory(p) \/ WaitInterrupted(p)
    BY <2>4 DEF WaitLoad, WaitCheck, WaitAwake, WaitWake, PrivCreate, PrivNoMemory,
                WaitInterrupted
  <2>5. CASE Write(p)
    <3>1. private_data[p] \in Devices
      <4>1. private_data[p] # NoDev
        <5>1. PlacedAt(p) /\ pc[p] = "open" /\ node[p] \in Nodes
          BY <2>5 DEF Write, Control, Types
        <5>2. node[p] = "priv" => \E i : private_data[p] = <<"scull_c", i>>
          BY <5>1 DEF ListInv, Opened
        <5> QED BY <5>1, <5>2 DEF PlacedAt, NoDev, Static, Nodes
      <4> QED BY <4>1, PrivateIsDevice
    <3> QED BY <2>5, <3>1 DEF Write
  <2> QED BY <2>1, <2>2, <2>3, <2>4, <2>5 DEF StepOf, Kernel
<1>2. ASSUME StoredInv, UNCHANGED vars PROVE StoredInv'
  BY <1>2 DEF StoredInv, vars
<1> QED BY <1>1, <1>2 DEF Next, StepOf

LEMMA TypesCorrect == ASSUME Control, ListInv, StoredInv PROVE TypeOK
BY PrivateIsDevice DEF Control, Types, PlacedAt, StoredInv, TypeOK
-----------------------------------------------------------------------------
\* scullsingle is open once at a time, and the counter is put back by whoever
\* loses a race for it.
THEOREM SingleCorrect == Spec => []SingleExclusive
BY ControlInit, ControlStep, SingleInit, SingleStep, PTL DEF Spec

\* sculluid and scullwuid have as many files as they count, of processes that
\* their owner lets in.
THEOREM OwnersCorrect == Spec => []OwnerExclusive
BY ControlInit, ControlStep, OwnerInit, OwnerStep, PTL DEF Spec

\* Nobody sleeps in the open of scullwuid while the device would be granted,
\* though the count and the owner are tested without the lock.
THEOREM WaiterWokenCorrect == Spec => []WaiterWoken
<1>1. WaitersServed => WaiterWoken
  BY DEF WaitersServed, Misses, WaiterWoken
<1> QED BY <1>1, ControlInit, ControlStep, OwnerInit, OwnerStep, WaitersInit, WaitersStep,
           PTL DEF Spec

\* Each of the four devices keeps to its rule if the spinlock of scullpriv
\* excludes; without it two processes that find no device make two.
THEOREM AccessRulesCorrect == ASSUME Smp PROVE Spec => []AccessRules
<1>1. Control /\ ListInv /\ StoredInv /\ SingleExclusive /\ OwnerExclusive => AccessRules
  BY ListCorrect, TypesCorrect DEF AccessRules
<1>2. Init => StoredInv
  BY DEF Init, StoredInv
<1>3. ListInv /\ Control /\ [Next]_vars => ListInv'
  BY ListStep
<1> QED BY <1>1, <1>2, <1>3, ControlInit, ControlStep, ListInit, StoredStep,
           SingleCorrect, OwnersCorrect, PTL DEF Spec
-----------------------------------------------------------------------------
\* sculluid is scull_s_device too (line 70), so that who opens it can empty
\* scullsingle; apart from that nobody can.
Apart ==
  \A P \in Plans : \A p, q \in Procs : ~(<<p, "single">> \in P /\ <<q, "uid">> \in P)

\* What a process has written to scullsingle stays until it closes it.
THEOREM SingleDataKept == ASSUME Apart PROVE Spec => SingleKeepsData
<1> DEFINE Keeps == \A p \in Procs :
       pc[p] = "open" /\ node[p] = "single" /\ private_data[p] \in stored
         => private_data[p] \in stored'
<1>1. ASSUME Control, SingleExclusive, NEW q \in Procs, StepOf(q) PROVE Keeps
  <2> SUFFICES ASSUME NEW p \in Procs, pc[p] = "open", node[p] = "single",
                      private_data[p] \in stored
               PROVE  private_data[p] \in stored'
    OBVIOUS
  <2>1. private_data[p] = Static("scull_s") /\ p \in Opened("single")
    BY <1>1 DEF Control, PlacedAt, Opened
  <2>2. CASE Trim(q)
    <3>1. q \notin Opened("single")
      <4>1. p # q
        BY <2>2 DEF Trim, Goto
      <4> SUFFICES ASSUME q \in Opened("single") PROVE FALSE
        OBVIOUS
      <4>2. {p} \cup {q} \in SUBSET Opened("single") /\ Cardinality({p} \cup {q}) = 2
        <5>1. IsFiniteSet({p}) /\ Cardinality({p}) = 1
          BY FS_Singleton
        <5>2. Cardinality({p} \cup {q}) = Cardinality({p}) + 1
          BY <4>1, <5>1, FS_AddElement
        <5> QED BY <2>1, <5>1, <5>2
      <4>3. Cardinality({p} \cup {q}) <= Cardinality(Opened("single"))
        BY <4>2, OpenedFinite, FS_Subset
      <4> QED BY <1>1, <4>2, <4>3, OpenedFinite, FS_CardinalityType DEF SingleExclusive
    <3>2. node[q] \notin {"single", "uid", "none"}
      BY <1>1, <2>2, <3>1 DEF Trim, Goto, Opened, Control, Types, PlacedAt, Apart
    <3>3. DeviceOf(q) # Static("scull_s")
      <4>1. PlacedAt(q) /\ node[q] \in {"wuid", "priv"}
        BY <1>1, <3>2 DEF Control, Types, Nodes
      <4>2. CASE node[q] = "wuid"
        BY <4>2 DEF DeviceOf, Static
      <4>3. CASE node[q] = "priv"
        <5>1. DeviceOf(q) = private_data[q]
          BY <4>3 DEF DeviceOf
        <5> QED BY <4>1, <4>3, <5>1 DEF PlacedAt, Private, NoDev, Static
      <4> QED BY <4>1, <4>2, <4>3
    <3> QED BY <2>1, <2>2, <3>3 DEF Trim
  <2>3. CASE ~Trim(q)
    <3>1. CASE Calls(q)
      BY <3>1 DEF Calls, SingleOpen, UserOpen, WaitOpen, PrivFound, PrivMissing
    <3>2. CASE Releases(q)
      BY <3>2 DEF Releases, SingleRelease, UserRelease, WaitRelease, PrivRelease
    <3>3. CASE SingleBusy(q) \/ WaitGrant(q) \/ WaitDenied(q) \/ WaitPrepare(q)
                 \/ WaitLoad(q) \/ WaitCheck(q) \/ WaitAwake(q) \/ WaitWake(q)
                 \/ PrivCreate(q) \/ PrivNoMemory(q) \/ WaitInterrupted(q) \/ Write(q)
      BY <3>3 DEF SingleBusy, WaitGrant, WaitDenied, WaitPrepare, WaitLoad, WaitCheck,
                  WaitAwake, WaitWake, PrivCreate, PrivNoMemory, WaitInterrupted, Write
    <3> QED BY <1>1, <2>3, <3>1, <3>2, <3>3 DEF StepOf, Kernel
  <2> QED BY <2>2, <2>3
<1>2. Control /\ SingleExclusive /\ [Next]_vars => [Keeps]_vars
  BY <1>1 DEF Next, StepOf
<1> QED BY <1>2, ControlInit, ControlStep, SingleCorrect, PTL DEF Spec, SingleKeepsData
=============================================================================
