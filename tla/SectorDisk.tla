----------------------------- MODULE SectorDisk -----------------------------
(***************************************************************************)
(* What a block device with a removable medium promises: an array of       *)
(* sectors.  A process that has it open moves sectors between the disk and *)
(* its buffer, a request at a time, each sector once, in whatever          *)
(* portions; the request ends when it has moved all.  While nobody has the *)
(* device open the medium may be changed, and only then, and only by an    *)
(* open, its content gets lost.  Sbull implements this specification.      *)
(***************************************************************************)
EXTENDS Integers, Sequences

CONSTANTS Procs, Byte, Blank,
          Sectors,  \* how many
          Requests, \* [op : {"read", "write", "special"}, first, count]
          None      \* no request

VARIABLES disk,
          opened,   \* who has the device open
          changed,  \* whether the medium was changed since it was last opened
          request,  \* of each process
          todo,     \* the sectors it has yet to move
          buffer    \* its memory, one entry for each sector of the request

vars == <<disk, opened, changed, request, todo, buffer>>

Init ==
  /\ disk = [s \in 0..Sectors - 1 |-> Blank]
  /\ opened = {} /\ changed = FALSE
  /\ request = [p \in Procs |-> None]
  /\ todo = [p \in Procs |-> {}]
  /\ buffer = [p \in Procs |-> <<>>]

ChangeMedium ==
  /\ opened = {} /\ changed' = TRUE
  /\ UNCHANGED <<disk, opened, request, todo, buffer>>

\* The first to open a changed medium finds a new disk.
Open(p) ==
  /\ p \notin opened
  /\ opened' = opened \cup {p}
  /\ IF opened = {} /\ changed
     THEN disk' = [s \in 0..Sectors - 1 |-> Blank] /\ changed' = FALSE
     ELSE UNCHANGED <<disk, changed>>
  /\ UNCHANGED <<request, todo, buffer>>

Close(p) ==
  /\ p \in opened /\ request[p] = None
  /\ opened' = opened \ {p}
  /\ UNCHANGED <<disk, changed, request, todo, buffer>>

Submit(p, r) ==
  /\ p \in opened /\ request[p] = None
  /\ request' = [request EXCEPT ![p] = r]
  /\ todo' = [todo EXCEPT ![p] =
                IF r.op = "special" THEN {} ELSE r.first..r.first + r.count - 1]
  /\ \E b \in [1..r.count -> Byte] : buffer' = [buffer EXCEPT ![p] = b]
  /\ UNCHANGED <<disk, opened, changed>>

\* p moves the sectors S, and the requests of E are over.  A request that reads
\* is over with what it has read, the buffer of any other is of no more use.
Move(p, S, E) ==
  /\ S \subseteq todo[p]
  /\ todo' = [todo EXCEPT ![p] = @ \ S]
  /\ LET at(s) == s - request[p].first + 1 IN
     IF S # {} /\ request[p].op = "write"
     THEN /\ disk' = [s \in 0..Sectors - 1 |->
                        IF s \in S THEN buffer[p][at(s)] ELSE disk[s]]
          /\ UNCHANGED buffer
     ELSE /\ buffer' = [buffer EXCEPT ![p] =
               [i \in DOMAIN @ |-> IF \E s \in S : at(s) = i
                                   THEN disk[request[p].first + i - 1] ELSE @[i]]]
          /\ UNCHANGED disk
  /\ \A q \in E : request[q] # None /\ todo'[q] = {}
  /\ request' = [q \in Procs |-> IF q \in E THEN None ELSE request[q]]
  /\ UNCHANGED <<opened, changed>>

Return(p) ==
  /\ request[p] = None
  /\ buffer' = [buffer EXCEPT ![p] = <<>>]
  /\ UNCHANGED <<disk, opened, changed, request, todo>>

Next ==
  \/ ChangeMedium
  \/ \E p \in Procs :
       \/ Open(p) \/ Close(p) \/ Return(p)
       \/ \E r \in Requests : Submit(p, r)
       \/ \E S \in SUBSET todo[p], E \in SUBSET Procs : Move(p, S, E)

Spec == Init /\ [][Next]_vars
=============================================================================
