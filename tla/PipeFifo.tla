------------------------------ MODULE PipeFifo ------------------------------
(***************************************************************************)
(* What a scullpipe device promises to the processes that hold it open: a  *)
(* bounded first-in first-out queue of bytes.  A write appends some of its *)
(* bytes, a read takes bytes off the front, and bytes are dropped at two   *)
(* moments only: when a process opens the device and when the last process *)
(* that holds it open closes it.  ScullPipe implements this specification. *)
(***************************************************************************)
EXTENDS Naturals, Sequences

CONSTANTS Procs,      \* the processes that use the device
          Byte,       \* the bytes they write
          Capacity    \* the most bytes the pipe can hold

VARIABLES holders,    \* the processes that hold the device open
          queue,      \* the bytes written and not yet read, oldest first
          got         \* for each process, the bytes its current read returns

vars == <<holders, queue, got>>

Init ==
  /\ holders = {}
  /\ queue = <<>>
  /\ got = [p \in Procs |-> <<>>]

Open(p) ==
  /\ p \notin holders
  /\ holders' = holders \cup {p}
  /\ queue' = <<>>
  /\ UNCHANGED got

Close(p) ==
  /\ p \in holders
  /\ holders' = holders \ {p}
  /\ queue' = IF holders' = {} THEN <<>> ELSE queue
  /\ UNCHANGED got

Put(p, bytes) ==
  /\ p \in holders
  /\ Len(queue) + Len(bytes) <= Capacity
  /\ queue' = queue \o bytes
  /\ UNCHANGED <<holders, got>>

Take(p, n) ==
  /\ p \in holders
  /\ n <= Len(queue)
  /\ got' = [got EXCEPT ![p] = SubSeq(queue, 1, n)]
  /\ queue' = SubSeq(queue, n + 1, Len(queue))
  /\ UNCHANGED holders

\* The read call of p returns: its bytes are the caller's.
Return(p) ==
  /\ got' = [got EXCEPT ![p] = <<>>]
  /\ UNCHANGED <<holders, queue>>

Strings == UNION {[1..n -> Byte] : n \in 0..Capacity}

Next ==
  \E p \in Procs :
    \/ Open(p) \/ Close(p) \/ Return(p)
    \/ \E bytes \in Strings : Put(p, bytes)
    \/ \E n \in 0..Capacity : Take(p, n)

Spec == Init /\ [][Next]_vars
=============================================================================
