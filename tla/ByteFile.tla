------------------------------ MODULE ByteFile ------------------------------
(***************************************************************************)
(* What a scull device promises to the processes that hold it open: an     *)
(* array of bytes with a size.  Each process has a position; a write puts  *)
(* its bytes there, a read that starts within the size returns bytes that  *)
(* were written there and never one past the size, and an open with        *)
(* O_WRONLY empties the array, for those who have it open already, too.    *)
(* What a read returns that starts past the size is not promised.          *)
(***************************************************************************)
EXTENDS Integers, Sequences

CONSTANTS Procs, Byte, Unset,
          MaxSize,  \* bound: the most bytes the array has room for
          MaxCall   \* the most bytes one call moves

VARIABLES content,  \* the bytes, Unset where none was written
          size,
          pos,      \* the position of each process's file
          got       \* the bytes that its current read returns

vars == <<content, size, pos, got>>

Init ==
  /\ content = [i \in 0..MaxSize - 1 |-> Unset]
  /\ size = 0
  /\ pos = [p \in Procs |-> 0]
  /\ got = [p \in Procs |-> <<>>]

\* n bytes at the position of p, some of which are new.
Overwrite(p, n) ==
  /\ content' \in [0..MaxSize - 1 -> Byte \cup {Unset}]
  /\ \A i \in 0..MaxSize - 1 :
       IF pos[p] <= i /\ i < pos[p] + n THEN content'[i] \in Byte
                                       ELSE content'[i] = content[i]

Write(p, n) ==
  LET end == pos[p] + n IN
  /\ Overwrite(p, n)
  /\ size' = IF size < end THEN end ELSE size
  /\ pos' = [pos EXCEPT ![p] = end]
  /\ UNCHANGED got

\* A write that fails may have changed the bytes at its position.
FailedWrite(p, n) == Overwrite(p, n) /\ UNCHANGED <<size, pos, got>>

Read(p, n) ==
  /\ pos[p] + n <= size
  /\ got' = [got EXCEPT ![p] = [i \in 1..n |-> content[pos[p] + i - 1]]]
  /\ pos' = [pos EXCEPT ![p] = @ + n]
  /\ UNCHANGED <<content, size>>

ReadPastSize(p, n) ==
  /\ pos[p] > size
  /\ got'[p] \in [1..n -> Byte \cup {Unset}]
  /\ got' = [got EXCEPT ![p] = got'[p]]
  /\ pos' = [pos EXCEPT ![p] = @ + n]
  /\ UNCHANGED <<content, size>>

Return(p) ==
  /\ got' = [got EXCEPT ![p] = <<>>]
  /\ UNCHANGED <<content, size, pos>>

Seek(p, to) ==
  /\ pos' = [pos EXCEPT ![p] = to]
  /\ UNCHANGED <<content, size, got>>

Close(p) ==
  /\ pos' = [pos EXCEPT ![p] = 0]
  /\ got' = [got EXCEPT ![p] = <<>>]
  /\ UNCHANGED <<content, size>>

\* An open with O_WRONLY, at position 0.
Truncate(p) ==
  /\ content' = [i \in 0..MaxSize - 1 |-> Unset]
  /\ size' = 0
  /\ pos' = [pos EXCEPT ![p] = 0]
  /\ UNCHANGED got

Next ==
  \E p \in Procs :
    \/ Truncate(p) \/ Return(p) \/ Close(p)
    \/ \E n \in 0..MaxCall :
         Write(p, n) \/ FailedWrite(p, n) \/ Read(p, n) \/ ReadPastSize(p, n)
    \/ \E to \in 0..MaxSize : Seek(p, to)

Spec == Init /\ [][Next]_vars
=============================================================================
