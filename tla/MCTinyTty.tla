------------------------------ MODULE MCTinyTty ------------------------------
(* TinyTty with three processes on one processor, whose kmalloc neither sleeps
   nor fails, or with two, everything that can go wrong, and writers. *)
EXTENDS TinyTty

CONSTANTS p1, p2, p3, t1, t2

QuietOrNot ==
  {[procs |-> {p1, p2, p3}, writers |-> {}, lines |-> {"DTR"},
    smp |-> FALSE, sleepy |-> FALSE, failing |-> FALSE],
   [procs |-> {p1, p2}, writers |-> {p1, p2}, lines |-> {},
    smp |-> TRUE, sleepy |-> TRUE, failing |-> TRUE]}
=============================================================================
