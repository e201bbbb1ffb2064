----------------------------- MODULE MCScullPipe -----------------------------
(* ScullPipe on small instances: the values the .cfg files give it. *)
EXTENDS ScullPipe

CONSTANTS r1, r2, w1, w2
=============================================================================
