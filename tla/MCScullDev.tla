----------------------------- MODULE MCScullDev -----------------------------
(* ScullDev and Sculld on small instances: the values the .cfg files give it. *)
EXTENDS Sculld

CONSTANTS p1, p2, p3
=============================================================================
