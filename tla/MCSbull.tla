------------------------------- MODULE MCSbull -------------------------------
(* Sbull on small instances: the values the .cfg file gives it. *)
EXTENDS Sbull

CONSTANTS p1, p2
EqualShapes == {<<1>>, <<1, 1>>, <<2>>}
=============================================================================
