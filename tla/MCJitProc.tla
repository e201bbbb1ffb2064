------------------------------ MODULE MCJitProc ------------------------------
(* JitProc on small instances: the values the .cfg file gives it. *)
EXTENDS JitProc

CONSTANTS p1, p2, g1, g2, d1, d2
Everywhere ==
  {[calls |-> c, signals |-> s, smp |-> m] :
     c \in {{"jit_fn"}, {"jit_async"}, {"jiq"}}, s \in BOOLEAN, m \in BOOLEAN}
OneProcessorForJiq == {e \in Everywhere : ~("jiq" \in e.calls /\ e.smp)}
=============================================================================
