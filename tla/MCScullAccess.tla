---------------------------- MODULE MCScullAccess ----------------------------
(* ScullAccess with two users, a process that became the first by su, root, and
   a second process of the second user, which does not block.  p1 and p2 share
   a terminal, p4 and p5 have none. *)
EXTENDS ScullAccess

CONSTANTS p1, p2, p3, p4, p5, tty1, tty2

MCUid  == [p \in Procs |-> CASE p = p1 -> 1 [] p \in {p2, p5} -> 2 [] p = p3 -> 3 [] OTHER -> 0]
MCEuid == [p \in Procs |-> CASE p \in {p1, p3} -> 1 [] p \in {p2, p5} -> 2 [] OTHER -> 0]
MCTty  == [p \in Procs |-> CASE p \in {p1, p2} -> tty1 [] p = p3 -> tty2 [] OTHER -> NoTty]

\* Those whose users matter open sculluid and scullwuid, twice; or everybody
\* opens scullsingle and scullpriv.
MCPlans == {{p1, p2, p3} \X {"uid", "wuid"}, {p1, p4, p5} \X {"uid", "wuid"},
            {p1, p2, p3, p4} \X {"single", "priv"}}
=============================================================================
