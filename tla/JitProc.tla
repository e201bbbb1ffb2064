------------------------------- MODULE JitProc -------------------------------
(***************************************************************************)
(* jit.c and jiq.c loaded together: their readers share the pages, so that *)
(* what one leaves behind may meet the page of another.                    *)
(***************************************************************************)
EXTENDS Jit, Jiq

vars == <<procVars, jitVars, jiqVars>>

Init == ProcInit /\ JitInit /\ JiqInit

End(p) == ReadEnd(p) /\ UNCHANGED <<jitVars, jiqVars>>
Run(p) ==
  \/ JitRun(p) /\ UNCHANGED jiqVars
  \/ JiqRun(p) /\ UNCHANGED jitVars
  \/ End(p)
Begin(p) == \/ JitBegin(p) /\ UNCHANGED jiqVars
            \/ JiqBegin(p) /\ UNCHANGED jitVars
SignalArrives(p) == Signal(p, JitWaits \cup JiqWaits) /\ UNCHANGED <<jitVars, jiqVars>>
Time == Tick /\ UNCHANGED jiqVars
Handler(d) == JitInterrupt(d) /\ UNCHANGED jiqVars
Keventd == JiqWork /\ UNCHANGED jitVars

Next ==
  \/ \E p \in Procs : Begin(p) \/ Run(p) \/ SignalArrives(p)
  \/ \E d \in Datas : Handler(d)
  \/ Time \/ Keventd
Spec == Init /\ [][Next]_vars

\* Time passes, timers, tasklets and works run when they are due, and a reader
\* that can go on does.
Fairness ==
  /\ \A p \in Procs : WF_vars(Run(p))
  /\ \A d \in Datas : WF_vars(Handler(d))
  /\ WF_vars(Time) /\ WF_vars(Keventd)
FairSpec == Spec /\ Fairness
-----------------------------------------------------------------------------
(* Properties *)

TypeOK ==
  /\ env \in Environments
  /\ pc \in [Procs -> JitLocations \cup JiqLocations \cup {"user", "returns"}]
  /\ page \in [Procs -> Pages \cup {NULL}]
  /\ text \in [Pages -> [1..PageLines -> {"junk", "jit", "jiq"}]]
  /\ sleeping \in [Procs -> BOOLEAN] /\ signal \in [Procs -> BOOLEAN]
  /\ n \in [Procs -> Nat]
  /\ jiffies \in 0..Range - 1
  /\ j0 \in [Procs -> 0..Range - 1] /\ j1 \in [Procs -> 0..Range - 1]
  /\ mine \in [Procs -> Datas \cup {NULL}] /\ live \subseteq Datas
  /\ handler \in [Datas -> {"idle", "pending", "waking"}]
  /\ buf \in [Datas -> (Pages \cup {NULL}) \X Nat]
  /\ loops \in [Datas -> Nat]
  /\ len \in Nat /\ jbuf \in (Pages \cup {NULL}) \X Nat
  /\ pending \in BOOLEAN
  /\ disturbed \in [Procs -> BOOLEAN]

\* On one processor no handler is left with a jit_data that was freed, signals
\* or not, and nothing is printed past the end of a page.
NoStrayAccess ==
  /\ TypeOK
  /\ ~env.smp =>
       /\ \A d \in Datas : handler[d] # "idle" => d \in live /\ buf[d][2] <= PageLines
       /\ pending /\ ~Full(len) => jbuf[2] <= PageLines

\* No delay is shorter than asked for, unless it is cut short by a signal,
\* wherever in its range jiffies stands.
DelayKept ==
  [][\A p \in Procs : pc[p] \in {"delay", "sleep"} /\ pc'[p] = "returns"
                        => signal[p] \/ Minus(jiffies, j0[p]) >= Delay]_vars

\* A read that returns lines returns all that belong to it and nothing that was
\* in the page before, without signals; a reader of jiq.c needs to be alone
\* with its page in jiq_data.
ReadIsPrinted ==
  [][\A p \in Procs :
       pc[p] = "returns" /\ pc'[p] = "user" /\ ~env.signals =>
         \/ n[p] \in {0, 1, Loops + 1} /\ \A i \in 1..n[p] : text[page[p]][i] = "jit"
         \/ n[p] = Limit + 1 /\ \A i \in 1..n[p] : text[page[p]][i] = "jiq"
         \/ disturbed[p]]_vars

\* Without signals every read returns: no wake-up is lost, and one of several
\* readers of jiq.c does not leave the others behind.
ReadsReturn == \A p \in Procs : (pc[p] # "user" /\ ~env.signals) ~> (pc[p] = "user")
=============================================================================
