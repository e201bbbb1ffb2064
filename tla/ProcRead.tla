------------------------------ MODULE ProcRead ------------------------------
(***************************************************************************)
(* A read of a /proc file as jit.c and jiq.c see it: the kernel            *)
(* (proc_file_read) gets a page, calls the file's function with it, copies *)
(* out as many lines of the page as the function says, and frees the page. *)
(* The page is not cleared.  A process that waits in the function may get  *)
(* a signal.  Jit and Jiq extend this module with the functions.           *)
(***************************************************************************)
EXTENDS Integers

CONSTANTS Procs,
          Pages,        \* the memory there is for them
          PageLines,    \* how many lines a page has room for
          Environments, \* which functions are called?  are there signals?
                        \* several processors?
          NULL

ASSUME PagesAssumption == NULL \notin Pages /\ PageLines \in Nat \ {0}
ASSUME EnvironmentsAssumption ==
  /\ Environments \subseteq [calls : SUBSET {"jit_fn", "jit_async", "jiq"},
                             signals : BOOLEAN, smp : BOOLEAN]
  /\ \A e \in Environments : "jiq" \in e.calls => ~e.smp

VARIABLES
  env,
  pc,       \* where a process is in the function, or "user"
  page,     \* the page of its read, or NULL
  text,     \* who has printed each line of a page that is in use
  sleeping, \* whether a process is on a wait queue and has not been woken
  signal,   \* signal_pending(current)
  n         \* the lines the function has returned, 0 for an error

procVars == <<env, pc, page, text, sleeping, signal, n>>

Junk == [i \in 1..PageLines |-> "junk"]
InUse(g) == \E p \in Procs : page[p] = g

ProcInit ==
  /\ env \in Environments
  /\ pc = [p \in Procs |-> "user"]
  /\ page = [p \in Procs |-> NULL]
  /\ text = [g \in Pages |-> Junk]
  /\ sleeping = [p \in Procs |-> FALSE]
  /\ signal = [p \in Procs |-> FALSE]
  /\ n = [p \in Procs |-> 0]

Goto(p, from, to) == pc[p] = from /\ pc' = [pc EXCEPT ![p] = to]

\* Some page, and what was in it before is junk to the reader.  Without a page
\* the read fails before the function is called.
ReadBegin(p, function) ==
  /\ function \in env.calls
  /\ \E g \in Pages : ~InUse(g)
  /\ Goto(p, "user", function)
  /\ page' = [page EXCEPT ![p] = CHOOSE g \in Pages : ~InUse(g)]
  /\ UNCHANGED <<env, text, sleeping, signal, n>>

\* The function returns so many lines.
Return(p, from, lines) ==
  /\ Goto(p, from, "returns")
  /\ n' = [n EXCEPT ![p] = lines]
  /\ UNCHANGED <<env, page, signal>>

\* The lines are copied out, and the page is freed.
ReadEnd(p) ==
  /\ Goto(p, "returns", "user")
  /\ page' = [page EXCEPT ![p] = NULL]
  /\ text' = [text EXCEPT ![page[p]] = Junk]
  /\ signal' = [signal EXCEPT ![p] = FALSE]
  /\ n' = [n EXCEPT ![p] = 0]
  /\ UNCHANGED <<env, sleeping>>

\* sprintf of a line, which has no effect here outside the pages in use.
Printed(g, line, who) ==
  IF InUse(g) /\ line \in 1..PageLines THEN [text EXCEPT ![g][line] = who] ELSE text

\* A process that waits gets a signal and is woken.
Signal(p, waits) ==
  /\ env.signals /\ pc[p] \in waits /\ ~signal[p]
  /\ signal' = [signal EXCEPT ![p] = TRUE]
  /\ sleeping' = [sleeping EXCEPT ![p] = FALSE]
  /\ UNCHANGED <<env, pc, page, text, n>>
=============================================================================
