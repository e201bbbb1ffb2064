--------------------------------- MODULE Jiq ---------------------------------
(***************************************************************************)
(* The /proc files of src/jit/jiq.c: a reader hands its page to a work     *)
(* that prints lines into it, each time scheduling itself again, until the *)
(* page is full.  All readers share jiq_data, the work and the wait queue. *)
(* jiqwqdelay differs from jiqwq by the time the work waits only.  There   *)
(* is one processor, on which the kernel is not preempted: neither the     *)
(* assignments of a reader nor jiq_print are interrupted.                  *)
(***************************************************************************)
EXTENDS ProcRead

CONSTANT Limit  \* LIMIT in lines: with more than these the page is full

ASSUME LimitAssumption == Limit \in 0..PageLines - 1

VARIABLES
  len,       \* jiq_data.len
  jbuf,      \* jiq_data.buf: the page and the next line
  pending,   \* whether jiq_work is scheduled
  disturbed  \* history: whether another reader has begun during a read

jiqVars == <<len, jbuf, pending, disturbed>>

JiqWaits == {"jiq_schedule", "jiq_asleep"}
JiqUsing == JiqWaits \cup {"jiq_prepare", "returns"}
JiqLocations == JiqUsing \cup {"jiq"}

JiqInit ==
  /\ len = 0 /\ jbuf = <<NULL, 0>>
  /\ pending = FALSE
  /\ disturbed = [p \in Procs |-> FALSE]

-----------------------------------------------------------------------------
(* jiq_read_wq and jiq_read_wq_delayed *)

JiqSet(p) ==
  /\ Goto(p, "jiq", "jiq_prepare")
  /\ len' = 0
  /\ jbuf' = <<page[p], 1>>
  /\ disturbed' = [q \in Procs |-> q # p /\ (disturbed[q] \/ pc[q] \in JiqUsing)]
  /\ UNCHANGED <<env, page, text, sleeping, signal, n, pending>>

JiqPrepareToWait(p) ==
  /\ Goto(p, "jiq_prepare", "jiq_schedule")
  /\ sleeping' = [sleeping EXCEPT ![p] = TRUE]
  /\ UNCHANGED <<env, page, text, signal, n, jiqVars>>

\* schedule_work, of a work that may be scheduled already.
JiqScheduleWork(p) ==
  /\ Goto(p, "jiq_schedule", "jiq_asleep")
  /\ pending' = TRUE
  /\ UNCHANGED <<env, page, text, sleeping, signal, n, len, jbuf, disturbed>>

\* schedule() returns when the process has been woken, whatever the reason.
JiqReturn(p) ==
  /\ ~sleeping[p]
  /\ Return(p, "jiq_asleep", len)
  /\ UNCHANGED <<text, sleeping, jiqVars>>
-----------------------------------------------------------------------------
(* jiq_print_wq and jiq_print, run by the work queue *)

\* Mutation: one reader is woken when the page is full.
WakeOne ==
  \E q \in {q \in Procs : pc[q] \in JiqWaits /\ sleeping[q]} \cup {NULL} :
    sleeping' = [p \in Procs |-> sleeping[p] /\ p # q]

\* wake_up_interruptible(&jiq_wait)
WakeReaders ==
  sleeping' = [p \in Procs |-> sleeping[p] /\ pc[p] \notin JiqWaits]

\* Mutation: the page is full with one line more.
FullLate(l) == l > Limit + 1

Full(l) == l > Limit

JiqWork ==
  /\ pending
  /\ pending' = ~Full(len)
  /\ IF Full(len)
     THEN /\ WakeReaders
          /\ UNCHANGED <<text, len, jbuf>>
     ELSE /\ text' = Printed(jbuf[1], jbuf[2], "jiq")
          /\ len' = len + 1
          /\ jbuf' = [jbuf EXCEPT ![2] = @ + 1]
          /\ UNCHANGED sleeping
  /\ UNCHANGED <<env, pc, page, signal, n, disturbed>>
-----------------------------------------------------------------------------
JiqBegin(p) == ReadBegin(p, "jiq") /\ UNCHANGED jiqVars
JiqRun(p) ==
  \/ JiqSet(p) \/ JiqPrepareToWait(p) \/ JiqScheduleWork(p)
  \/ JiqReturn(p)
=============================================================================
