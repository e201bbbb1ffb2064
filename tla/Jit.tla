--------------------------------- MODULE Jit ---------------------------------
(***************************************************************************)
(* The /proc files of src/jit/jit.c: four that delay their reader (jit_fn) *)
(* and three that have a timer or a tasklet print lines into the reader's  *)
(* page (jit_timer, jit_tasklet) while it waits.  A tasklet differs from a *)
(* timer in nothing that is modelled here.                                 *)
(***************************************************************************)
EXTENDS ProcRead

CONSTANTS Datas,    \* the memory kmalloc has for struct jit_data
          Loops,    \* JIT_ASYNC_LOOPS
          Delay,    \* the module parameter delay
          Range     \* jiffies wraps to 0 at this value

ASSUME DatasAssumption == NULL \notin Datas
ASSUME LoopsAssumption == Loops \in 1..PageLines - 1
ASSUME JiffiesAssumption == Range \in Nat /\ Delay \in Nat /\ 2 * Delay < Range

VARIABLES
  jiffies,
  j0, j1,   \* the locals of jit_fn
  mine,     \* the jit_data of a process in jit_timer or jit_tasklet, or NULL
  live,     \* the jit_data that are allocated
  handler,  \* of each jit_data: idle, pending (timer, tasklet) or waking
  buf,      \* data->buf: the page and the next line
  loops     \* data->loops

data    == <<mine, live, handler, buf, loops>>
jitVars == <<jiffies, j0, j1, data>>

JitWaits == {"sleep", "check", "asleep"}
JitLocations == JitWaits \cup {"jit_fn", "jit_async", "delay", "prepare", "woken"}

\* jiffies starts shortly before it wraps (INITIAL_JIFFIES).
JitInit ==
  /\ jiffies = Range - 1
  /\ j0 = [p \in Procs |-> 0] /\ j1 = [p \in Procs |-> 0]
  /\ mine = [p \in Procs |-> NULL]
  /\ live = {}
  /\ handler = [d \in Datas |-> "idle"]
  /\ buf = [d \in Datas |-> <<NULL, 0>>]
  /\ loops = [d \in Datas |-> 0]

\* Mutation: values of jiffies are compared as they are.
PlainBefore(a, b) == a < b

\* Differences of jiffies, as unsigned and as signed longs.
Minus(a, b) == (a - b) % Range
TimeBefore(a, b) == Minus(a, b) > Range \div 2
-----------------------------------------------------------------------------
(* jit_fn *)

\* The bound: a process that delays is run before half the range has passed.
\* Time matters to these processes only.
Tick ==
  /\ \E p \in Procs : pc[p] \in {"sleep", "delay"}
  /\ \A p \in Procs :
       pc[p] \in {"sleep", "delay"} => 2 * Minus(jiffies + 1, j0[p]) < Range
  /\ jiffies' = (jiffies + 1) % Range
  /\ UNCHANGED <<procVars, j0, j1, data>>

\* jitbusy and jitsched loop with time_before, jitqueue and jitschedto sleep.
JitFn(p) ==
  /\ Goto(p, "jit_fn", "delay") \/ Goto(p, "jit_fn", "sleep")
  /\ j0' = [j0 EXCEPT ![p] = jiffies]
  /\ j1' = [j1 EXCEPT ![p] = (jiffies + Delay) % Range]
  /\ UNCHANGED <<env, page, text, sleeping, signal, n, jiffies, data>>

\* The line with the times.
FnReturn(p, from) ==
  /\ Return(p, from, 1)
  /\ text' = Printed(page[p], 1, "jit")
  /\ j0' = [j0 EXCEPT ![p] = 0] /\ j1' = [j1 EXCEPT ![p] = 0]
  /\ UNCHANGED <<sleeping, jiffies, data>>

Delayed(p) == ~TimeBefore(jiffies, j1[p]) /\ FnReturn(p, "delay")

\* schedule_timeout, which a signal cuts short.
ScheduleTimeout(p) ==
  /\ Minus(jiffies, j0[p]) >= Delay \/ signal[p]
  /\ FnReturn(p, "sleep")
-----------------------------------------------------------------------------
(* jit_timer and jit_tasklet *)

\* The first lines, printed by the reader, are one line here.
JitAsync(p) ==
  /\ Goto(p, "jit_async", "prepare")
  /\ live # Datas
  /\ LET d == CHOOSE d \in Datas : d \notin live IN
       /\ mine' = [mine EXCEPT ![p] = d]
       /\ live' = live \cup {d}
       /\ buf' = [buf EXCEPT ![d] = <<page[p], 2>>]
       /\ loops' = [loops EXCEPT ![d] = Loops]
       /\ handler' = [handler EXCEPT ![d] = "pending"]
  /\ text' = Printed(page[p], 1, "jit")
  /\ UNCHANGED <<env, page, sleeping, signal, n, jiffies, j0, j1>>

NoMemory(p) ==
  /\ live = Datas
  /\ Return(p, "jit_async", 0)
  /\ UNCHANGED <<text, sleeping, jitVars>>

\* --data->loops
Again(d) == loops[d] > 1

WakeUp(d) == sleeping' = [p \in Procs |-> sleeping[p] /\ mine[p] # d]

\* jit_timer_fn and jit_tasklet_fn.  With several processors the reader may run
\* between the last --data->loops and the wake_up.
JitHandler(d) ==
  /\ handler[d] = "pending"
  /\ text' = Printed(buf[d][1], buf[d][2], "jit")
  /\ buf' = [buf EXCEPT ![d][2] = @ + 1]
  /\ loops' = [loops EXCEPT ![d] = @ - 1]
  /\ IF Again(d) THEN UNCHANGED <<handler, sleeping>>
     ELSE IF env.smp THEN /\ handler' = [handler EXCEPT ![d] = "waking"]
                          /\ UNCHANGED sleeping
     ELSE handler' = [handler EXCEPT ![d] = "idle"] /\ WakeUp(d)
  /\ UNCHANGED <<env, pc, page, signal, n, jiffies, j0, j1, mine, live>>

LateWakeUp(d) ==
  /\ handler[d] = "waking"
  /\ handler' = [handler EXCEPT ![d] = "idle"]
  /\ WakeUp(d)
  /\ UNCHANGED <<env, pc, page, text, signal, n, jiffies, j0, j1, mine, live,
                 buf, loops>>

\* wait_event_interruptible(data->wait, !data->loops)
PrepareToWait(p) ==
  /\ Goto(p, "prepare", "check")
  /\ sleeping' = [sleeping EXCEPT ![p] = TRUE]
  /\ UNCHANGED <<env, page, text, signal, n, jitVars>>

Check(p) ==
  /\ pc[p] = "check"
  /\ IF loops[mine[p]] = 0 \/ signal[p]
     THEN /\ Goto(p, "check", "woken")
          /\ sleeping' = [sleeping EXCEPT ![p] = FALSE]
     ELSE Goto(p, "check", "asleep") /\ UNCHANGED sleeping
  /\ UNCHANGED <<env, page, text, signal, n, jitVars>>

Schedule(p) ==
  /\ Goto(p, "asleep", "prepare")
  /\ ~sleeping[p]
  /\ UNCHANGED <<env, page, text, sleeping, signal, n, jitVars>>

\* Mutation: an interrupted reader frees data, too.
NotInterrupted(p) == FALSE

\* signal_pending(current) when the wait is over: data is left to the handler.
Interrupted(p) == signal[p]

Woken(p) ==
  /\ Return(p, "woken", IF signal[p] THEN 0 ELSE buf[mine[p]][2] - 1)
  /\ live' = IF Interrupted(p) THEN live ELSE live \ {mine[p]}
  /\ mine' = [mine EXCEPT ![p] = NULL]
  /\ UNCHANGED <<text, sleeping, jiffies, j0, j1, handler, buf, loops>>
-----------------------------------------------------------------------------
JitBegin(p) ==
  /\ ReadBegin(p, "jit_fn") \/ ReadBegin(p, "jit_async")
  /\ UNCHANGED jitVars
JitRun(p) ==
  \/ JitFn(p) \/ Delayed(p) \/ ScheduleTimeout(p)
  \/ JitAsync(p) \/ NoMemory(p)
  \/ PrepareToWait(p) \/ Check(p) \/ Schedule(p) \/ Woken(p)
JitInterrupt(d) == JitHandler(d) \/ LateWakeUp(d)
=============================================================================
