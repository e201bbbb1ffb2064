---------------------------- MODULE JitProcProofs ----------------------------
(***************************************************************************)
(* Theorems about the /proc files of jit.c and jiq.c, for any number of    *)
(* readers, pages, lines and ticks.                                        *)
(***************************************************************************)
EXTENDS JitProc, TLAPS

\* The reads of jit_timer and jit_tasklet that wait for their handler.
Waiting(p) == pc[p] \in {"prepare", "check", "asleep", "woken"}

\* A handler that is due has its data, and lines left to print in its page.
LinesLeft ==
  /\ \A d \in Datas : handler[d] = "pending" => d \in live /\ loops[d] > 0
  /\ \A d \in live : buf[d][2] >= 2 /\ buf[d][2] + loops[d] = Loops + 2
  /\ ~env.smp => \A d \in Datas : handler[d] # "waking"
  /\ jbuf[2] <= len + 1

\* A reader has its data to itself, until the last line is printed or a signal.
DataOwned ==
  /\ \A p \in Procs : /\ mine[p] # NULL <=> Waiting(p)
                      /\ mine[p] # NULL => mine[p] \in live
  /\ \A p, q \in Procs : mine[p] = mine[q] /\ mine[p] # NULL => p = q
  /\ \A p \in Procs : pc[p] = "woken" => loops[mine[p]] = 0 \/ signal[p]

\* jit_fn's process has been waiting for less than half the range of jiffies.
Timely ==
  \A p \in Procs : pc[p] \in {"delay", "sleep"} =>
    /\ j1[p] = (j0[p] + Delay) % Range
    /\ 2 * Minus(jiffies, j0[p]) < Range

\* The steps, by what they work on.
Delays(p)  == JitFn(p) \/ Delayed(p) \/ ScheduleTimeout(p)
Waits(p)   == PrepareToWait(p) \/ Check(p) \/ Schedule(p)

LEMMA StepKinds ==
  ASSUME Next
  PROVE  \/ \E p \in Procs : \/ UNCHANGED jiqVars /\ (Delays(p) \/ JitAsync(p) \/ NoMemory(p))
                             \/ UNCHANGED jiqVars /\ (Waits(p) \/ Woken(p))
                             \/ UNCHANGED jitVars /\ JiqRun(p)
                             \/ Begin(p) \/ End(p) \/ SignalArrives(p)
         \/ \E d \in Datas : Handler(d)
         \/ Time \/ Keventd
BY DEF Next, Run, JitRun, Delays, Waits
-----------------------------------------------------------------------------
(* Types *)

LEMMA ModRange == ASSUME NEW x \in Int PROVE x % Range \in 0..Range - 1
<1>1. Range \in Nat \ {0}  BY JiffiesAssumption
<1>. QED  BY <1>1, Z3

LEMMA PrintedTypes ==
  ASSUME TypeOK, NEW g \in Pages \cup {NULL}, NEW k \in Nat, NEW w \in {"jit", "jiq"}
  PROVE  /\ Printed(g, k, w) \in [Pages -> [1..PageLines -> {"junk", "jit", "jiq"}]]
         /\ \A h \in Pages, i \in 1..PageLines :
              Printed(g, k, w)[h][i] = IF InUse(g) /\ h = g /\ i = k THEN w ELSE text[h][i]
<1>1. text \in [Pages -> [1..PageLines -> {"junk", "jit", "jiq"}]]  BY DEF TypeOK
<1>2. CASE g \in Pages  BY <1>1, <1>2 DEF Printed
<1>3. CASE g \notin Pages  BY <1>1, <1>3 DEF Printed
<1>. QED  BY <1>2, <1>3

LEMMA TypesInit == Init => TypeOK
<1>1. SUFFICES ASSUME Init PROVE TypeOK  OBVIOUS
<1>2. 0 \in 0..Range - 1 /\ Range - 1 \in 0..Range - 1  BY JiffiesAssumption
<1>3. text \in [Pages -> [1..PageLines -> {"junk", "jit", "jiq"}]]
  BY <1>1 DEF Init, ProcInit, Junk
<1>. QED  BY <1>1, <1>2, <1>3 DEF Init, ProcInit, JitInit, JiqInit, TypeOK

LEMMA DelayTypes ==
  ASSUME TypeOK, NEW p \in Procs, Delays(p), UNCHANGED jiqVars PROVE TypeOK'
<1> USE DEF TypeOK, Goto, JitLocations, JitWaits, jiqVars, data
<1>1. CASE JitFn(p)
  <2>1. jiffies \in Int /\ Delay \in Int  BY JiffiesAssumption
  <2>2. jiffies + Delay \in Int  BY <2>1
  <2>3. (jiffies + Delay) % Range \in 0..Range - 1  BY <2>2, ModRange
  <2>. QED  BY <1>1, <2>3 DEF JitFn
<1>2. ASSUME NEW from, FnReturn(p, from) PROVE TypeOK'
  <2>1. Printed(page[p], 1, "jit") \in [Pages -> [1..PageLines -> {"junk", "jit", "jiq"}]]
    BY PrintedTypes
  <2>2. 0 \in 0..Range - 1  BY JiffiesAssumption
  <2>. QED  BY <1>2, <2>1, <2>2 DEF FnReturn, Return
<1>. QED  BY <1>1, <1>2 DEF Delays, Delayed, ScheduleTimeout

LEMMA AsyncTypes ==
  ASSUME TypeOK, NEW p \in Procs, JitAsync(p), UNCHANGED jiqVars PROVE TypeOK'
<1>1. PICK d \in Datas : /\ d \notin live /\ live' = live \cup {d}
                         /\ mine' = [mine EXCEPT ![p] = d]
                         /\ buf' = [buf EXCEPT ![d] = <<page[p], 2>>]
                         /\ loops' = [loops EXCEPT ![d] = Loops]
                         /\ handler' = [handler EXCEPT ![d] = "pending"]
  BY DEF JitAsync, TypeOK
<1>2. text' \in [Pages -> [1..PageLines -> {"junk", "jit", "jiq"}]]
  BY PrintedTypes DEF JitAsync, TypeOK
<1>3. Loops \in Nat  BY LoopsAssumption, PagesAssumption
<1>. QED  BY <1>1, <1>2, <1>3 DEF JitAsync, TypeOK, Goto, JitLocations, JitWaits, jiqVars

LEMMA WaitTypes ==
  ASSUME TypeOK, DataOwned, LinesLeft, NEW p \in Procs, Waits(p) \/ NoMemory(p) \/ Woken(p),
         UNCHANGED jiqVars
  PROVE  TypeOK'
<1> USE DEF TypeOK, Goto, JitLocations, JitWaits, jiqVars, jitVars, data
<1>1. CASE PrepareToWait(p)  BY <1>1 DEF PrepareToWait
<1>2. CASE Check(p)  BY <1>2 DEF Check
<1>3. CASE Schedule(p)  BY <1>3 DEF Schedule
<1>4. CASE NoMemory(p)  BY <1>4 DEF NoMemory, Return
<1>5. CASE Woken(p)
  <2>1. mine[p] \in live /\ buf[mine[p]][2] \in Nat /\ buf[mine[p]][2] >= 2
    BY <1>5 DEF Woken, Return, DataOwned, Waiting, LinesLeft
  <2>2. buf[mine[p]][2] - 1 \in Nat  BY <2>1
  <2>. QED  BY <1>5, <2>2 DEF Woken, Return
<1>. QED  BY <1>1, <1>2, <1>3, <1>4, <1>5 DEF Waits

LEMMA JiqTypes == ASSUME TypeOK, NEW p \in Procs, JiqRun(p), UNCHANGED jitVars PROVE TypeOK'
<1> USE DEF TypeOK, Goto, JiqLocations, JiqUsing, JiqWaits, jiqVars, jitVars, data
<1>1. CASE JiqSet(p)  BY <1>1 DEF JiqSet
<1>2. CASE JiqPrepareToWait(p)  BY <1>2 DEF JiqPrepareToWait
<1>3. CASE JiqScheduleWork(p)  BY <1>3 DEF JiqScheduleWork
<1>4. CASE JiqReturn(p)  BY <1>4 DEF JiqReturn, Return
<1>. QED  BY <1>1, <1>2, <1>3, <1>4 DEF JiqRun

LEMMA BorderTypes ==
  ASSUME TypeOK, NEW p \in Procs, Begin(p) \/ End(p) \/ SignalArrives(p) PROVE TypeOK'
<1> USE DEF TypeOK, Goto, JitLocations, JitWaits, JiqLocations, JiqUsing, JiqWaits, jiqVars, jitVars,
            data
<1>1. CASE Begin(p)
  <2>1. PICK f \in {"jit_fn", "jit_async", "jiq"} : ReadBegin(p, f) /\ UNCHANGED <<jitVars, jiqVars>>
    BY <1>1 DEF Begin, JitBegin, JiqBegin
  <2>. QED  BY <2>1 DEF ReadBegin
<1>2. CASE End(p)
  <2>1. text' \in [Pages -> [1..PageLines -> {"junk", "jit", "jiq"}]]
    BY <1>2 DEF End, ReadEnd, Junk
  <2>. QED  BY <1>2, <2>1 DEF End, ReadEnd
<1>3. CASE SignalArrives(p)  BY <1>3 DEF SignalArrives, Signal
<1>. QED  BY <1>1, <1>2, <1>3

\* What both print functions do to their pointer.
LEMMA NextLine ==
  ASSUME NEW b \in (Pages \cup {NULL}) \X Nat
  PROVE  /\ [b EXCEPT ![2] = @ + 1] = <<b[1], b[2] + 1>>
         /\ b[1] \in Pages \cup {NULL} /\ b[2] \in Nat
OBVIOUS

LEMMA HandlerTypes == ASSUME TypeOK, LinesLeft, NEW d \in Datas, Handler(d) PROVE TypeOK'
<1> USE DEF TypeOK, jiqVars
<1>1. CASE JitHandler(d)
  <2>1. buf[d] \in (Pages \cup {NULL}) \X Nat /\ handler[d] = "pending" /\ loops[d] > 0
    BY <1>1 DEF JitHandler, LinesLeft
  <2>2. text' \in [Pages -> [1..PageLines -> {"junk", "jit", "jiq"}]]
    BY <1>1, <2>1, PrintedTypes DEF JitHandler
  <2>3. buf' \in [Datas -> (Pages \cup {NULL}) \X Nat]
    <3>1. buf' = [buf EXCEPT ![d] = <<buf[d][1], buf[d][2] + 1>>]
      BY <1>1, <2>1, NextLine DEF JitHandler
    <3>. QED  BY <2>1, <3>1
  <2>4. loops' \in [Datas -> Nat]
    <3>1. loops[d] \in Nat /\ loops[d] - 1 \in Nat  BY <2>1
    <3>. QED  BY <1>1, <3>1 DEF JitHandler
  <2>5. sleeping' \in [Procs -> BOOLEAN]  BY <1>1 DEF JitHandler, WakeUp
  <2>6. handler' \in [Datas -> {"idle", "pending", "waking"}]
    <3>1. \/ handler' = handler \/ handler' = [handler EXCEPT ![d] = "waking"]
          \/ handler' = [handler EXCEPT ![d] = "idle"]
      BY ONLY <1>1 DEF JitHandler
    <3>. QED  BY <3>1
  <2>. QED  BY <1>1, <2>2, <2>3, <2>4, <2>5, <2>6 DEF JitHandler, Handler
<1>2. CASE LateWakeUp(d)  BY <1>2 DEF LateWakeUp, WakeUp, Handler
<1>. QED  BY <1>1, <1>2 DEF Handler, JitInterrupt

LEMMA KernelTypes == ASSUME TypeOK, Time \/ Keventd PROVE TypeOK'
<1> USE DEF TypeOK, jiqVars, jitVars, procVars, data
<1>1. CASE Time
  <2>1. jiffies + 1 \in Int  BY JiffiesAssumption
  <2>2. (jiffies + 1) % Range \in 0..Range - 1  BY <2>1, ModRange
  <2>. QED  BY <1>1, <2>2 DEF Time, Tick
<1>2. CASE Keventd
  <2>1. text' \in [Pages -> [1..PageLines -> {"junk", "jit", "jiq"}]]
    <3>1. jbuf[1] \in Pages \cup {NULL} /\ jbuf[2] \in Nat  BY NextLine
    <3>2. Printed(jbuf[1], jbuf[2], "jiq") \in [Pages -> [1..PageLines -> {"junk", "jit", "jiq"}]]
      BY <3>1, PrintedTypes
    <3>3. text' = text \/ text' = Printed(jbuf[1], jbuf[2], "jiq")
      BY <1>2 DEF Keventd, JiqWork
    <3>. QED  BY <3>2, <3>3
  <2>2. jbuf' \in (Pages \cup {NULL}) \X Nat  BY <1>2, NextLine DEF Keventd, JiqWork
  <2>3. sleeping' \in [Procs -> BOOLEAN]  BY <1>2 DEF Keventd, JiqWork, WakeReaders
  <2>4. pending' \in BOOLEAN /\ len' \in Nat  BY <1>2 DEF Keventd, JiqWork, Full
  <2>. QED  BY <1>2, <2>1, <2>2, <2>3, <2>4 DEF Keventd, JiqWork
<1>. QED  BY <1>1, <1>2
-----------------------------------------------------------------------------
(* Data and lines *)

LEMMA LinesKept == ASSUME LinesLeft, UNCHANGED <<env, data, len, jbuf>> PROVE LinesLeft'
BY DEF LinesLeft, data

\* A process outside jit_timer and jit_tasklet stays outside.
LEMMA OwnedKept ==
  ASSUME DataOwned, TypeOK, NEW p \in Procs, ~Waiting(p), ~Waiting(p)', UNCHANGED data,
         \A q \in Procs : q # p => pc'[q] = pc[q] /\ signal'[q] = signal[q]
  PROVE  DataOwned'
<1>1. \A q \in Procs : Waiting(q)' = Waiting(q)  BY DEF Waiting
<1>2. \A q \in Procs : pc'[q] = "woken" => q # p  BY DEF Waiting
<1>. QED  BY <1>1, <1>2 DEF DataOwned, data

LEMMA DelayOwned ==
  ASSUME TypeOK, DataOwned, LinesLeft, NEW p \in Procs, Delays(p) \/ NoMemory(p), UNCHANGED jiqVars
  PROVE  DataOwned' /\ LinesLeft'
<1>1. UNCHANGED <<env, data, len, jbuf, signal>>
  BY DEF Delays, JitFn, Delayed, ScheduleTimeout, FnReturn, NoMemory, Return, jiqVars, jitVars
<1>2. /\ \A q \in Procs : q # p => pc'[q] = pc[q]
      /\ ~Waiting(p) /\ ~Waiting(p)'
  BY DEF Delays, JitFn, Delayed, ScheduleTimeout, FnReturn, NoMemory, Return, Goto, TypeOK, Waiting
<1>. QED  BY <1>1, <1>2, LinesKept, OwnedKept

LEMMA BorderOwned ==
  ASSUME TypeOK, DataOwned, LinesLeft, NEW p \in Procs, Begin(p) \/ End(p)
  PROVE  DataOwned' /\ LinesLeft'
<1>1. UNCHANGED <<env, data, len, jbuf>> /\ \A q \in Procs : q # p => signal'[q] = signal[q]
  BY DEF Begin, JitBegin, JiqBegin, ReadBegin, End, ReadEnd, jiqVars, jitVars, TypeOK
<1>2. /\ \A q \in Procs : q # p => pc'[q] = pc[q]
      /\ ~Waiting(p) /\ ~Waiting(p)'
  BY DEF Begin, JitBegin, JiqBegin, ReadBegin, End, ReadEnd, Goto, TypeOK, Waiting
<1>. QED  BY <1>1, <1>2, LinesKept, OwnedKept

LEMMA SignalOwned ==
  ASSUME TypeOK, DataOwned, LinesLeft, NEW p \in Procs, SignalArrives(p)
  PROVE  DataOwned' /\ LinesLeft'
<1>1. UNCHANGED <<env, data, len, jbuf, pc>> /\ \A q \in Procs : signal[q] => signal'[q]
  BY DEF SignalArrives, Signal, jiqVars, jitVars, TypeOK
<1>2. DataOwned'  BY <1>1 DEF DataOwned, Waiting, data
<1>. QED  BY <1>1, <1>2, LinesKept

LEMMA JiqOwned ==
  ASSUME TypeOK, DataOwned, LinesLeft, NEW p \in Procs, JiqRun(p), UNCHANGED jitVars
  PROVE  DataOwned' /\ LinesLeft'
<1> USE DEF JiqRun, JiqSet, JiqPrepareToWait, JiqScheduleWork, JiqReturn, Return, jiqVars, jitVars
<1>1. UNCHANGED <<env, data, signal>>  OBVIOUS
<1>2. /\ \A q \in Procs : q # p => pc'[q] = pc[q]
      /\ ~Waiting(p) /\ ~Waiting(p)'
  BY DEF Goto, TypeOK, Waiting
<1>3. jbuf'[2] <= len' + 1  BY DEF LinesLeft
<1>4. LinesLeft'  BY <1>1, <1>3 DEF LinesLeft, data
<1>. QED  BY <1>1, <1>2, <1>4, OwnedKept

LEMMA AsyncOwned ==
  ASSUME TypeOK, DataOwned, LinesLeft, NEW p \in Procs, JitAsync(p), UNCHANGED jiqVars
  PROVE  DataOwned' /\ LinesLeft'
<1>1. PICK d \in Datas : /\ d \notin live /\ live' = live \cup {d}
                         /\ mine' = [mine EXCEPT ![p] = d]
                         /\ buf' = [buf EXCEPT ![d] = <<page[p], 2>>]
                         /\ loops' = [loops EXCEPT ![d] = Loops]
                         /\ handler' = [handler EXCEPT ![d] = "pending"]
  BY DEF JitAsync, TypeOK
<1>2. /\ pc[p] = "jit_async" /\ pc'[p] = "prepare" /\ \A q \in Procs : q # p => pc'[q] = pc[q]
      /\ UNCHANGED <<env, signal, len, jbuf>>
  BY DEF JitAsync, Goto, TypeOK, jiqVars
<1>3. Loops \in Nat /\ Loops > 0 /\ d # NULL
  BY LoopsAssumption, PagesAssumption, DatasAssumption
<1>4. LinesLeft'  BY <1>1, <1>2, <1>3 DEF LinesLeft, TypeOK
<1>5. \A q \in Procs : Waiting(q)' <=> Waiting(q) \/ q = p  BY <1>2 DEF Waiting
<1>6. ~Waiting(p)  BY <1>2 DEF Waiting
<1>7. DataOwned'  BY <1>1, <1>2, <1>3, <1>5, <1>6 DEF DataOwned, TypeOK
<1>. QED  BY <1>4, <1>7

LEMMA WaitOwned ==
  ASSUME TypeOK, DataOwned, LinesLeft, NEW p \in Procs, Waits(p), UNCHANGED jiqVars
  PROVE  DataOwned' /\ LinesLeft'
<1> USE DEF Waits, PrepareToWait, Check, Schedule, Goto
<1>1. UNCHANGED <<env, data, len, jbuf, signal>>  BY DEF jiqVars, jitVars
<1>2. /\ \A q \in Procs : q # p => pc'[q] = pc[q]
      /\ Waiting(p) /\ Waiting(p)'
      /\ pc'[p] = "woken" => loops[mine[p]] = 0 \/ signal[p]
  BY DEF TypeOK, Waiting
<1>3. \A q \in Procs : Waiting(q)' = Waiting(q)  BY <1>2 DEF Waiting
<1>4. DataOwned'  BY <1>1, <1>2, <1>3 DEF DataOwned, data
<1>. QED  BY <1>1, <1>4, LinesKept

LEMMA WokenOwned ==
  ASSUME TypeOK, DataOwned, LinesLeft, NEW p \in Procs, Woken(p), UNCHANGED jiqVars
  PROVE  DataOwned' /\ LinesLeft'
<1>1. /\ pc[p] = "woken" /\ pc'[p] = "returns" /\ \A q \in Procs : q # p => pc'[q] = pc[q]
      /\ live' = IF signal[p] THEN live ELSE live \ {mine[p]}
      /\ mine' = [mine EXCEPT ![p] = NULL]
      /\ UNCHANGED <<env, signal, handler, buf, loops, len, jbuf>>
  BY DEF Woken, Return, Goto, Interrupted, TypeOK, jiqVars
<1>2. mine[p] \in live /\ mine[p] # NULL /\ (signal[p] \/ loops[mine[p]] = 0)
  BY <1>1 DEF DataOwned, Waiting
<1>3. LinesLeft'  BY <1>1, <1>2 DEF LinesLeft
<1>4. \A q \in Procs : Waiting(q)' <=> Waiting(q) /\ q # p  BY <1>1 DEF Waiting
<1>5. DataOwned'  BY <1>1, <1>2, <1>4 DEF DataOwned, TypeOK
<1>. QED  BY <1>3, <1>5

LEMMA HandlerOwned ==
  ASSUME TypeOK, DataOwned, LinesLeft, NEW d \in Datas, Handler(d)
  PROVE  DataOwned' /\ LinesLeft'
<1>0. UNCHANGED <<env, pc, signal, mine, live, len, jbuf>>
  BY DEF Handler, JitInterrupt, JitHandler, LateWakeUp, jiqVars
<1>1. CASE JitHandler(d)
  <2>1. /\ handler[d] = "pending" /\ d \in live /\ loops[d] \in Nat /\ loops[d] > 0
        /\ buf[d] \in (Pages \cup {NULL}) \X Nat
    BY <1>1 DEF JitHandler, LinesLeft, TypeOK
  <2>2. buf' = [buf EXCEPT ![d] = <<buf[d][1], buf[d][2] + 1>>]
    BY <1>1, <2>1, NextLine DEF JitHandler
  <2>3. loops' = [loops EXCEPT ![d] = loops[d] - 1]  BY <1>1 DEF JitHandler
  <2>4. /\ \A e \in Datas : e # d => handler'[e] = handler[e]
        /\ handler'[d] = "pending" => loops[d] > 1
        /\ ~env.smp => handler'[d] # "waking"
    BY <1>1, <2>1 DEF JitHandler, Again, TypeOK
  <2>5. LinesLeft'
    <3>1. \A e \in live : e \in Datas /\ buf[e][2] \in Nat /\ loops[e] \in Nat  BY DEF TypeOK
    <3>2. \A e \in live' : buf'[e][2] >= 2 /\ buf'[e][2] + loops'[e] = Loops + 2
      BY <1>0, <2>1, <2>2, <2>3, <3>1 DEF LinesLeft, TypeOK
    <3>3. \A e \in Datas : handler'[e] = "pending" => e \in live' /\ loops'[e] > 0
      BY <1>0, <2>1, <2>3, <2>4 DEF LinesLeft, TypeOK
    <3>. QED  BY <1>0, <2>4, <3>2, <3>3 DEF LinesLeft
  <2>6. \A p \in Procs : mine[p] # NULL /\ loops[mine[p]] = 0 => loops'[mine[p]] = 0
    BY <2>1, <2>3 DEF TypeOK
  <2>7. DataOwned'  BY <1>0, <2>6 DEF DataOwned, Waiting
  <2>. QED  BY <2>5, <2>7
<1>2. CASE LateWakeUp(d)
  <2>1. UNCHANGED <<loops, buf>> /\ handler' = [handler EXCEPT ![d] = "idle"]
    BY <1>2 DEF LateWakeUp
  <2>2. LinesLeft'  BY <1>0, <2>1 DEF LinesLeft, TypeOK
  <2>3. DataOwned'  BY <1>0, <2>1 DEF DataOwned, Waiting
  <2>. QED  BY <2>2, <2>3
<1>. QED  BY <1>1, <1>2 DEF Handler, JitInterrupt

LEMMA KernelOwned ==
  ASSUME TypeOK, DataOwned, LinesLeft, Time \/ Keventd PROVE DataOwned' /\ LinesLeft'
<1>1. UNCHANGED <<env, data, pc, signal>>
  BY DEF Time, Tick, Keventd, JiqWork, jitVars, jiqVars, procVars
<1>2. jbuf'[2] <= len' + 1
  <2>1. CASE Time  BY <2>1 DEF Time, Tick, jiqVars, LinesLeft
  <2>2. CASE Keventd  BY <2>2, NextLine DEF Keventd, JiqWork, LinesLeft, TypeOK
  <2>. QED  BY <2>1, <2>2
<1>3. LinesLeft'  BY <1>1, <1>2 DEF LinesLeft, data
<1>4. DataOwned'  BY <1>1 DEF DataOwned, Waiting, data
<1>. QED  BY <1>3, <1>4
-----------------------------------------------------------------------------
(* jiffies *)

LEMMA ModBy ==
  ASSUME NEW x \in Int, NEW k \in 0..Range - 1, x = k \/ x = k + Range \/ x = k - Range
  PROVE  x % Range = k
<1>1. Range \in Nat \ {0}  BY JiffiesAssumption
<1>2. CASE x = k  BY <1>1, <1>2, Z3
<1>3. CASE x = k + Range  BY <1>1, <1>3, Z3
<1>4. CASE x = k - Range  BY <1>1, <1>4, Z3
<1>. QED  BY <1>2, <1>3, <1>4

\* The difference of two values of jiffies is the number of ticks from one to the
\* other, as long as it is less than Range.
LEMMA MinusIs ==
  ASSUME NEW a \in 0..Range - 1, NEW b \in 0..Range - 1
  PROVE  Minus(a, b) = IF a >= b THEN a - b ELSE a - b + Range
<1>1. Range \in Nat \ {0}  BY JiffiesAssumption
<1>2. PICK k \in Int : k = IF a >= b THEN a - b ELSE a - b + Range
  <2>1. a - b \in Int /\ a - b + Range \in Int  BY <1>1
  <2>2. CASE a >= b  BY <2>1, <2>2
  <2>3. CASE ~(a >= b)  BY <2>1, <2>3
  <2>. QED  BY <2>2, <2>3
<1>3. k \in 0..Range - 1 /\ a - b \in Int /\ (a - b = k \/ a - b = k - Range)  BY <1>1, <1>2
<1>4. (a - b) % Range = k  BY <1>3, ModBy
<1>. QED  BY <1>2, <1>4 DEF Minus

LEMMA AddIs ==
  ASSUME NEW a \in 0..Range - 1, NEW b \in 0..Range - 1
  PROVE  (a + b) % Range = IF a + b < Range THEN a + b ELSE a + b - Range
<1>1. Range \in Nat \ {0}  BY JiffiesAssumption
<1>2. PICK k \in Int : k = IF a + b < Range THEN a + b ELSE a + b - Range  BY <1>1
<1>3. k \in 0..Range - 1 /\ a + b \in Int /\ (a + b = k \/ a + b = k + Range)  BY <1>1, <1>2
<1>4. (a + b) % Range = k  BY <1>3, ModBy
<1>. QED  BY <1>2, <1>4

\* A tick counts as one, at the wrap too.
LEMMA TickMinus ==
  ASSUME NEW a \in 0..Range - 1, NEW b \in 0..Range - 1
  PROVE  Minus((a + 1) % Range, b) = Minus(a + 1, b)
<1>1. Range \in Nat \ {0} /\ a + 1 \in 1..Range  BY JiffiesAssumption
<1>2. CASE a + 1 < Range
  <2>1. (a + 1) % Range = a + 1  BY <1>1, <1>2, ModBy
  <2>. QED  BY <2>1
<1>3. CASE a + 1 = Range
  <2>1. (a + 1) % Range = 0
    <3>1. 0 \in 0..Range - 1 /\ a + 1 = 0 + Range /\ a + 1 \in Int  BY <1>1, <1>3
    <3>. QED  BY <3>1, ModBy
  <2>2. PICK k \in 0..Range - 1 : k = IF b = 0 THEN 0 ELSE Range - b  BY <1>1
  <2>3. 0 - b \in Int /\ (0 - b = k \/ 0 - b = k - Range)  BY <1>1, <2>2
  <2>4. Range - b \in Int /\ (Range - b = k \/ Range - b = k + Range)  BY <1>1, <2>2
  <2>5. (0 - b) % Range = k /\ (Range - b) % Range = k  BY <2>3, <2>4, ModBy
  <2>. QED  BY <1>3, <2>1, <2>5 DEF Minus
<1>. QED  BY <1>1, <1>2, <1>3

\* time_before is right about a moment that is Delay after one at most half the
\* range ago.
LEMMA NotBefore ==
  ASSUME NEW a \in 0..Range - 1, NEW b \in 0..Range - 1, 2 * Minus(a, b) < Range,
         ~TimeBefore(a, (b + Delay) % Range)
  PROVE  Minus(a, b) >= Delay
<1>1. Range \in Nat \ {0} /\ Delay \in 0..Range - 1 /\ 2 * Delay < Range  BY JiffiesAssumption
<1>2. PICK c \in 0..Range - 1 : c = (b + Delay) % Range
  BY <1>1, ModRange
<1>3. c = IF b + Delay < Range THEN b + Delay ELSE b + Delay - Range  BY <1>1, <1>2, AddIs
<1>4. Minus(a, c) = (IF a >= c THEN a - c ELSE a - c + Range)
      /\ Minus(a, b) = (IF a >= b THEN a - b ELSE a - b + Range)
  BY MinusIs
<1>5. Minus(a, c) <= Range \div 2  BY <1>1, <1>2, <1>4 DEF TimeBefore
<1>6. 2 * Minus(a, c) <= Range  BY <1>1, <1>4, <1>5
<1>. QED  BY <1>1, <1>3, <1>4, <1>6

LEMMA TimelyKept ==
  ASSUME Timely, jiffies' = jiffies,
         \A p \in Procs : pc'[p] \in {"delay", "sleep"} =>
           pc[p] \in {"delay", "sleep"} /\ j0'[p] = j0[p] /\ j1'[p] = j1[p]
  PROVE  Timely'
BY DEF Timely, Minus

LEMMA TimelyStep == TypeOK /\ Timely /\ [Next]_vars => Timely'
<1>1. SUFFICES ASSUME TypeOK, Timely, [Next]_vars PROVE Timely'  OBVIOUS
<1>2. CASE UNCHANGED vars  BY <1>1, <1>2, TimelyKept DEF vars, procVars, jitVars
<1>3. CASE Next
  <2> USE DEF jitVars, data
  <2>1. ASSUME NEW p \in Procs, JitFn(p) PROVE Timely'
    <3>1. /\ j0' = [j0 EXCEPT ![p] = jiffies] /\ j1' = [j1 EXCEPT ![p] = (jiffies + Delay) % Range]
          /\ jiffies' = jiffies /\ \A q \in Procs : q # p => pc'[q] = pc[q]
      BY <1>1, <2>1 DEF JitFn, Goto, TypeOK
    <3>2. Minus(jiffies, jiffies) = 0 /\ 0 < Range  BY <1>1, MinusIs, JiffiesAssumption DEF TypeOK
    <3>3. j0'[p] = jiffies /\ j1'[p] = (jiffies + Delay) % Range
          /\ \A q \in Procs : q # p => j0'[q] = j0[q] /\ j1'[q] = j1[q]
      BY <1>1, <3>1 DEF TypeOK
    <3> HIDE DEF data, jitVars
    <3>4. ASSUME NEW q \in Procs, pc'[q] \in {"delay", "sleep"}
          PROVE  j1'[q] = (j0'[q] + Delay) % Range /\ 2 * Minus(jiffies', j0'[q]) < Range
      <4>1. CASE q = p  BY <3>1, <3>2, <3>3, <4>1
      <4>2. CASE q # p  BY <1>1, <3>1, <3>3, <3>4, <4>2 DEF Timely
      <4>. QED  BY <4>1, <4>2
    <3>. QED  BY <3>4 DEF Timely, Minus
  <2>2. ASSUME NEW p \in Procs, UNCHANGED <<jiffies, j0, j1>>, NEW from, NEW to,
               Goto(p, from, to), to \notin {"delay", "sleep"}
        PROVE  Timely'
    <3>1. \A q \in Procs : pc'[q] \in {"delay", "sleep"} => pc'[q] = pc[q]
      BY <1>1, <2>2 DEF Goto, TypeOK
    <3>. QED  BY <1>1, <2>2, <3>1, TimelyKept
  <2>3. ASSUME UNCHANGED <<jiffies, j0, j1, pc>> PROVE Timely'  BY <1>1, <2>3, TimelyKept
  <2>4. ASSUME NEW p \in Procs, NEW from, FnReturn(p, from) PROVE Timely'
    <3>1. \A q \in Procs : pc'[q] \in {"delay", "sleep"} => pc'[q] = pc[q] /\ q # p
      BY <1>1, <2>4 DEF FnReturn, Return, Goto, TypeOK
    <3>2. jiffies' = jiffies /\ \A q \in Procs : q # p => j0'[q] = j0[q] /\ j1'[q] = j1[q]
      BY <1>1, <2>4 DEF FnReturn, TypeOK
    <3>. QED  BY <1>1, <3>1, <3>2, TimelyKept
  <2>5. CASE Time
    <3>1. /\ jiffies' = (jiffies + 1) % Range /\ UNCHANGED <<pc, j0, j1>>
          /\ \A p \in Procs : pc[p] \in {"sleep", "delay"} => 2 * Minus(jiffies + 1, j0[p]) < Range
      BY <2>5 DEF Time, Tick, procVars
    <3>2. \A p \in Procs : Minus(jiffies', j0[p]) = Minus(jiffies + 1, j0[p])
      BY <1>1, <3>1, TickMinus DEF TypeOK
    <3>. QED  BY <1>1, <3>1, <3>2 DEF Timely, Minus
  <2>6. CASE Keventd  BY <2>3, <2>6 DEF Keventd, JiqWork
  <2>7. CASE \E d \in Datas : Handler(d)
    BY <2>3, <2>7 DEF Handler, JitInterrupt, JitHandler, LateWakeUp
  <2>8. ASSUME NEW p \in Procs, Begin(p) \/ End(p) \/ SignalArrives(p) PROVE Timely'
    <3>1. CASE Begin(p)
      <4>1. PICK f \in {"jit_fn", "jit_async", "jiq"} : ReadBegin(p, f) /\ UNCHANGED jitVars
        BY <3>1 DEF Begin, JitBegin, JiqBegin
      <4>. QED  BY <2>2, <4>1 DEF ReadBegin
    <3>2. CASE End(p)  BY <2>2, <3>2 DEF End, ReadEnd
    <3>3. CASE SignalArrives(p)  BY <2>3, <3>3 DEF SignalArrives, Signal
    <3>. QED  BY <2>8, <3>1, <3>2, <3>3
  <2>9. ASSUME NEW p \in Procs, Delays(p) PROVE Timely'
    BY <2>1, <2>4, <2>9 DEF Delays, Delayed, ScheduleTimeout
  <2>10. ASSUME NEW p \in Procs, JitAsync(p) \/ NoMemory(p) \/ Waits(p) \/ Woken(p) PROVE Timely'
    BY <2>2, <2>10 DEF JitAsync, NoMemory, Waits, PrepareToWait, Check, Schedule, Woken, Return
  <2>11. ASSUME NEW p \in Procs, JiqRun(p), UNCHANGED jitVars PROVE Timely'
    BY <2>2, <2>11 DEF JiqRun, JiqSet, JiqPrepareToWait, JiqScheduleWork, JiqReturn, Return
  <2>. QED  BY <1>3, <2>5, <2>6, <2>7, <2>8, <2>9, <2>10, <2>11, StepKinds
<1>. QED  BY <1>1, <1>2, <1>3
-----------------------------------------------------------------------------
Invariant == TypeOK /\ DataOwned /\ LinesLeft /\ Timely

LEMMA InvariantInit == Init => Invariant
<1>1. SUFFICES ASSUME Init PROVE DataOwned /\ LinesLeft /\ Timely  BY TypesInit DEF Invariant
<1>2. DataOwned  BY <1>1 DEF DataOwned, Waiting, Init, ProcInit, JitInit
<1>3. LinesLeft  BY <1>1 DEF LinesLeft, Init, ProcInit, JitInit, JiqInit
<1>4. Timely  BY <1>1 DEF Timely, Init, ProcInit
<1>. QED  BY <1>2, <1>3, <1>4

LEMMA InvariantStep == Invariant /\ [Next]_vars => Invariant'
<1>1. SUFFICES ASSUME TypeOK, DataOwned, LinesLeft, Timely, [Next]_vars
               PROVE  TypeOK' /\ DataOwned' /\ LinesLeft'
  BY TimelyStep DEF Invariant
<1>2. CASE UNCHANGED vars
  <2>1. UNCHANGED <<env, data, len, jbuf, pc, signal>>
    BY <1>2 DEF vars, procVars, jitVars, jiqVars
  <2>2. DataOwned'  BY <1>1, <2>1 DEF DataOwned, Waiting, data
  <2>3. LinesLeft'  BY <1>1, <2>1, LinesKept
  <2>4. TypeOK'  BY <1>1, <1>2 DEF TypeOK, vars, procVars, jitVars, jiqVars, data
  <2>. QED  BY <2>2, <2>3, <2>4
<1>3. CASE Next
  <2>1. ASSUME NEW p \in Procs, UNCHANGED jiqVars, Delays(p) \/ JitAsync(p) \/ NoMemory(p)
        PROVE  TypeOK' /\ DataOwned' /\ LinesLeft'
    BY <1>1, <2>1, DelayTypes, AsyncTypes, WaitTypes, DelayOwned, AsyncOwned
  <2>2. ASSUME NEW p \in Procs, UNCHANGED jiqVars, Waits(p) \/ Woken(p)
        PROVE  TypeOK' /\ DataOwned' /\ LinesLeft'
    BY <1>1, <2>2, WaitTypes, WaitOwned, WokenOwned
  <2>3. ASSUME NEW p \in Procs, UNCHANGED jitVars, JiqRun(p)
        PROVE  TypeOK' /\ DataOwned' /\ LinesLeft'
    BY <1>1, <2>3, JiqTypes, JiqOwned
  <2>4. ASSUME NEW p \in Procs, Begin(p) \/ End(p) \/ SignalArrives(p)
        PROVE  TypeOK' /\ DataOwned' /\ LinesLeft'
    BY <1>1, <2>4, BorderTypes, BorderOwned, SignalOwned
  <2>5. ASSUME NEW d \in Datas, Handler(d) PROVE TypeOK' /\ DataOwned' /\ LinesLeft'
    BY <1>1, <2>5, HandlerTypes, HandlerOwned
  <2>6. CASE Time \/ Keventd  BY <1>1, <2>6, KernelTypes, KernelOwned
  <2>. QED  BY <1>3, <2>1, <2>2, <2>3, <2>4, <2>5, <2>6, StepKinds
<1>. QED  BY <1>1, <1>2, <1>3

THEOREM InvariantHolds == Spec => []Invariant
BY InvariantInit, InvariantStep, PTL DEF Spec

\* On one processor a timer, a tasklet and the work only ever use memory that is
\* still theirs: the jit_data is allocated whenever a handler is due
\* (jit_timer, jit_tasklet and their handlers), and no line is printed past the
\* end of a page.
THEOREM AccessCorrect == Spec => []NoStrayAccess
<1>1. Invariant => NoStrayAccess
  <2>1. SUFFICES ASSUME Invariant, ~env.smp
                 PROVE  /\ \A d \in Datas : handler[d] # "idle" => d \in live /\ buf[d][2] <= PageLines
                        /\ pending /\ ~Full(len) => jbuf[2] <= PageLines
    BY DEF Invariant, NoStrayAccess
  <2>2. ASSUME NEW d \in Datas, handler[d] # "idle" PROVE d \in live /\ buf[d][2] <= PageLines
    <3>1. handler[d] = "pending"  BY <2>1, <2>2 DEF Invariant, TypeOK, LinesLeft
    <3>2. d \in live /\ loops[d] > 0 /\ buf[d][2] + loops[d] = Loops + 2
      BY <2>1, <3>1 DEF Invariant, LinesLeft
    <3>3. loops[d] \in Nat /\ buf[d][2] \in Nat  BY <2>1 DEF Invariant, TypeOK
    <3>. QED  BY <3>2, <3>3, LoopsAssumption, PagesAssumption
  <2>3. ASSUME ~Full(len) PROVE jbuf[2] <= PageLines
    <3>1. len \in Nat /\ jbuf[2] \in Nat /\ jbuf[2] <= len + 1
      BY <2>1 DEF Invariant, TypeOK, LinesLeft
    <3>. QED  BY <2>3, <3>1, LimitAssumption, PagesAssumption DEF Full
  <2>. QED  BY <2>2, <2>3
<1>. QED  BY <1>1, InvariantHolds, PTL

\* jitbusy, jitsched, jitqueue and jitschedto delay their reader for at least
\* the delay asked for, unless a signal comes, also when jiffies wraps meanwhile.
THEOREM DelayCorrect == Spec => DelayKept
<1>1. Invariant /\ [Next]_vars
        => [\A p \in Procs : pc[p] \in {"delay", "sleep"} /\ pc'[p] = "returns"
                               => signal[p] \/ Minus(jiffies, j0[p]) >= Delay]_vars
  <2>1. SUFFICES ASSUME Invariant, Next,
                        NEW p \in Procs, pc[p] \in {"delay", "sleep"}, pc'[p] = "returns"
                 PROVE  signal[p] \/ Minus(jiffies, j0[p]) >= Delay
    OBVIOUS
  <2>2. TypeOK /\ Timely /\ pc'[p] # pc[p]  BY <2>1 DEF Invariant
  <2>3. Delayed(p) \/ ScheduleTimeout(p)
    <3>1. ASSUME NEW q \in Procs, NEW from, NEW to, Goto(q, from, to),
                 from \notin {"delay", "sleep"} \/ to # "returns"
          PROVE  FALSE
      BY <2>1, <2>2, <3>1 DEF Goto, TypeOK
    <3>2. ASSUME NEW q \in Procs, Delays(q) PROVE Delayed(p) \/ ScheduleTimeout(p)
      <4>1. CASE JitFn(q)  BY <3>1, <4>1 DEF JitFn
      <4>2. CASE Delayed(q) \/ ScheduleTimeout(q)
        <5>1. q = p
          BY <2>1, <2>2, <4>2 DEF Delayed, ScheduleTimeout, FnReturn, Return, Goto, TypeOK
        <5>. QED  BY <4>2, <5>1
      <4>. QED  BY <3>2, <4>1, <4>2 DEF Delays
    <3>3. ASSUME NEW q \in Procs, JitAsync(q) \/ NoMemory(q) \/ Waits(q) \/ Woken(q) PROVE FALSE
      BY <2>2, <3>1, <3>3
         DEF JitAsync, NoMemory, Waits, PrepareToWait, Check, Schedule, Woken, Return
    <3>4. ASSUME NEW q \in Procs, JiqRun(q) PROVE FALSE
      BY <3>1, <3>4 DEF JiqRun, JiqSet, JiqPrepareToWait, JiqScheduleWork, JiqReturn, Return
    <3>5. ASSUME NEW q \in Procs, Begin(q) \/ End(q) \/ SignalArrives(q) PROVE FALSE
      BY <2>2, <3>1, <3>5
         DEF Begin, JitBegin, JiqBegin, ReadBegin, End, ReadEnd, SignalArrives, Signal
    <3>6. ~ \E d \in Datas : Handler(d)
      BY <2>2 DEF Handler, JitInterrupt, JitHandler, LateWakeUp
    <3>7. ~Time /\ ~Keventd  BY <2>2 DEF Time, Tick, Keventd, JiqWork, procVars
    <3>. QED  BY <2>1, <3>2, <3>3, <3>4, <3>5, <3>6, <3>7, StepKinds
  <2>4. CASE Delayed(p)
    <3>1. /\ pc[p] = "delay" /\ ~TimeBefore(jiffies, j1[p])
          /\ jiffies \in 0..Range - 1 /\ j0[p] \in 0..Range - 1
      BY <2>2, <2>4 DEF Delayed, FnReturn, Return, Goto, TypeOK
    <3>2. j1[p] = (j0[p] + Delay) % Range /\ 2 * Minus(jiffies, j0[p]) < Range
      BY <2>2, <3>1 DEF Timely
    <3>. QED  BY <3>1, <3>2, NotBefore
  <2>5. CASE ScheduleTimeout(p)  BY <2>5 DEF ScheduleTimeout
  <2>. QED  BY <2>3, <2>4, <2>5
<1>. QED  BY <1>1, InvariantHolds, PTL DEF Spec, DelayKept
-----------------------------------------------------------------------------
(* What is in the pages *)

\* A read has a page to itself from its begin to its end.
PagesOwned ==
  /\ \A p \in Procs : page[p] # NULL <=> pc[p] # "user"
  /\ \A p, q \in Procs : page[p] = page[q] /\ page[p] # NULL => p = q

InJiq(p) == pc[p] \in {"jiq_prepare", "jiq_schedule", "jiq_asleep"}
Has(g, k, who) == \A i \in 1..k : text[g][i] = who

\* The lines before the next one of data->buf are printed.
JitLines(p) ==
  Waiting(p) => /\ buf[mine[p]][1] = page[p]
                /\ Has(page[p], buf[mine[p]][2] - 1, "jit")

\* As are those before the next one of jiq_data, until another reader takes it.
JiqLines(p) ==
  InJiq(p) /\ ~disturbed[p] =>
    /\ jbuf = <<page[p], len + 1>> /\ len <= Limit + 1
    /\ Has(page[p], len, "jiq")
    /\ pc[p] # "jiq_prepare" /\ ~sleeping[p] => Full(len)

Answered(p) ==
  pc[p] = "returns" =>
    \/ n[p] \in {0, 1, Loops + 1} /\ Has(page[p], n[p], "jit")
    \/ n[p] = Limit + 1 /\ Has(page[p], n[p], "jiq")
    \/ disturbed[p]

Printing(p) == ~signal[p] /\ JitLines(p) /\ JiqLines(p) /\ Answered(p)

\* Without signals, allocated data has a reader,
LiveOwned == \A d \in live : \E p \in Procs : mine[p] = d

\* and so has the page of jiq_data, until it is full.
JiqReader ==
  \/ jbuf[1] = NULL \/ Full(len)
  \/ \E q \in Procs : InJiq(q) /\ page[q] = jbuf[1] /\ (pc[q] # "jiq_prepare" => sleeping[q])

Unmixed == (\A p \in Procs : Printing(p)) /\ LiveOwned /\ JiqReader

LEMMA PagesKept ==
  ASSUME PagesOwned, UNCHANGED page, \A p \in Procs : pc'[p] = "user" <=> pc[p] = "user"
  PROVE  PagesOwned'
BY DEF PagesOwned

LEMMA GotoPages ==
  ASSUME TypeOK, PagesOwned, NEW p \in Procs, NEW from, NEW to, Goto(p, from, to), UNCHANGED page,
         from # "user" /\ to # "user"
  PROVE  PagesOwned'
BY PagesKept DEF Goto, TypeOK

LEMMA PagesStep == TypeOK /\ PagesOwned /\ [Next]_vars => PagesOwned'
<1>1. SUFFICES ASSUME TypeOK, PagesOwned, [Next]_vars PROVE PagesOwned'  OBVIOUS
<1>2. CASE UNCHANGED vars  BY <1>1, <1>2, PagesKept DEF vars, procVars
<1>3. CASE Next
  <2>1. ASSUME UNCHANGED <<pc, page>> PROVE PagesOwned'  BY <1>1, <2>1, PagesKept
  <2>2. ASSUME NEW p \in Procs, Begin(p) PROVE PagesOwned'
    <3>1. PICK f \in {"jit_fn", "jit_async", "jiq"} : ReadBegin(p, f)
      BY <2>2 DEF Begin, JitBegin, JiqBegin
    <3>2. PICK g \in Pages : ~InUse(g) /\ page' = [page EXCEPT ![p] = g]  BY <3>1 DEF ReadBegin
    <3>3. g # NULL /\ \A q \in Procs : page[q] # g  BY <3>2, PagesAssumption DEF InUse
    <3>4. pc' = [pc EXCEPT ![p] = f] /\ pc[p] = "user"  BY <3>1 DEF ReadBegin, Goto
    <3>. QED  BY <1>1, <3>2, <3>3, <3>4 DEF PagesOwned, TypeOK
  <2>3. ASSUME NEW p \in Procs, End(p) PROVE PagesOwned'
    BY <1>1, <2>3 DEF End, ReadEnd, Goto, PagesOwned, TypeOK
  <2>4. ASSUME NEW p \in Procs, Delays(p) \/ JitAsync(p) \/ NoMemory(p) PROVE PagesOwned'
    BY <1>1, <2>4, GotoPages
       DEF Delays, JitFn, Delayed, ScheduleTimeout, FnReturn, JitAsync, NoMemory, Return
  <2>5. ASSUME NEW p \in Procs, Waits(p) \/ Woken(p) PROVE PagesOwned'
    BY <1>1, <2>5, GotoPages DEF Waits, PrepareToWait, Check, Schedule, Woken, Return
  <2>6. ASSUME NEW p \in Procs, JiqRun(p) PROVE PagesOwned'
    BY <1>1, <2>6, GotoPages
       DEF JiqRun, JiqSet, JiqPrepareToWait, JiqScheduleWork, JiqReturn, Return
  <2>7. ASSUME NEW p \in Procs, SignalArrives(p) PROVE PagesOwned'
    BY <2>1, <2>7 DEF SignalArrives, Signal
  <2>8. ASSUME NEW d \in Datas, Handler(d) PROVE PagesOwned'
    BY <2>1, <2>8 DEF Handler, JitInterrupt, JitHandler, LateWakeUp
  <2>9. CASE Time \/ Keventd  BY <2>1, <2>9 DEF Time, Tick, Keventd, JiqWork, procVars
  <2>. QED  BY <1>3, <2>2, <2>3, <2>4, <2>5, <2>6, <2>7, <2>8, <2>9, StepKinds
<1>. QED  BY <1>1, <1>2, <1>3

\* The step of another process, or of a handler or work for another process.
LEMMA PrintingKept ==
  ASSUME TypeOK, DataOwned, PagesOwned, NEW p \in Procs, Printing(p),
         UNCHANGED <<len, jbuf>>,
         pc'[p] = pc[p] /\ page'[p] = page[p] /\ n'[p] = n[p] /\ signal'[p] = signal[p]
           /\ mine'[p] = mine[p] /\ disturbed'[p] = disturbed[p],
         InJiq(p) => sleeping'[p] = sleeping[p],
         mine[p] # NULL => buf'[mine[p]] = buf[mine[p]],
         page[p] # NULL => text'[page[p]] = text[page[p]]
  PROVE  Printing(p)'
<1>1. CASE pc[p] = "user"
  BY <1>1 DEF Printing, JitLines, JiqLines, Answered, Waiting, InJiq
<1>2. CASE pc[p] # "user"
  <2>1. text'[page'[p]] = text[page[p]]  BY <1>2 DEF PagesOwned
  <2>2. JitLines(p)'
    <3>1. Waiting(p)' => Waiting(p) /\ buf'[mine'[p]] = buf[mine[p]]  BY DEF Waiting, DataOwned
    <3>. QED  BY <2>1, <3>1 DEF Printing, JitLines, Has
  <2>3. JiqLines(p)'  BY <2>1 DEF Printing, JiqLines, InJiq, Has, Full
  <2>4. Answered(p)'  BY <2>1 DEF Printing, Answered, Has
  <2>. QED  BY <2>2, <2>3, <2>4 DEF Printing
<1>. QED  BY <1>1, <1>2

\* A line is printed into its page only.
LEMMA PrintedElsewhere ==
  ASSUME TypeOK, NEW g \in Pages \cup {NULL}, NEW k \in Nat, NEW w \in {"jit", "jiq"},
         text' = Printed(g, k, w), NEW h \in Pages, h # g
  PROVE  text'[h] = text[h]
<1>1. text \in [Pages -> [1..PageLines -> {"junk", "jit", "jiq"}]]  BY DEF TypeOK
<1>2. CASE g \in Pages  BY <1>1, <1>2 DEF Printed
<1>3. CASE g \notin Pages  BY <1>1, <1>3 DEF Printed
<1>. QED  BY <1>2, <1>3

\* The next line, in a page with room for it.
LEMMA HasNext ==
  ASSUME TypeOK, NEW p \in Procs, page[p] # NULL, NEW k \in 1..PageLines, NEW w \in {"jit", "jiq"},
         text' = Printed(page[p], k, w), Has(page[p], k - 1, w)
  PROVE  \A i \in 1..k : text'[page[p]][i] = w
<1>1. page[p] \in Pages /\ k \in Nat /\ InUse(page[p])  BY PagesAssumption DEF TypeOK, InUse
<1>2. \A i \in 1..PageLines : text'[page[p]][i] = IF i = k THEN w ELSE text[page[p]][i]
  BY <1>1, PrintedTypes
<1>3. \A i \in 1..k : i \in 1..PageLines /\ (i # k => i \in 1..k - 1)  BY PagesAssumption
<1>. QED  BY <1>2, <1>3 DEF Has

\* The step of p leaves the processes beside it as they were.
Beside(p) ==
  \A q \in Procs : q # p =>
    /\ pc'[q] = pc[q] /\ page'[q] = page[q] /\ n'[q] = n[q] /\ signal'[q] = signal[q]
    /\ mine'[q] = mine[q] /\ disturbed'[q] = disturbed[q] /\ sleeping'[q] = sleeping[q]
    /\ mine[q] # NULL => buf'[mine[q]] = buf[mine[q]]
    /\ page[q] # NULL => text'[page[q]] = text[page[q]]

LEMMA BesideKept ==
  ASSUME TypeOK, DataOwned, PagesOwned, Unmixed, NEW p \in Procs, Beside(p), UNCHANGED <<len, jbuf>>,
         Printing(p)', LiveOwned',
         InJiq(p) /\ (pc[p] # "jiq_prepare" => sleeping[p]) =>
           /\ InJiq(p)' /\ page'[p] = page[p]
           /\ pc'[p] # "jiq_prepare" => sleeping'[p]
  PROVE  Unmixed'
<1>1. ASSUME NEW q \in Procs, q # p PROVE Printing(q)'
  BY <1>1, PrintingKept DEF Beside, Unmixed
<1>2. JiqReader'
  <2>1. CASE jbuf[1] = NULL \/ Full(len)  BY <2>1 DEF JiqReader, Full
  <2>2. ASSUME NEW q \in Procs, InJiq(q), page[q] = jbuf[1], pc[q] # "jiq_prepare" => sleeping[q]
        PROVE  JiqReader'
    <3>1. InJiq(q)' /\ page'[q] = jbuf'[1] /\ (pc'[q] # "jiq_prepare" => sleeping'[q])
      <4>1. CASE q = p  BY <2>2, <4>1
      <4>2. CASE q # p  BY <2>2, <4>2 DEF Beside, InJiq
      <4>. QED  BY <4>1, <4>2
    <3>. QED  BY <3>1 DEF JiqReader
  <2>. QED  BY <2>1, <2>2 DEF Unmixed, JiqReader
<1>. QED  BY <1>1, <1>2 DEF Unmixed

\* A line printed by p into its own page is no one else's.
LEMMA OwnPage ==
  ASSUME TypeOK, PagesOwned, NEW p \in Procs, page[p] # NULL, NEW k \in Nat, NEW w \in {"jit", "jiq"},
         text' = Printed(page[p], k, w), NEW q \in Procs, q # p, page[q] # NULL
  PROVE  text'[page[q]] = text[page[q]]
<1>1. page[p] \in Pages \cup {NULL} /\ page[q] \in Pages /\ page[q] # page[p]
  BY DEF TypeOK, PagesOwned
<1>. QED  BY <1>1, PrintedElsewhere

LEMMA DelayUnmixed ==
  ASSUME TypeOK, DataOwned, PagesOwned, Unmixed, NEW p \in Procs, Delays(p), UNCHANGED jiqVars
  PROVE  Unmixed'
<1>1. /\ UNCHANGED <<len, jbuf, disturbed, page, signal, sleeping, mine, live, buf>>
      /\ ~InJiq(p) /\ ~Waiting(p)' /\ ~InJiq(p)' /\ page[p] # NULL
      /\ \A q \in Procs : q # p => pc'[q] = pc[q] /\ n'[q] = n[q]
      /\ ~signal[p]
  BY DEF Delays, JitFn, Delayed, ScheduleTimeout, FnReturn, Return, Goto, TypeOK, InJiq, Waiting,
         PagesOwned, Unmixed, Printing, jiqVars, data
<1>2. LiveOwned'  BY <1>1 DEF Unmixed, LiveOwned
<1>3. CASE JitFn(p)
  <2>1. text' = text /\ pc'[p] # "returns"  BY <1>3 DEF JitFn, Goto, TypeOK
  <2>2. Printing(p)' /\ Beside(p)  BY <1>1, <2>1 DEF Printing, JitLines, JiqLines, Answered, Beside
  <2>. QED  BY <1>1, <1>2, <2>2, BesideKept
<1>4. CASE Delayed(p) \/ ScheduleTimeout(p)
  <2>1. text' = Printed(page[p], 1, "jit") /\ n'[p] = 1
    BY <1>4 DEF Delayed, ScheduleTimeout, FnReturn, Return, TypeOK
  <2>2. Beside(p)  BY <1>1, <2>1, OwnPage DEF Beside
  <2>3. 1 \in 1..PageLines  BY PagesAssumption
  <2>4. Has(page[p], 0, "jit")  BY DEF Has
  <2>5. \A i \in 1..1 : text'[page[p]][i] = "jit"  BY <1>1, <2>1, <2>3, <2>4, HasNext
  <2>6. Printing(p)'  BY <1>1, <2>1, <2>5 DEF Printing, JitLines, JiqLines, Answered, Has
  <2>. QED  BY <1>1, <1>2, <2>2, <2>6, BesideKept
<1>. QED  BY <1>3, <1>4 DEF Delays

LEMMA AsyncUnmixed ==
  ASSUME TypeOK, DataOwned, PagesOwned, Unmixed, NEW p \in Procs, JitAsync(p), UNCHANGED jiqVars
  PROVE  Unmixed'
<1>1. PICK d \in Datas : /\ d \notin live /\ live' = live \cup {d}
                         /\ mine' = [mine EXCEPT ![p] = d]
                         /\ buf' = [buf EXCEPT ![d] = <<page[p], 2>>]
  BY DEF JitAsync, TypeOK
<1>2. /\ pc[p] = "jit_async" /\ pc'[p] = "prepare" /\ \A q \in Procs : q # p => pc'[q] = pc[q]
      /\ UNCHANGED <<page, signal, sleeping, n, len, jbuf, disturbed>>
      /\ text' = Printed(page[p], 1, "jit")
  BY DEF JitAsync, Goto, TypeOK, jiqVars
<1>3. page[p] # NULL /\ ~signal[p]  BY <1>2 DEF PagesOwned, Unmixed, Printing
<1>4. \A q \in Procs : q # p => mine'[q] = mine[q] /\ (mine[q] # NULL => mine[q] \in live)
  BY <1>1 DEF TypeOK, DataOwned
<1>5. Beside(p)
  <2>1. \A q \in Procs : q # p /\ page[q] # NULL => text'[page[q]] = text[page[q]]
    BY <1>2, <1>3, OwnPage
  <2>2. \A e \in live : buf'[e] = buf[e]  BY <1>1 DEF TypeOK
  <2>. QED  BY <1>2, <1>4, <2>1, <2>2 DEF Beside
<1>6. mine'[p] = d /\ buf'[d] = <<page[p], 2>>  BY <1>1 DEF TypeOK
<1>7. Printing(p)'
  <2>1. 1 \in 1..PageLines  BY PagesAssumption
  <2>2. Has(page[p], 0, "jit")  BY DEF Has
  <2>3. \A i \in 1..1 : text'[page[p]][i] = "jit"  BY <1>2, <1>3, <2>1, <2>2, HasNext
  <2>. QED  BY <1>2, <1>3, <1>6, <2>3 DEF Printing, JitLines, JiqLines, Answered, InJiq, Has
<1>8. LiveOwned'
  <2>1. ASSUME NEW e \in live PROVE \E q \in Procs : mine'[q] = e
    <3>1. PICK q \in Procs : mine[q] = e  BY DEF Unmixed, LiveOwned
    <3>2. e # NULL  BY DatasAssumption DEF TypeOK
    <3>3. q # p  BY <1>2, <3>1, <3>2 DEF DataOwned, Waiting
    <3>. QED  BY <1>4, <3>1, <3>3
  <2>. QED  BY <1>1, <1>6, <2>1 DEF LiveOwned
<1>9. ~InJiq(p)  BY <1>2 DEF InJiq
<1>. QED  BY <1>2, <1>5, <1>7, <1>8, <1>9, BesideKept

LEMMA WaitUnmixed ==
  ASSUME TypeOK, DataOwned, PagesOwned, Unmixed, NEW p \in Procs, Waits(p) \/ NoMemory(p),
         UNCHANGED jiqVars
  PROVE  Unmixed'
<1> USE DEF Waits, PrepareToWait, Check, Schedule, NoMemory, Return, Goto, jiqVars, jitVars, data
<1>1. /\ UNCHANGED <<len, jbuf, disturbed, page, signal, text, mine, live, buf>>
      /\ ~InJiq(p) /\ ~InJiq(p)' /\ page[p] # NULL /\ ~signal[p]
      /\ Waiting(p)' => Waiting(p)
      /\ pc'[p] = "returns" => n'[p] = 0
      /\ \A q \in Procs : q # p => pc'[q] = pc[q] /\ n'[q] = n[q] /\ sleeping'[q] = sleeping[q]
  BY DEF TypeOK, InJiq, Waiting, PagesOwned, Unmixed, Printing
<1> HIDE DEF Waits, PrepareToWait, Check, Schedule, NoMemory, Return, Goto, jiqVars, jitVars, data
<1>2. LiveOwned'  BY <1>1 DEF Unmixed, LiveOwned
<1>3. Beside(p)  BY <1>1 DEF Beside
<1>4. Printing(p)'
  BY <1>1 DEF Unmixed, Printing, JitLines, JiqLines, Answered, Has
<1>. QED  BY <1>1, <1>2, <1>3, <1>4, BesideKept

LEMMA WokenUnmixed ==
  ASSUME TypeOK, DataOwned, LinesLeft, PagesOwned, Unmixed, NEW p \in Procs, Woken(p),
         UNCHANGED jiqVars
  PROVE  Unmixed'
<1>1. /\ pc[p] = "woken" /\ pc'[p] = "returns" /\ \A q \in Procs : q # p => pc'[q] = pc[q]
      /\ live' = IF signal[p] THEN live ELSE live \ {mine[p]}
      /\ mine' = [mine EXCEPT ![p] = NULL]
      /\ n' = [n EXCEPT ![p] = IF signal[p] THEN 0 ELSE buf[mine[p]][2] - 1]
      /\ UNCHANGED <<page, text, sleeping, signal, buf, len, jbuf, disturbed>>
  BY DEF Woken, Return, Goto, Interrupted, TypeOK, jiqVars
<1>2. Waiting(p) /\ ~signal[p] /\ ~InJiq(p) /\ ~InJiq(p)' /\ ~Waiting(p)'
  BY <1>1 DEF Waiting, InJiq, Unmixed, Printing
<1>3. /\ mine[p] \in live /\ mine[p] \in Datas /\ loops[mine[p]] = 0
      /\ buf[mine[p]][2] \in Nat /\ buf[mine[p]][2] + loops[mine[p]] = Loops + 2
  BY <1>1, <1>2 DEF DataOwned, LinesLeft, TypeOK
<1>4. n'[p] = Loops + 1 /\ buf[mine[p]][2] - 1 = Loops + 1
  BY <1>1, <1>2, <1>3, LoopsAssumption, PagesAssumption DEF TypeOK
<1>5. Has(page[p], Loops + 1, "jit")  BY <1>2, <1>4 DEF Unmixed, Printing, JitLines
<1>6. Printing(p)'
  BY <1>1, <1>2, <1>4, <1>5 DEF Printing, JitLines, JiqLines, Answered, Has
<1>7. Beside(p)  BY <1>1 DEF Beside, TypeOK
<1>8. LiveOwned'
  <2>1. ASSUME NEW e \in live, e # mine[p] PROVE \E q \in Procs : mine'[q] = e
    <3>1. PICK q \in Procs : mine[q] = e  BY DEF Unmixed, LiveOwned
    <3>. QED  BY <1>1, <2>1, <3>1 DEF TypeOK
  <2>. QED  BY <1>1, <1>2, <2>1 DEF LiveOwned
<1>. QED  BY <1>1, <1>2, <1>6, <1>7, <1>8, BesideKept

LEMMA BorderUnmixed ==
  ASSUME TypeOK, DataOwned, PagesOwned, Unmixed, NEW p \in Procs, Begin(p) \/ End(p)
  PROVE  Unmixed'
<1>1. CASE Begin(p)
  <2>1. PICK f \in {"jit_fn", "jit_async", "jiq"} : ReadBegin(p, f) /\ UNCHANGED <<jitVars, jiqVars>>
    BY <1>1 DEF Begin, JitBegin, JiqBegin
  <2>2. /\ UNCHANGED <<len, jbuf, disturbed, signal, text, sleeping, n, mine, live, buf>>
        /\ \A q \in Procs : q # p => pc'[q] = pc[q] /\ page'[q] = page[q]
        /\ pc[p] = "user" /\ pc'[p] = f
    BY <2>1 DEF ReadBegin, Goto, TypeOK, jitVars, jiqVars, data
  <2>3. Beside(p)  BY <2>2 DEF Beside
  <2>4. ~InJiq(p) /\ ~InJiq(p)' /\ ~Waiting(p)' /\ pc'[p] # "returns" /\ ~signal[p]
    BY <2>2 DEF InJiq, Waiting, Unmixed, Printing
  <2>5. Printing(p)'  BY <2>2, <2>4 DEF Printing, JitLines, JiqLines, Answered
  <2>6. LiveOwned'  BY <2>2 DEF Unmixed, LiveOwned
  <2>. QED  BY <2>2, <2>3, <2>4, <2>5, <2>6, BesideKept
<1>2. CASE End(p)
  <2>1. /\ UNCHANGED <<len, jbuf, disturbed, sleeping, mine, live, buf>>
        /\ \A q \in Procs : q # p => /\ pc'[q] = pc[q] /\ page'[q] = page[q]
                                     /\ signal'[q] = signal[q] /\ n'[q] = n[q]
        /\ pc[p] = "returns" /\ pc'[p] = "user" /\ ~signal'[p]
        /\ text' = [text EXCEPT ![page[p]] = Junk]
    BY <1>2 DEF End, ReadEnd, Goto, TypeOK, jitVars, jiqVars, data
  <2>2. \A q \in Procs : q # p /\ page[q] # NULL => text'[page[q]] = text[page[q]]
    BY <2>1 DEF TypeOK, PagesOwned
  <2>3. Beside(p)  BY <2>1, <2>2 DEF Beside
  <2>4. ~InJiq(p) /\ ~InJiq(p)' /\ ~Waiting(p)'  BY <2>1 DEF InJiq, Waiting
  <2>5. Printing(p)'  BY <2>1, <2>4 DEF Printing, JitLines, JiqLines, Answered
  <2>6. LiveOwned'  BY <2>1 DEF Unmixed, LiveOwned
  <2>. QED  BY <2>1, <2>3, <2>4, <2>5, <2>6, BesideKept
<1>. QED  BY <1>1, <1>2

LEMMA JiqUnmixed ==
  ASSUME TypeOK, DataOwned, PagesOwned, Unmixed, NEW p \in Procs, JiqRun(p), UNCHANGED jitVars
  PROVE  Unmixed'
<1> USE DEF Return, Goto, jitVars, jiqVars, data
<1>1. UNCHANGED <<page, signal, text, mine, live, buf>>
  BY DEF JiqRun, JiqSet, JiqPrepareToWait, JiqScheduleWork, JiqReturn
<1>2. LiveOwned'  BY <1>1 DEF Unmixed, LiveOwned
<1>3. ~signal[p] /\ JiqLines(p)  BY DEF Unmixed, Printing
<1>4. CASE JiqSet(p)
  <2>1. /\ pc[p] = "jiq" /\ pc'[p] = "jiq_prepare" /\ \A q \in Procs : q # p => pc'[q] = pc[q]
        /\ UNCHANGED <<sleeping, n>>
        /\ len' = 0 /\ jbuf' = <<page[p], 1>>
        /\ disturbed' = [q \in Procs |-> q # p /\ (disturbed[q] \/ pc[q] \in JiqUsing)]
    BY <1>4 DEF JiqSet, TypeOK
  <2>2. Printing(p)'
    <3>1. ~Waiting(p)' /\ pc'[p] # "returns" /\ ~signal'[p]  BY <1>1, <1>3, <2>1 DEF Waiting
    <3>2. 0 <= Limit + 1  BY LimitAssumption, PagesAssumption
    <3>3. JiqLines(p)'  BY <1>1, <2>1, <3>2 DEF JiqLines, Has
    <3>. QED  BY <3>1, <3>3 DEF Printing, JitLines, Answered
  <2>3. ASSUME NEW q \in Procs, q # p PROVE Printing(q)'
    <3>1. InJiq(q) \/ pc[q] = "returns" => disturbed'[q]
      BY <2>1, <2>3 DEF InJiq, JiqUsing, JiqWaits
    <3>2. JiqLines(q)' /\ Answered(q)'  BY <2>1, <2>3, <3>1 DEF JiqLines, Answered, InJiq
    <3>3. JitLines(q)'  BY <1>1, <2>1, <2>3 DEF Unmixed, Printing, JitLines, Waiting, Has
    <3>. QED  BY <1>1, <3>2, <3>3 DEF Unmixed, Printing
  <2>4. JiqReader'
    <3>1. InJiq(p)' /\ page'[p] = jbuf'[1] /\ pc'[p] = "jiq_prepare"  BY <1>1, <2>1 DEF InJiq
    <3>. QED  BY <3>1 DEF JiqReader
  <2>. QED  BY <1>2, <2>2, <2>3, <2>4 DEF Unmixed
<1>5. CASE JiqPrepareToWait(p) \/ JiqScheduleWork(p)
  <2>1. /\ InJiq(p) /\ InJiq(p)' /\ ~Waiting(p)' /\ pc'[p] # "returns"
        /\ UNCHANGED <<len, jbuf, disturbed, n>>
        /\ \A q \in Procs : q # p => pc'[q] = pc[q] /\ sleeping'[q] = sleeping[q]
    BY <1>5 DEF JiqPrepareToWait, JiqScheduleWork, InJiq, Waiting, TypeOK
  <2>2. Beside(p)  BY <1>1, <2>1 DEF Beside
  <2>3. \/ sleeping'[p]
        \/ pc[p] = "jiq_schedule" /\ sleeping'[p] = sleeping[p]
    BY <1>5 DEF JiqPrepareToWait, JiqScheduleWork, TypeOK
  <2>4. Printing(p)'
    <3>1. JiqLines(p)'  BY <1>1, <1>3, <2>1, <2>3 DEF JiqLines, Has, Full
    <3>. QED  BY <1>1, <1>3, <2>1, <3>1 DEF Printing, JitLines, Answered
  <2>5. (pc[p] # "jiq_prepare" => sleeping[p]) => sleeping'[p]  BY <2>3
  <2>. QED  BY <1>1, <1>2, <2>1, <2>2, <2>4, <2>5, BesideKept
<1>6. CASE JiqReturn(p)
  <2>1. /\ pc[p] = "jiq_asleep" /\ pc'[p] = "returns" /\ \A q \in Procs : q # p => pc'[q] = pc[q]
        /\ UNCHANGED <<sleeping, len, jbuf, disturbed>> /\ n' = [n EXCEPT ![p] = len] /\ ~sleeping[p]
    BY <1>6 DEF JiqReturn, TypeOK
  <2>2. Beside(p)  BY <1>1, <2>1 DEF Beside, TypeOK
  <2>3. InJiq(p) /\ ~InJiq(p)' /\ ~Waiting(p)'  BY <2>1 DEF InJiq, Waiting
  <2>4. n'[p] = len  BY <2>1 DEF TypeOK
  <2>5. ~disturbed[p] => len = Limit + 1 /\ Has(page[p], len, "jiq")
    BY <1>3, <2>1, <2>3, LimitAssumption, PagesAssumption DEF JiqLines, Full, TypeOK
  <2>6. Printing(p)'
    BY <1>1, <1>3, <2>1, <2>3, <2>4, <2>5 DEF Printing, JitLines, JiqLines, Answered, Has
  <2>. QED  BY <1>2, <2>1, <2>2, <2>3, <2>6, BesideKept
<1>. QED  BY <1>4, <1>5, <1>6 DEF JiqRun

\* The handlers and the work print for the reader that their pointer belongs to.
LEMMA HandlerUnmixed ==
  ASSUME TypeOK, DataOwned, LinesLeft, PagesOwned, Unmixed, NEW d \in Datas, Handler(d)
  PROVE  Unmixed'
<1>1. /\ UNCHANGED <<pc, page, n, signal, mine, live, disturbed, len, jbuf>>
      /\ sleeping' = sleeping \/ WakeUp(d)
  BY DEF Handler, JitInterrupt, JitHandler, LateWakeUp, jiqVars
<1>2. \A q \in Procs : InJiq(q) => sleeping'[q] = sleeping[q]
  <2>1. ASSUME NEW q \in Procs, InJiq(q) PROVE mine[q] # d
    <3>1. mine[q] = NULL  BY <2>1 DEF DataOwned, Waiting, InJiq
    <3>. QED  BY <3>1, DatasAssumption
  <2>2. ASSUME NEW q \in Procs, InJiq(q), WakeUp(d) PROVE sleeping'[q] = sleeping[q]
    <3>1. sleeping'[q] = (sleeping[q] /\ mine[q] # d)  BY <2>2 DEF WakeUp
    <3>2. sleeping[q] \in BOOLEAN  BY DEF TypeOK
    <3>. QED  BY <2>1, <2>2, <3>1, <3>2
  <2>. QED  BY <1>1, <2>2
<1>3. LiveOwned' /\ JiqReader'
  BY <1>1, <1>2 DEF Unmixed, LiveOwned, JiqReader, Full, InJiq
<1>4. CASE JitHandler(d)
  <2>1. /\ handler[d] = "pending" /\ d \in live /\ loops[d] \in Nat /\ loops[d] > 0
        /\ buf[d][2] >= 2 /\ buf[d][2] + loops[d] = Loops + 2
        /\ buf[d] \in (Pages \cup {NULL}) \X Nat
        /\ text' = Printed(buf[d][1], buf[d][2], "jit")
    BY <1>4 DEF JitHandler, LinesLeft, TypeOK
  <2>2. buf' = [buf EXCEPT ![d] = <<buf[d][1], buf[d][2] + 1>>]
    BY <1>4, <2>1, NextLine DEF JitHandler
  <2>3. PICK p \in Procs : mine[p] = d  BY <2>1 DEF Unmixed, LiveOwned
  <2>4. Waiting(p) /\ JitLines(p)  BY <2>3, DatasAssumption DEF DataOwned, Unmixed, Printing
  <2>5. buf[d][1] = page[p] /\ Has(page[p], buf[d][2] - 1, "jit") /\ page[p] # NULL
    BY <2>3, <2>4 DEF JitLines, PagesOwned, Waiting
  <2>6. buf[d][2] \in 1..PageLines
    BY <2>1, LoopsAssumption, PagesAssumption
  <2>7. \A i \in 1..buf[d][2] : text'[page[p]][i] = "jit"  BY <2>1, <2>5, <2>6, HasNext
  <2>8. Printing(p)'
    <3>1. buf'[d] = <<page[p], buf[d][2] + 1>>  BY <2>2, <2>5 DEF TypeOK
    <3>2. JitLines(p)'
      <4>1. mine'[p] = d /\ page'[p] = page[p]  BY <1>1, <2>3
      <4>2. buf'[d][1] = page[p]  BY <3>1
      <4>3. buf'[d][2] = buf[d][2] + 1  BY <3>1
      <4>4. buf'[d][2] - 1 = buf[d][2]  BY <2>6, <4>3, PagesAssumption
      <4>5. \A i \in 1..buf'[d][2] - 1 : text'[page'[p]][i] = "jit"  BY <2>7, <4>1, <4>4
      <4>. QED  BY <4>1, <4>2, <4>5 DEF JitLines, Has
    <3>3. ~InJiq(p)' /\ pc'[p] # "returns" /\ ~signal'[p]
      BY <1>1, <2>4 DEF Waiting, InJiq, Unmixed, Printing
    <3>. QED  BY <3>2, <3>3 DEF Printing, JiqLines, Answered
  <2>9. ASSUME NEW q \in Procs, q # p PROVE Printing(q)'
    <3>1. mine[q] # NULL => buf'[mine[q]] = buf[mine[q]]
      BY <2>2, <2>3, <2>9 DEF DataOwned, TypeOK
    <3>2. page[q] # NULL => text'[page[q]] = text[page[q]]
      BY <2>1, <2>5, <2>6, <2>9, OwnPage
    <3>. QED  BY <1>1, <1>2, <3>1, <3>2, PrintingKept DEF Unmixed
  <2>. QED  BY <1>3, <2>8, <2>9 DEF Unmixed
<1>5. CASE LateWakeUp(d)
  <2>1. UNCHANGED <<text, buf>>  BY <1>5 DEF LateWakeUp
  <2>. QED  BY <1>1, <1>2, <1>3, <2>1, PrintingKept DEF Unmixed
<1>. QED  BY <1>4, <1>5 DEF Handler, JitInterrupt

LEMMA WorkUnmixed ==
  ASSUME TypeOK, DataOwned, PagesOwned, Unmixed, Keventd PROVE Unmixed'
<1>1. UNCHANGED <<pc, page, n, signal, mine, live, buf, disturbed>>
  BY DEF Keventd, JiqWork, jitVars, data
<1>2. LiveOwned'  BY <1>1 DEF Unmixed, LiveOwned
<1>3. CASE Full(len)
  <2>1. UNCHANGED <<text, len, jbuf>>  BY <1>3 DEF Keventd, JiqWork
  <2>2. JiqReader' /\ Full(len)'  BY <1>3, <2>1 DEF JiqReader, Full
  <2>3. ASSUME NEW q \in Procs PROVE Printing(q)'
    BY <1>1, <2>1, <2>2
       DEF Unmixed, Printing, JitLines, JiqLines, Answered, Waiting, InJiq, Has
  <2>. QED  BY <1>2, <2>2, <2>3 DEF Unmixed
<1>4. CASE ~Full(len)
  <2>1. text' = Printed(jbuf[1], jbuf[2], "jiq") /\ len' = len + 1 /\ sleeping' = sleeping
    BY <1>4 DEF Keventd, JiqWork
  <2>2. jbuf' = <<jbuf[1], jbuf[2] + 1>> /\ jbuf[1] \in Pages \cup {NULL} /\ jbuf[2] \in Nat
    BY <1>4, NextLine DEF Keventd, JiqWork, TypeOK
  <2>3. len \in Nat /\ len <= Limit /\ len + 1 \in 1..PageLines
    BY <1>4, LimitAssumption, PagesAssumption DEF Full, TypeOK
  <2>4. JiqReader'
    BY <1>1, <1>4, <2>1, <2>2 DEF Unmixed, JiqReader, InJiq
  <2>5. ASSUME NEW q \in Procs, page[q] = jbuf[1], page[q] # NULL PROVE Printing(q)'
    <3>1. InJiq(q)
      <4>1. PICK r \in Procs : InJiq(r) /\ page[r] = jbuf[1]
        BY <1>4, <2>5 DEF Unmixed, JiqReader
      <4>2. r = q  BY <2>5, <4>1 DEF PagesOwned
      <4>. QED  BY <4>1, <4>2
    <3>2. ~Waiting(q)' /\ pc'[q] # "returns" /\ ~signal'[q]
      BY <1>1, <3>1 DEF InJiq, Waiting, Unmixed, Printing
    <3>3. JiqLines(q)'
      <4>1. SUFFICES ASSUME ~disturbed[q] PROVE JiqLines(q)'  BY <1>1 DEF JiqLines
      <4>2. /\ jbuf = <<page[q], len + 1>> /\ Has(page[q], len, "jiq")
            /\ pc[q] # "jiq_prepare" => sleeping[q]
        BY <1>4, <3>1, <4>1 DEF Unmixed, Printing, JiqLines
      <4>3. jbuf[2] = len + 1 /\ len + 1 - 1 = len  BY <2>3, <4>2
      <4>4. \A i \in 1..len + 1 : text'[page[q]][i] = "jiq"
        BY <2>1, <2>3, <2>5, <4>2, <4>3, HasNext
      <4>5. jbuf' = <<page[q], len + 1 + 1>> /\ len + 1 <= Limit + 1
        BY <2>2, <2>3, <2>5, <4>3, LimitAssumption, PagesAssumption
      <4>. QED  BY <1>1, <2>1, <4>2, <4>4, <4>5 DEF JiqLines, Has
    <3>. QED  BY <3>2, <3>3 DEF Printing, JitLines, Answered
  <2>6. ASSUME NEW q \in Procs, page[q] # jbuf[1] \/ page[q] = NULL PROVE Printing(q)'
    <3>1. ~(InJiq(q) /\ ~disturbed[q])
      <4>1. InJiq(q) /\ ~disturbed[q] => jbuf[1] = page[q]  BY DEF Unmixed, Printing, JiqLines
      <4>2. InJiq(q) => page[q] # NULL  BY DEF InJiq, PagesOwned
      <4>. QED  BY <2>6, <4>1, <4>2
    <3>2. JiqLines(q)'  BY <1>1, <3>1 DEF JiqLines, InJiq
    <3>3. page[q] # NULL => text'[page[q]] = text[page[q]]
      BY <2>1, <2>2, <2>6, PrintedElsewhere DEF TypeOK
    <3>4. Waiting(q) \/ pc[q] = "returns" => text'[page[q]] = text[page[q]]
      BY <3>3 DEF Waiting, PagesOwned
    <3>5. JitLines(q)' /\ Answered(q)'
      BY <1>1, <3>4 DEF Unmixed, Printing, JitLines, Answered, Waiting, Has
    <3>. QED  BY <1>1, <3>2, <3>5 DEF Unmixed, Printing
  <2>. QED  BY <1>2, <2>4, <2>5, <2>6 DEF Unmixed
<1>. QED  BY <1>3, <1>4
-----------------------------------------------------------------------------
PagesInvariant == Invariant /\ PagesOwned /\ (~env.signals => Unmixed)

LEMMA PagesInvariantInit == Init => PagesInvariant
<1>1. SUFFICES ASSUME Init, Invariant PROVE PagesOwned /\ Unmixed
  BY InvariantInit DEF PagesInvariant
<1>2. PagesOwned  BY <1>1 DEF PagesOwned, Init, ProcInit
<1>3. Unmixed
  BY <1>1 DEF Unmixed, Printing, JitLines, JiqLines, Answered, Waiting, InJiq, LiveOwned,
              JiqReader, Init, ProcInit, JitInit, JiqInit
<1>. QED  BY <1>2, <1>3

LEMMA UnmixedStep ==
  ASSUME TypeOK, DataOwned, LinesLeft, PagesOwned, ~env.signals, Unmixed, [Next]_vars
  PROVE  Unmixed'
<1>1. CASE UNCHANGED vars
  BY <1>1 DEF Unmixed, Printing, JitLines, JiqLines, Answered, Waiting, InJiq, LiveOwned, Has,
              JiqReader, Full, vars, procVars, jitVars, jiqVars, data
<1>2. CASE Time
  BY <1>2 DEF Unmixed, Printing, JitLines, JiqLines, Answered, Waiting, InJiq, LiveOwned, Has,
              JiqReader, Full, Time, Tick, procVars, jiqVars, data
<1>3. ASSUME NEW p \in Procs, SignalArrives(p) PROVE Unmixed'  BY <1>3 DEF SignalArrives, Signal
<1>4. CASE Next
  BY <1>2, <1>3, <1>4, StepKinds, DelayUnmixed, AsyncUnmixed, WaitUnmixed, WokenUnmixed,
     JiqUnmixed, BorderUnmixed, HandlerUnmixed, WorkUnmixed
<1>. QED  BY <1>1, <1>4

LEMMA EnvKept == [Next]_vars => env' = env
<1>1. SUFFICES ASSUME Next PROVE env' = env  BY DEF vars, procVars
<1>2. ASSUME NEW p \in Procs, Delays(p) \/ JitAsync(p) \/ NoMemory(p) PROVE env' = env
  BY <1>2 DEF Delays, JitFn, Delayed, ScheduleTimeout, FnReturn, JitAsync, NoMemory, Return
<1>3. ASSUME NEW p \in Procs, Waits(p) \/ Woken(p) \/ JiqRun(p) PROVE env' = env
  BY <1>3 DEF Waits, PrepareToWait, Check, Schedule, Woken, JiqRun, JiqSet, JiqPrepareToWait,
              JiqScheduleWork, JiqReturn, Return
<1>4. ASSUME NEW p \in Procs, Begin(p) \/ End(p) \/ SignalArrives(p) PROVE env' = env
  BY <1>4 DEF Begin, JitBegin, JiqBegin, ReadBegin, End, ReadEnd, SignalArrives, Signal
<1>5. ASSUME NEW d \in Datas, Handler(d) PROVE env' = env
  BY <1>5 DEF Handler, JitInterrupt, JitHandler, LateWakeUp
<1>6. CASE Time \/ Keventd  BY <1>6 DEF Time, Tick, Keventd, JiqWork, procVars
<1>. QED  BY <1>1, <1>2, <1>3, <1>4, <1>5, <1>6, StepKinds

LEMMA PagesInvariantStep == PagesInvariant /\ [Next]_vars => PagesInvariant'
<1>1. SUFFICES ASSUME PagesInvariant, [Next]_vars PROVE PagesInvariant'  OBVIOUS
<1>2. TypeOK /\ DataOwned /\ LinesLeft /\ PagesOwned  BY <1>1 DEF PagesInvariant, Invariant
<1>3. Invariant' /\ PagesOwned'  BY <1>1, <1>2, InvariantStep, PagesStep DEF PagesInvariant
<1>4. ~env'.signals => Unmixed'
  <2>1. SUFFICES ASSUME ~env'.signals PROVE Unmixed'  OBVIOUS
  <2>2. ~env.signals  BY <1>1, <2>1, EnvKept
  <2>. QED  BY <1>1, <1>2, <2>2, UnmixedStep DEF PagesInvariant
<1>. QED  BY <1>3, <1>4 DEF PagesInvariant

THEOREM PagesInvariantHolds == Spec => []PagesInvariant
BY PagesInvariantInit, PagesInvariantStep, PTL DEF Spec

\* Without signals a read of /proc returns the lines that jit.c or jiq.c printed
\* for it, all of them, and nothing of what was in the page before or what the
\* handler or the work printed for another reader; a reader of jiq.c that
\* another one disturbed is the exception.
THEOREM ReadsCorrect == Spec => ReadIsPrinted
<1>1. PagesInvariant /\ [Next]_vars
        => [\A p \in Procs :
              pc[p] = "returns" /\ pc'[p] = "user" /\ ~env.signals =>
                \/ n[p] \in {0, 1, Loops + 1} /\ \A i \in 1..n[p] : text[page[p]][i] = "jit"
                \/ n[p] = Limit + 1 /\ \A i \in 1..n[p] : text[page[p]][i] = "jiq"
                \/ disturbed[p]]_vars
  BY DEF PagesInvariant, Unmixed, Printing, Answered, Has
<1>. QED  BY <1>1, PagesInvariantHolds, PTL DEF Spec, ReadIsPrinted
=============================================================================
