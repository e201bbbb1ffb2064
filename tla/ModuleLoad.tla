----------------------------- MODULE ModuleLoad -----------------------------
(***************************************************************************)
(* Loading and unloading the modules that register devices: scull with its *)
(* pipes and its access-controlled devices, lddbus and sculld, which uses  *)
(* it, sbull, snull, the tiny tty and the usb skeleton.  Each init and     *)
(* exit function is a flow of steps that acquire and release resources,    *)
(* any of which may fail to be acquired, with the loops, the labels and    *)
(* the gotos of the C; processes open the devices as soon as they are      *)
(* there, also while the function still runs.                              *)
(***************************************************************************)
EXTENDS Integers, Sequences

CONSTANTS Openers,
          Plans,    \* the sets of modules that are loaded together, and of those
                    \* parameters that are given at insmod and are not 0
          NDevs,    \* scull_nr_devs, scull_p_nr_devs, sculld_devs, ndevices and
                    \* TINY_TTY_MINORS
          MayFail,  \* the kinds of resources that may not be had
          NoNode

Modules == {"scull", "lddbus", "sculld", "sbull", "snull", "tiny_tty", "usb_skeleton"}

Parameters == {"scull_major", "scull_minor", "sbull_major"}

ASSUME PlansAssumption == Plans \subseteq SUBSET (Modules \cup Parameters)
ASSUME NDevsAssumption == NDevs \in Nat \ {0}

VARIABLES
  plan,     \* the modules and parameters of this behaviour; it never changes
  status,   \* of each module: out, loading, live or unloading
  at,       \* the block, the device and the step that its function is at
  held,     \* of each kind of resource: the devices for which it is acquired and
            \* not released
  pointer,  \* those for which its pointer is not NULL, or its flag is set
  stray,    \* history: the kinds that were released, or used, without being held
  opened    \* the device each process has open

loadVars == <<plan, status, at, held, pointer, stray, opened>>
-----------------------------------------------------------------------------
(* Steps and blocks *)

\* A step is about a kind of resource, of the device that its loop is at, or of
\* the first one, which stands for all.
Step(do, kind, to) == [do |-> do, kind |-> kind, to |-> to]
Get(k)        == Step("get", k, "next")   \* a failure is logged, at most
GetOr(k, l)   == Step("get", k, l)
Set(k)        == Step("set", k, "next")   \* an initialisation, which never fails
Put(k)        == Step("put", k, "next")
Drop(k)       == Step("drop", k, "next")  \* the release of what may not be there
Use(k)        == Step("use", k, "next")
Clear(k)      == Step("clear", k, "next") \* the pointer becomes NULL
IfNull(k, l)  == Step("if", k, l)
IfNone(k, l)  == Step("none", k, l)       \* if that of both devices is NULL
IfLack(k, l)  == Step("lack", k, l)       \* if that of one of them is
Misses(k)     == IfNull(k, "next")        \* a search that does not find it

\* The steps at a label, and the block that follows, for the same device.  The last
\* block of a loop goes on to the first for the next device, if there is one.
Block(label, body, next) ==
  [label |-> label, body |-> body, first |-> label, times |-> 0, next |-> next]
Again(first, times, label, body, next) ==
  [label |-> label, body |-> body, first |-> first, times |-> times, next |-> next]
Loop(times, label, body, next) == Again(label, times, label, body, next)
-----------------------------------------------------------------------------
(* scull *)

\* cdev_init makes the kobject that a cdev_add enters into the map of devices;
\* cdev_del takes it out, if it is there, and puts the kobject.

\* Mutation: a device is added before its semaphore is initialised.
ScullSetupEarly == <<Set("scull_kobj"), Get("scull_cdev"), Set("scull_sem")>>
ScullSetup      == <<Set("scull_sem"), Set("scull_kobj"), Get("scull_cdev")>>

ScullPSetup == <<Set("scullp_sem"), Set("scullp_kobj"), Get("scullp_cdev")>>

\* A failure costs the pipes, not the module.
ScullPInit(next) ==
  {Block("p_init", <<GetOr("scullp_region", next), GetOr("scullp_devices", "p_none")>>, "p_setup"),
   Block("p_none", <<Put("scullp_region")>>, next),
   Loop(NDevs, "p_setup", ScullPSetup, next)}

\* The buffers are freed with their devices.
ScullPDel(next) ==
  {Loop(NDevs, "p_del", <<Drop("scullp_cdev"), Put("scullp_kobj")>>, "p_free"),
   Block("p_free", <<Put("scullp_devices"), Put("scullp_region"), Clear("scullp_devices")>>, next)}

\* Mutation: there is no test.
ScullPCleanupAlways(next) ==
  {Block("p_cleanup", <<IfNull("scullp_devices", "p_del")>>, "p_del")} \cup ScullPDel(next)

ScullPCleanup(next) ==
  {Block("p_cleanup", <<IfNull("scullp_devices", next)>>, "p_del")} \cup ScullPDel(next)

SCULL_N_ADEVS == 4

\* A device that cannot be added has its kobject put, which cdev_del will put.
ScullAccessSetup(next) ==
  {Loop(SCULL_N_ADEVS, "a_setup",
        <<Set("sculla_sem"), Set("sculla_kobj"), GetOr("sculla_cdev", "a_err")>>, next),
   Again("a_setup", SCULL_N_ADEVS, "a_err", <<Put("sculla_kobj")>>, next)}

ScullAccessInit(next) ==
  {Block("a_init", <<GetOr("sculla_region", next)>>, "a_setup")} \cup ScullAccessSetup(next)

ScullAccessCleanup(next) ==
  {Loop(SCULL_N_ADEVS, "a_del", <<Drop("sculla_cdev"), Put("sculla_kobj")>>, "a_free"),
   Block("a_free", <<Put("sculla_region")>>, next)}

\* Mutation: the device numbers are kept.
ScullCleanupKeeps ==
  {Block("exit", <<IfNull("scull_devices", "p_cleanup")>>, "del"),
   Loop(NDevs, "del", <<Drop("scull_cdev"), Put("scull_kobj")>>, "free"),
   Block("free", <<Put("scull_devices")>>, "p_cleanup")}
    \cup ScullPCleanup("a_del") \cup ScullAccessCleanup("out")

\* A major that alloc_chrdev_region finds is had from minor 0 on; the exit looks for
\* it from scull_minor on, where nothing begins, and it stays registered.
FromMinor0 == "scull_minor" \in plan /\ "scull_major" \notin plan
Unregister == IF FromMinor0 THEN Misses("scull_region") ELSE Put("scull_region")

\* scull_cleanup_module, also called by an init that fails.
ScullCleanup ==
  {Block("exit", <<IfNull("scull_devices", "region")>>, "del"),
   Loop(NDevs, "del", <<Drop("scull_cdev"), Put("scull_kobj")>>, "free"),
   Block("free", <<Put("scull_devices")>>, "region"),
   Block("region", <<Unregister>>, "p_cleanup")}
    \cup ScullPCleanup("a_del") \cup ScullAccessCleanup("out")

ScullInit ==
  {Block("init", <<GetOr("scull_region", "out"), GetOr("scull_devices", "exit")>>, "setup"),
   Loop(NDevs, "setup", ScullSetup, "p_init")}
    \cup ScullPInit("a_init") \cup ScullAccessInit("live")
-----------------------------------------------------------------------------
(* lddbus and sculld *)

\* The attribute of the bus goes with it.
LddBusInit ==
  {Block("init", <<GetOr("ldd_bus_type", "out"), Get("ldd_bus_version"), GetOr("ldd_bus", "out")>>,
         "live")}

LddBusExit == {Block("exit", <<Put("ldd_bus"), Put("ldd_bus_type")>>, "out")}

RegisterLddDevice   == Get("sculld_ldev")
UnregisterLddDevice == Put("sculld_ldev")

\* A failure of driver_create_file leaves the driver registered.
RegisterLddDriver(next) ==
  {Block("register", <<GetOr("sculld_driver", next), Get("sculld_driver_attr")>>, next)}
UnregisterLddDriver == Put("sculld_driver")

SculldSetup ==
  <<Set("sculld_sem"), Set("sculld_kobj"), Get("sculld_cdev"), RegisterLddDevice,
    Get("sculld_dev_attr")>>

\* The result of register_ldd_driver is not looked at, and a failure of kmalloc
\* leaves the driver registered.
SculldInit ==
  {Block("init", <<GetOr("sculld_region", "out")>>, "register")}
    \cup RegisterLddDriver("malloc")
    \cup {Block("malloc", <<GetOr("sculld_devices", "fail_malloc")>>, "setup"),
          Loop(NDevs, "setup", SculldSetup, "live"),
          Block("fail_malloc", <<Put("sculld_region")>>, "out")}

SculldExit ==
  {Loop(NDevs, "exit", <<UnregisterLddDevice, Drop("sculld_cdev"), Put("sculld_kobj")>>, "free"),
   Block("free", <<Put("sculld_devices"), UnregisterLddDriver, Put("sculld_region")>>, "out")}
-----------------------------------------------------------------------------
(* sbull *)

\* setup_device, whose out_vfree leaves dev->data as it is.
SbullSetup(next) ==
  {Loop(NDevs, "setup",
        <<GetOr("sbull_data", "end"), Set("sbull_timer"), GetOr("sbull_queue", "out_vfree"),
          GetOr("sbull_gd", "out_vfree"), Set("sbull_disk")>>, next),
   Again("setup", NDevs, "out_vfree", <<Put("sbull_data")>>, next)}

\* For a major that is given register_blkdev returns 0, which is taken for a failure.
SbullMajor ==
  IF "sbull_major" \in plan THEN Block("init", <<Get("sbull_major")>>, "out")
  ELSE Block("init", <<GetOr("sbull_major", "out"), GetOr("sbull_devices", "out_unregister")>>, "setup")

SbullInit ==
  {SbullMajor,
   Block("out_unregister", <<Put("sbull_major")>>, "out")}
    \cup SbullSetup("live")

\* Each pointer is tested before what it points to is given back.
SbullExit ==
  {Block("exit", <<Use("sbull_timer"), IfNull("sbull_gd", "end"), Put("sbull_disk"), Put("sbull_gd")>>,
         "queue"),
   Block("queue", <<IfNull("sbull_queue", "end"), Put("sbull_queue")>>, "data"),
   Again("exit", NDevs, "data", <<IfNull("sbull_data", "end"), Put("sbull_data")>>, "free"),
   Block("free", <<Put("sbull_major"), Put("sbull_devices")>>, "out")}
-----------------------------------------------------------------------------
(* snull, tiny_tty and usb_skeleton *)

\* alloc_netdev calls snull_init, with the packets there is memory for.
SnullAlloc == <<GetOr("snull_dev", "end"), Set("snull_lock"), Set("snull_pool")>>

\* Whatever else is missing, an interface that was allocated is unregistered.
SnullCleanup ==
  {Loop(2, "exit", <<IfNull("snull_dev", "end"), Put("snull_reg"), Put("snull_pool"), Put("snull_dev")>>,
        "out")}

\* ret is 0 once one of the two is registered.
SnullInit ==
  {Loop(2, "init", SnullAlloc, "check"),
   Block("check", <<IfLack("snull_dev", "exit")>>, "register"),
   Loop(2, "register", <<Get("snull_reg")>>, "ret"),
   Block("ret", <<IfNone("snull_reg", "exit")>>, "live")}

TinyInit ==
  {Block("init", <<GetOr("tiny_driver", "out"), GetOr("tiny_reg", "put")>>, "devices"),
   Loop(NDevs, "devices", <<Get("tiny_device")>>, "live"),
   Block("put", <<Put("tiny_driver")>>, "out")}

\* TinyTty has the ports; tiny_tty_driver is not given back.
TinyExit ==
  {Loop(NDevs, "exit", <<Drop("tiny_device")>>, "unregister"),
   Block("unregister", <<Put("tiny_reg")>>, "out")}

UsbSkelInit == {Block("init", <<GetOr("skel_driver", "out")>>, "live")}
UsbSkelExit == {Block("exit", <<Put("skel_driver")>>, "out")}
-----------------------------------------------------------------------------
(* What they run in *)

Code(m) ==
  CASE m = "scull"        -> ScullInit \cup ScullCleanup
    [] m = "lddbus"       -> LddBusInit \cup LddBusExit
    [] m = "sculld"       -> SculldInit \cup SculldExit
    [] m = "sbull"        -> SbullInit \cup SbullExit
    [] m = "snull"        -> SnullInit \cup SnullCleanup
    [] m = "tiny_tty"     -> TinyInit \cup TinyExit
    [] m = "usb_skeleton" -> UsbSkelInit \cup UsbSkelExit

Kinds(m) ==
  CASE m = "scull"        -> {"scull_region", "scull_devices", "scull_sem", "scull_kobj", "scull_cdev",
                              "scullp_region", "scullp_devices", "scullp_sem", "scullp_kobj",
                              "scullp_cdev", "sculla_region", "sculla_sem", "sculla_kobj", "sculla_cdev"}
    [] m = "lddbus"       -> {"ldd_bus_type", "ldd_bus_version", "ldd_bus"}
    [] m = "sculld"       -> {"sculld_region", "sculld_driver", "sculld_driver_attr", "sculld_devices",
                              "sculld_sem", "sculld_kobj", "sculld_cdev", "sculld_ldev", "sculld_dev_attr"}
    [] m = "sbull"        -> {"sbull_major", "sbull_devices", "sbull_data", "sbull_timer", "sbull_queue",
                              "sbull_gd", "sbull_disk"}
    [] m = "snull"        -> {"snull_dev", "snull_lock", "snull_pool", "snull_reg"}
    [] m = "tiny_tty"     -> {"tiny_driver", "tiny_reg", "tiny_device"}
    [] m = "usb_skeleton" -> {"skel_driver"}

AllKinds == UNION {Kinds(m) : m \in Modules}

\* What lies in the memory of another resource goes with it, that of all devices
\* or of one.
InAll == {<<"scull_devices", "scull_sem">>, <<"scullp_devices", "scullp_sem">>,
          <<"sculld_devices", "sculld_sem">>, <<"sbull_devices", "sbull_timer">>,
          <<"ldd_bus_type", "ldd_bus_version">>, <<"sculld_driver", "sculld_driver_attr">>}
InOne == {<<"sculld_ldev", "sculld_dev_attr">>, <<"snull_dev", "snull_lock">>}
Without(k, i) ==
  [l \in AllKinds |-> IF <<k, l>> \in InAll THEN {}
                      ELSE IF l = k \/ <<k, l>> \in InOne THEN held[l] \ {i} ELSE held[l]]

LoadInit ==
  /\ plan \in Plans
  /\ status = [m \in Modules |-> "out"]
  /\ at = [m \in Modules |-> <<"out", 1, 1>>]
  /\ held = [k \in AllKinds |-> {}] /\ pointer = held /\ stray = {}
  /\ opened = [p \in Openers |-> NoNode]

Running(m) == status[m] \in {"loading", "unloading"}

\* The block a module is in, the device and the line it is at; and the step.
Label(m)  == at[m][1]
I(m)      == at[m][2]
Line(m)   == at[m][3]
In(m, c)  == Running(m) /\ c.label = Label(m)
Now(m, c) == c.body[Line(m)]
Strays(k, i) == IF i \in held[k] THEN {} ELSE {k}

After(c, i) ==
  IF c.times = 0 THEN <<c.next, i, 1>>
  ELSE IF i < c.times THEN <<c.first, i + 1, 1>> ELSE <<c.next, 1, 1>>

\* Where a step leads: to the next one, to the end of the block, or to a label.
Target(m, c, to) ==
  IF to = "next" /\ Line(m) < Len(c.body) THEN <<c.label, I(m), Line(m) + 1>>
  ELSE IF to \in {"next", "end"} THEN After(c, I(m))
  ELSE <<to, I(m), 1>>

Goes(m, c, to) == at' = [at EXCEPT ![m] = Target(m, c, to)] /\ UNCHANGED <<plan, status, opened>>

Acquires(m, c) ==
  /\ Now(m, c).do \in {"get", "set"}
  /\ held' = [held EXCEPT ![Now(m, c).kind] = @ \cup {I(m)}]
  /\ pointer' = [pointer EXCEPT ![Now(m, c).kind] = @ \cup {I(m)}]
  /\ UNCHANGED stray
  /\ Goes(m, c, "next")

Fails(m, c) ==
  /\ Now(m, c).do = "get" /\ Now(m, c).kind \in MayFail
  /\ UNCHANGED <<held, pointer, stray>>
  /\ Goes(m, c, Now(m, c).to)

\* A release frees; it leaves the pointer.
Releases(m, c) ==
  /\ Now(m, c).do \in {"put", "drop"}
  /\ held' = Without(Now(m, c).kind, I(m))
  /\ stray' = IF Now(m, c).do = "put" THEN stray \cup Strays(Now(m, c).kind, I(m)) ELSE stray
  /\ UNCHANGED pointer
  /\ Goes(m, c, "next")

Clears(m, c) ==
  /\ Now(m, c).do = "clear"
  /\ pointer' = [pointer EXCEPT ![Now(m, c).kind] = @ \ {I(m)}]
  /\ UNCHANGED <<held, stray>>
  /\ Goes(m, c, "next")

Uses(m, c) ==
  /\ Now(m, c).do = "use"
  /\ stray' = stray \cup Strays(Now(m, c).kind, I(m))
  /\ UNCHANGED <<held, pointer>>
  /\ Goes(m, c, "next")

\* if (pointer), of the device, of both or of one of them.
Holds(m, s) ==
  \/ s.do = "if" /\ I(m) \in pointer[s.kind]
  \/ s.do = "lack" /\ {1, 2} \subseteq pointer[s.kind]
  \/ s.do = "none" /\ {1, 2} \cap pointer[s.kind] # {}

Tests(m, c) ==
  /\ Now(m, c).do \in {"if", "lack", "none"}
  /\ UNCHANGED <<held, pointer, stray>>
  /\ Goes(m, c, IF Holds(m, Now(m, c)) THEN "next" ELSE Now(m, c).to)

\* The function returns, and the module is in or out; its variables go with it.
Returns(m) ==
  /\ Running(m) /\ Label(m) \in {"live", "out"}
  /\ status' = [status EXCEPT ![m] = Label(m)]
  /\ held' = IF m = "scull" /\ Label(m) = "out" THEN [held EXCEPT !["sculla_sem"] = {}] ELSE held
  /\ UNCHANGED <<plan, at, pointer, stray, opened>>

\* insmod, which needs the modules whose symbols it uses live, and finds the
\* variables of the module as they were compiled.
Insmod(m) ==
  /\ m \in plan /\ status[m] = "out"
  /\ m = "sculld" => status["lddbus"] = "live"
  /\ status' = [status EXCEPT ![m] = "loading"]
  /\ at' = [at EXCEPT ![m] = <<"init", 1, 1>>]
  /\ pointer' = [k \in AllKinds |-> IF k \in Kinds(m) THEN {} ELSE pointer[k]]
  /\ UNCHANGED <<plan, held, stray, opened>>

\* rmmod, of a module that nobody uses.
Rmmod(m) ==
  /\ status[m] = "live"
  /\ \A p \in Openers : opened[p] # NoNode => opened[p][1] \notin Kinds(m)
  /\ m = "lddbus" => status["sculld"] = "out"
  /\ status' = [status EXCEPT ![m] = "unloading"]
  /\ at' = [at EXCEPT ![m] = <<"exit", 1, 1>>]
  /\ UNCHANGED <<plan, held, pointer, stray, opened>>

\* An open finds the device in the map and takes a reference to the module,
\* which it does not get once the module is going.
Nodes(m) == Kinds(m) \cap
  {"scull_cdev", "scullp_cdev", "sculla_cdev", "sculld_cdev", "sbull_disk", "tiny_reg"}

Open(p, m) ==
  /\ opened[p] = NoNode
  /\ status[m] \in {"loading", "live"}
  /\ \E k \in Nodes(m) : \E i \in held[k] : opened' = [opened EXCEPT ![p] = <<k, i>>]
  /\ UNCHANGED <<plan, status, at, held, pointer, stray>>

Close(p) ==
  /\ opened[p] # NoNode
  /\ opened' = [opened EXCEPT ![p] = NoNode]
  /\ UNCHANGED <<plan, status, at, held, pointer, stray>>

Runs(m, c) ==
  \/ Acquires(m, c) \/ Fails(m, c) \/ Releases(m, c) \/ Clears(m, c) \/ Uses(m, c) \/ Tests(m, c)

LoadNext ==
  \/ \E m \in Modules :
       \/ Insmod(m) \/ Rmmod(m) \/ Returns(m)
       \/ \E c \in Code(m) : In(m, c) /\ Runs(m, c)
       \/ \E p \in Openers : Open(p, m)
  \/ \E p \in Openers : Close(p)
LoadSpec == LoadInit /\ [][LoadNext]_loadVars
-----------------------------------------------------------------------------
(* Properties *)

LoadTypeOK ==
  /\ plan \in Plans
  /\ status \in [Modules -> {"out", "loading", "live", "unloading"}]
  /\ at = [m \in Modules |-> <<Label(m), I(m), Line(m)>>]
  /\ \A m \in Modules : I(m) \in Nat /\ Line(m) \in Nat /\ (~Running(m) => Label(m) = status[m])
  /\ held \in [AllKinds -> SUBSET Nat] /\ pointer \in [AllKinds -> SUBSET Nat]
  /\ stray \subseteq AllKinds
  /\ opened \in [Openers -> {NoNode} \cup ((UNION {Nodes(m) : m \in plan \cap Modules}) \X Nat)]

\* What the operations of a device need, of it and of all together.
Own(k) ==
  CASE k = "scull_cdev"  -> {"scull_sem"}
    [] k = "scullp_cdev" -> {"scullp_sem"}
    [] k = "sculla_cdev" -> {"sculla_sem"}
    [] k = "sculld_cdev" -> {"sculld_sem"}
    [] k = "sbull_disk"  -> {"sbull_data", "sbull_timer", "sbull_queue", "sbull_gd"}
    [] k = "snull_reg"   -> {"snull_dev", "snull_lock", "snull_pool"}
    [] OTHER -> {}
Shared(k) ==
  CASE k = "scull_cdev"  -> {"scull_devices"} \cup (IF FromMinor0 THEN {} ELSE {"scull_region"})
    [] k = "scullp_cdev" -> {"scullp_region", "scullp_devices"}
    [] k = "sculla_cdev" -> {"sculla_region"}
    [] k = "sculld_cdev" -> {"sculld_region", "sculld_devices"}
    [] k = "sculld_ldev" -> {"sculld_devices", "sculld_driver", "ldd_bus", "ldd_bus_type"}
    [] k = "sbull_disk"  -> {"sbull_major", "sbull_devices"}
    [] k = "tiny_reg"    -> {"tiny_driver"}
    [] OTHER -> {}
Ready(k, i) == (\A l \in Own(k) : i \in held[l]) /\ (\A l \in Shared(k) : 1 \in held[l])

\* Whoever can reach a device, or has it open, finds its memory, its locks and
\* what it hangs on, from the moment it is added (main.c:571-575, sbull.c:312).
DevicesReady ==
  /\ LoadTypeOK
  /\ \A k \in AllKinds : \A i \in held[k] : Ready(k, i)
  /\ \A p \in Openers : opened[p] # NoNode => opened[p][2] \in held[opened[p][1]]

\* Nothing is given back that was not acquired, or twice (main.c:500-524).
OnlyOwnReleased == stray = {}

\* What a module that is out leaves all the same: the memory of the tty driver
\* (tiny_tty.c:552), the major that was given to sbull (sbull.c:324), and scull's
\* numbers where the exit does not find them (main.c:505, 550).
Lost ==
  {"tiny_driver"} \cup (IF "sbull_major" \in plan THEN {"sbull_major"} ELSE {})
    \cup (IF FromMinor0 THEN {"scull_region"} ELSE {})

\* A module that is out, unloaded or because its init failed, leaves nothing
\* behind, but for what is lost, that would call into it.
NothingLeft == \A m \in Modules : status[m] = "out" => \A k \in Kinds(m) \ Lost : held[k] = {}
=============================================================================
