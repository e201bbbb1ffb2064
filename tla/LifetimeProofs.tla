--------------------------- MODULE LifetimeProofs ---------------------------
(***************************************************************************)
(* How long things live.  Loading and unloading, for any number of devices *)
(* and processes and any modules that are loaded together; and the         *)
(* usb_skel, for any number of processes, plug-ins and buffers.            *)
(***************************************************************************)
EXTENDS UsbSkel, ModuleLoad, FiniteSetTheorems, TLAPS

\* The failures with which each property holds; the others break it.
DriverHad == "sculld_driver" \notin MayFail
LeavesNot == MayFail \cap {"ldd_bus", "sculld_devices"} = {}
Careful   ==
  MayFail \cap {"scull_devices", "sculla_region", "sculla_cdev", "sculld_driver", "sculld_ldev",
                "sbull_data", "sbull_queue", "sbull_gd", "snull_dev", "snull_reg"} = {}

\* Where a function is, and what is held there.
Site(m, l, k) == Label(m) = l /\ Line(m) = k
None(S) == \A k \in S : held[k] = {}
Had(S)  == \A k \in S : 1 \in held[k]
\* The devices that a loop is done with at line n of its block, and those it is not.
Upto(m, n)  == 1 .. (IF Line(m) > n THEN I(m) ELSE I(m) - 1)
Since(m, n, N) == (IF Line(m) > n THEN I(m) + 1 ELSE I(m)) .. N

-----------------------------------------------------------------------------
(* scull *)

\* The places that the functions of scull can be at.
ScullPlace ==
  /\ Label("scull") \in
       {"init", "setup", "p_init", "p_none", "p_setup", "a_init", "a_setup", "a_err", "live", "exit", "del",
        "free", "region", "p_cleanup", "p_del", "p_free", "a_del", "a_free", "out"}
  /\ I("scull") \in 1 .. (IF Label("scull") \in {"setup", "p_setup", "del", "p_del"} THEN NDevs
                       ELSE IF Label("scull") \in {"a_setup", "a_err", "a_del"} THEN 4 ELSE 1)
  /\ Line("scull") \in 1 .. (IF Label("scull") \in {"setup", "p_setup", "a_setup", "p_free"} THEN 3
                    ELSE IF Label("scull") \in {"init", "p_init", "del", "p_del", "a_del"} THEN 2 ELSE 1)

\* Nothing is held for a device that is not one.
ScullRange ==
  /\ \A k \in {"scull_region", "scull_devices", "scullp_region", "scullp_devices", "sculla_region"} :
       held[k] \subseteq {1}
  /\ \A k \in {"scull_sem", "scull_kobj", "scull_cdev", "scullp_sem", "scullp_kobj", "scullp_cdev"} :
       held[k] \subseteq 1..NDevs
  /\ \A k \in {"sculla_sem", "sculla_kobj", "sculla_cdev"} : held[k] \subseteq 1..4

\* The labels after the pipes are gone, and those after the bare devices are.
PDone == {"a_del", "a_free", "out"}
Done  == {"p_cleanup", "p_del", "p_free"} \cup PDone

\* What is not held: before its turn in the init, and after it in the exit.
ScullGone ==
  LET l == Label("scull")  i == I("scull")  k == Line("scull") IN
  /\ ~FromMinor0 /\ (l \in Done \/ Site("scull", "init", 1)) => None({"scull_region"})
  /\ l \in {"init", "region"} \cup Done => None({"scull_devices"})
  /\ l \in {"init", "free", "region"} \cup Done => None({"scull_kobj", "scull_cdev"})
  /\ l = "del" => /\ held["scull_cdev"] \subseteq (IF k = 1 THEN i ELSE i + 1)..NDevs
                  /\ held["scull_kobj"] \subseteq i..NDevs
  /\ \A r \in {"scull_sem", "scull_kobj"} : held[r] # {} => 1 \in held["scull_devices"]
  /\ held["scull_devices"] \subseteq pointer["scull_devices"]

ScullPGone ==
  LET l == Label("scull")  i == I("scull")  k == Line("scull") IN
  /\ \/ l \in {"init", "setup"} \cup PDone \/ Site("scull", "p_init", 1) \/ Site("scull", "p_free", 3)
     => None({"scullp_region"})
  /\ l \in {"init", "setup", "p_init", "p_none"} \cup PDone \/ (l = "p_free" /\ k \in 2..3)
     => None({"scullp_devices"})
  /\ l = "p_free" => None({"scullp_kobj", "scullp_cdev"})
  /\ l = "p_del" => /\ held["scullp_cdev"] \subseteq (IF k = 1 THEN i ELSE i + 1)..NDevs
                    /\ held["scullp_kobj"] \subseteq i..NDevs
  /\ \A r \in {"scullp_sem", "scullp_kobj"} : held[r] # {} => 1 \in held["scullp_devices"]
  /\ ~Site("scull", "p_init", 2) /\ l # "p_none" /\ ~Site("scull", "p_free", 2)
     /\ held["scullp_region"] # {} => 1 \in held["scullp_devices"]
  /\ held["scullp_devices"] \subseteq pointer["scullp_devices"]
  /\ l \in {"init", "setup", "p_init", "p_none"} => 1 \notin pointer["scullp_devices"]

ScullAGone ==
  LET l == Label("scull")  i == I("scull")  k == Line("scull") IN
  /\ l \in {"init", "out"} => None({"sculla_region"})
  /\ l \in {"init", "a_free", "out"} => None({"sculla_kobj", "sculla_cdev"})
  /\ l = "a_del" => /\ held["sculla_cdev"] \subseteq (IF k = 1 THEN i ELSE i + 1)..4
                    /\ held["sculla_kobj"] \subseteq i..4
  /\ status["scull"] = "out" => None({"sculla_sem"})
  /\ status["scull"] = "loading" /\ l \in {"exit", "del", "free", "region"} \cup Done
     => None({"scull_cdev", "scullp_cdev", "sculla_cdev"})

\* What is held for a device that is there, and on the way to it.
ScullThere ==
  LET l == Label("scull")  i == I("scull")  k == Line("scull") IN
  /\ held["scull_cdev"] \subseteq held["scull_sem"]
  /\ held["scull_cdev"] # {} => Had({"scull_region", "scull_devices"})
  /\ held["scullp_cdev"] \subseteq held["scullp_sem"]
  /\ held["scullp_cdev"] # {} => Had({"scullp_region", "scullp_devices"})
  /\ held["sculla_cdev"] \subseteq held["sculla_sem"]
  /\ held["sculla_cdev"] # {} => Had({"sculla_region"})
  /\ Site("scull", "init", 2) => Had({"scull_region"})
  /\ Site("scull", "p_init", 2) \/ l = "p_none" => Had({"scullp_region"})
  /\ l = "setup" => Had({"scull_region", "scull_devices"}) /\ (k \in 2..3 => i \in held["scull_sem"])
  /\ l = "p_setup" => Had({"scullp_region", "scullp_devices"}) /\ (k \in 2..3 => i \in held["scullp_sem"])
  /\ l \in {"a_setup", "a_err"} => Had({"sculla_region"})
  /\ l = "a_setup" /\ k \in 2..3 => i \in held["sculla_sem"]

\* What is still held where it is about to be released or used.
ScullOwned ==
  LET l == Label("scull")  k == Line("scull") IN
  /\ l # "a_err" /\ ~(status["scull"] = "loading" /\ l \in {"exit", "del", "free", "region"} \cup (Done \ {"out"}))
  /\ l \notin {"init", "out"} \cup Done => Had({"scull_region"})
  /\ l \notin {"init", "region", "out"} \cup Done => Had({"scull_devices"})
  /\ l = "setup" => Upto("scull", 2) \subseteq held["scull_kobj"]
  /\ l \in {"p_init", "p_none", "p_setup", "a_init", "a_setup", "live", "exit"} => 1..NDevs \subseteq held["scull_kobj"]
  /\ l = "del" => Since("scull", 2, NDevs) \subseteq held["scull_kobj"]
  /\ l = "p_setup" => Upto("scull", 2) \subseteq held["scullp_kobj"]
  /\ l \in {"a_init", "a_setup", "live", "exit", "del", "free", "region", "p_cleanup"} /\ 1 \in pointer["scullp_devices"]
     => Had({"scullp_region", "scullp_devices"}) /\ 1..NDevs \subseteq held["scullp_kobj"]
  /\ l = "p_del" => /\ Had({"scullp_region", "scullp_devices"})
                    /\ Since("scull", 2, NDevs) \subseteq held["scullp_kobj"]
  /\ Site("scull", "p_free", 1) => Had({"scullp_devices"})
  /\ l = "p_free" /\ k \in 1..2 => Had({"scullp_region"})
  /\ l = "a_setup" => Upto("scull", 2) \subseteq held["sculla_kobj"]
  /\ l \in {"live", "exit", "del", "free", "region", "p_cleanup", "p_del", "p_free"} => 1..4 \subseteq held["sculla_kobj"]
  /\ l = "a_del" => Since("scull", 2, 4) \subseteq held["sculla_kobj"]
  /\ l \in {"a_setup", "live", "exit", "del", "free", "region", "p_cleanup", "p_del", "p_free", "a_del", "a_free"}
     => Had({"sculla_region"})
ScullInv == ScullPlace /\ ScullRange /\ ScullGone /\ ScullPGone /\ ScullAGone /\ ScullThere /\ (Careful => ScullOwned)
-----------------------------------------------------------------------------
(* lddbus and sculld *)

\* The same parts, of lddbus, and of the modules that follow.
LddPlace ==
  /\ Label("lddbus") \in {"init", "live", "exit", "out"}
  /\ I("lddbus") = 1
  /\ Line("lddbus") \in 1 .. (IF Label("lddbus") = "init" THEN 3 ELSE IF Label("lddbus") = "exit" THEN 2 ELSE 1)
  /\ \A k \in {"ldd_bus_type", "ldd_bus_version", "ldd_bus"} : held[k] \subseteq {1}
LddThere ==
  /\ Label("lddbus") = "live" \/ Site("lddbus", "exit", 1) => Had({"ldd_bus_type", "ldd_bus"})
  /\ Label("lddbus") = "init" /\ Line("lddbus") \in 2..3 => Had({"ldd_bus_type"})
  /\ Site("lddbus", "exit", 2) => Had({"ldd_bus_type"})
LddGone ==
  /\ Label("lddbus") \in {"init", "out"} \/ Site("lddbus", "exit", 2) => None({"ldd_bus"})
  /\ Label("lddbus") = "out" \/ Site("lddbus", "init", 1) => None({"ldd_bus_type"})
  /\ held["ldd_bus_version"] # {} => Had({"ldd_bus_type"})
LddInv == LddPlace /\ LddThere /\ (LeavesNot => LddGone)

SculldPlace ==
  /\ Label("sculld") \in {"init", "register", "malloc", "setup", "fail_malloc", "live", "exit", "free", "out"}
  /\ I("sculld") \in 1 .. (IF Label("sculld") \in {"setup", "exit"} THEN NDevs ELSE 1)
  /\ Line("sculld") \in 1 .. (IF Label("sculld") = "setup" THEN 5
                     ELSE IF Label("sculld") \in {"exit", "free"} THEN 3
                     ELSE IF Label("sculld") = "register" THEN 2 ELSE 1)
  /\ \A k \in {"sculld_region", "sculld_driver", "sculld_driver_attr", "sculld_devices"} : held[k] \subseteq {1}
  /\ \A k \in {"sculld_sem", "sculld_kobj", "sculld_cdev", "sculld_ldev", "sculld_dev_attr"} :
       held[k] \subseteq 1..NDevs
  /\ status["sculld"] = "loading" => Label("sculld") \notin {"exit", "free"}
SculldGone ==
  LET l == Label("sculld")  i == I("sculld")  k == Line("sculld") IN
  /\ l \in {"init", "out"} => None({"sculld_region"})
  /\ l \in {"init", "register", "malloc", "fail_malloc", "out"} \/ (l = "free" /\ k \in 2..3)
     => None({"sculld_devices", "sculld_sem"})
  /\ l \in {"init", "register", "malloc", "fail_malloc", "free", "out"}
     => None({"sculld_kobj", "sculld_cdev", "sculld_ldev", "sculld_dev_attr"})
  /\ l = "exit" => /\ held["sculld_kobj"] \subseteq i..NDevs
                   /\ held["sculld_cdev"] \subseteq Since("sculld", 2, NDevs)
                   /\ held["sculld_ldev"] \subseteq Since("sculld", 1, NDevs)
                   /\ held["sculld_dev_attr"] \subseteq Since("sculld", 1, NDevs)
  /\ LeavesNot =>
       /\ l # "fail_malloc"
       /\ l \in {"init", "out"} \/ Site("sculld", "register", 1) \/ Site("sculld", "free", 3)
          => None({"sculld_driver", "sculld_driver_attr"})
SculldThere ==
  LET l == Label("sculld")  i == I("sculld")  k == Line("sculld") IN
  /\ held["sculld_cdev"] \subseteq held["sculld_sem"]
  /\ held["sculld_cdev"] # {} => Had({"sculld_region", "sculld_devices"})
  /\ held["sculld_ldev"] # {} => Had({"sculld_devices"})
  /\ l \in {"register", "malloc", "setup", "fail_malloc"} => Had({"sculld_region"})
  /\ l = "setup" => Had({"sculld_devices"}) /\ (k \in 2..5 => i \in held["sculld_sem"])
  /\ DriverHad =>
       /\ l \in {"malloc", "setup"} \/ Site("sculld", "register", 2) => Had({"sculld_driver"})
       /\ held["sculld_ldev"] # {} => Had({"sculld_driver"})
SculldOwned ==
  LET l == Label("sculld")  i == I("sculld")  k == Line("sculld") IN
  /\ l \in {"live", "exit", "free"} => Had({"sculld_region"})
  /\ l \in {"live", "exit"} \/ Site("sculld", "free", 1) => Had({"sculld_devices"})
  /\ l \in {"live", "exit"} \/ (l = "free" /\ k \in 1..2) => Had({"sculld_driver"})
  /\ l = "setup" => Upto("sculld", 2) \subseteq held["sculld_kobj"] /\ Upto("sculld", 4) \subseteq held["sculld_ldev"]
  /\ l = "live" => 1..NDevs \subseteq held["sculld_kobj"] /\ 1..NDevs \subseteq held["sculld_ldev"]
  /\ l = "exit" => i..NDevs \subseteq held["sculld_kobj"] /\ Since("sculld", 1, NDevs) \subseteq held["sculld_ldev"]
SculldInv == SculldPlace /\ SculldGone /\ SculldThere /\ (Careful => SculldOwned)
-----------------------------------------------------------------------------
(* sbull *)

SbullPlace ==
  /\ Label("sbull") \in {"init", "out_unregister", "setup", "out_vfree", "live", "exit", "queue", "data",
                         "free", "out"}
  /\ I("sbull") \in 1 .. (IF Label("sbull") \in {"setup", "out_vfree", "exit", "queue", "data"} THEN NDevs ELSE 1)
  /\ Line("sbull") \in 1 .. (IF Label("sbull") = "setup" THEN 5 ELSE IF Label("sbull") = "exit" THEN 4
                   ELSE IF Label("sbull") \in {"init", "queue", "data", "free"} THEN 2 ELSE 1)
  /\ \A k \in {"sbull_major", "sbull_devices"} : held[k] \subseteq {1}
  /\ \A k \in {"sbull_data", "sbull_timer", "sbull_queue", "sbull_gd", "sbull_disk"} : held[k] \subseteq 1..NDevs
  /\ status["sbull"] = "loading" => Label("sbull") \notin {"exit", "queue", "data", "free"}
  /\ "sbull_major" \in plan => Label("sbull") \in {"init", "out"} /\ Line("sbull") = 1
SbullGone ==
  LET l == Label("sbull")  i == I("sbull")  k == Line("sbull") IN
  /\ "sbull_major" \notin plan /\ (l = "out" \/ Site("sbull", "init", 1) \/ Site("sbull", "free", 2))
     => None({"sbull_major"})
  /\ l \in {"init", "out_unregister", "out"} => None({"sbull_devices", "sbull_timer"})
  /\ l \in {"init", "out_unregister", "free", "out"}
     => None({"sbull_data", "sbull_queue", "sbull_gd", "sbull_disk"})
  /\ l \in {"setup", "out_vfree"} => held["sbull_disk"] \subseteq 1..i - 1
  /\ l = "exit" => /\ \A r \in {"sbull_data", "sbull_queue", "sbull_gd"} : held[r] \subseteq i..NDevs
                   /\ held["sbull_disk"] \subseteq Since("sbull", 3, NDevs)
  /\ l = "queue" => /\ \A r \in {"sbull_data", "sbull_queue"} : held[r] \subseteq i..NDevs
                    /\ \A r \in {"sbull_gd", "sbull_disk"} : held[r] \subseteq i + 1..NDevs
  /\ l = "data" => /\ held["sbull_data"] \subseteq i..NDevs
                   /\ \A r \in {"sbull_queue", "sbull_gd", "sbull_disk"} : held[r] \subseteq i + 1..NDevs
  /\ \A r \in {"sbull_data", "sbull_queue", "sbull_gd"} : held[r] \subseteq pointer[r]
SbullThere ==
  LET l == Label("sbull")  i == I("sbull")  k == Line("sbull") IN
  /\ \A r \in {"sbull_data", "sbull_timer", "sbull_queue", "sbull_gd"} : held["sbull_disk"] \subseteq held[r]
  /\ held["sbull_disk"] # {} => Had({"sbull_major", "sbull_devices"})
  /\ l \in {"out_unregister", "setup", "out_vfree"} \/ Site("sbull", "init", 2) => Had({"sbull_major"})
  /\ l \in {"setup", "out_vfree"} => Had({"sbull_devices"})
  /\ l = "setup" => /\ k \in 2..5 => i \in held["sbull_data"]
                    /\ k \in 3..5 => i \in held["sbull_timer"]
                    /\ k \in 4..5 => i \in held["sbull_queue"]
                    /\ k = 5 => i \in held["sbull_gd"]
SbullOwned ==
  LET l == Label("sbull")  i == I("sbull")  k == Line("sbull") IN
  /\ l # "out_vfree"
  /\ l \in {"live", "exit", "queue", "data"} \/ Site("sbull", "free", 1) => Had({"sbull_major"})
  /\ l \in {"live", "exit", "queue", "data", "free"} => Had({"sbull_devices"})
  /\ l = "setup" => \A r \in {"sbull_data", "sbull_timer", "sbull_queue", "sbull_gd", "sbull_disk"} :
                      1..i - 1 \subseteq held[r]
  /\ l \in {"live", "exit", "queue", "data"} => 1..NDevs \subseteq held["sbull_timer"]
  /\ l = "live" => \A r \in {"sbull_data", "sbull_queue", "sbull_gd", "sbull_disk"} : 1..NDevs \subseteq held[r]
  /\ l = "exit" => /\ \A r \in {"sbull_data", "sbull_queue", "sbull_gd"} : i..NDevs \subseteq held[r]
                   /\ Since("sbull", 3, NDevs) \subseteq held["sbull_disk"]
  /\ l = "queue" => /\ \A r \in {"sbull_data", "sbull_queue"} : i..NDevs \subseteq held[r]
                    /\ \A r \in {"sbull_gd", "sbull_disk"} : i + 1..NDevs \subseteq held[r]
  /\ l = "data" => /\ i..NDevs \subseteq held["sbull_data"]
                   /\ \A r \in {"sbull_queue", "sbull_gd", "sbull_disk"} : i + 1..NDevs \subseteq held[r]
SbullInv == SbullPlace /\ SbullGone /\ SbullThere /\ (Careful => SbullOwned)
-----------------------------------------------------------------------------
(* snull, tiny_tty and usb_skeleton *)

SnullPlace ==
  /\ Label("snull") \in {"init", "check", "register", "ret", "live", "exit", "out"}
  /\ I("snull") \in 1 .. (IF Label("snull") \in {"init", "register", "exit"} THEN 2 ELSE 1)
  /\ Line("snull") \in 1 .. (IF Label("snull") = "init" THEN 3 ELSE IF Label("snull") = "exit" THEN 4 ELSE 1)
  /\ \A k \in {"snull_dev", "snull_lock", "snull_pool", "snull_reg"} : held[k] \subseteq 1..2
SnullGone ==
  LET l == Label("snull")  i == I("snull")  k == Line("snull") IN
  /\ l = "out" => None({"snull_dev", "snull_lock", "snull_pool", "snull_reg"})
  /\ l = "init" => held["snull_dev"] \subseteq Upto("snull", 1)
  /\ l = "exit" => /\ \A r \in {"snull_dev", "snull_lock"} : held[r] \subseteq i..2
                   /\ held["snull_reg"] \subseteq Since("snull", 2, 2)
                   /\ held["snull_pool"] \subseteq Since("snull", 3, 2)
  /\ \A r \in {"snull_lock", "snull_pool"} : held[r] \subseteq held["snull_dev"]
  /\ held["snull_dev"] \subseteq pointer["snull_dev"]
SnullThere ==
  LET l == Label("snull")  i == I("snull")  k == Line("snull") IN
  /\ \A r \in {"snull_dev", "snull_lock", "snull_pool"} : held["snull_reg"] \subseteq held[r]
  /\ l \in {"init", "check"} => pointer["snull_dev"] \subseteq held["snull_dev"]
  /\ l = "init" => /\ \A j \in held["snull_dev"] : j < i => j \in held["snull_lock"] /\ j \in held["snull_pool"]
                   /\ k \in 2..3 => i \in held["snull_dev"]
                   /\ k = 3 => i \in held["snull_lock"]
  /\ l = "check" => /\ held["snull_dev"] \subseteq held["snull_lock"]
                    /\ held["snull_dev"] \subseteq held["snull_pool"]
  /\ l = "register" => \A r \in {"snull_dev", "snull_lock", "snull_pool"} : {1, 2} \subseteq held[r]
SnullOwned ==
  LET l == Label("snull")  i == I("snull")  k == Line("snull") IN
  /\ l = "init" => 1..i - 1 \subseteq held["snull_dev"]
  /\ l = "check" => {1, 2} \subseteq held["snull_dev"]
  /\ l = "register" => 1..i - 1 \subseteq held["snull_reg"]
  /\ l \in {"ret", "live"} => \A r \in {"snull_dev", "snull_pool", "snull_reg"} : {1, 2} \subseteq held[r]
  /\ l = "exit" => /\ i..2 \subseteq held["snull_dev"]
                   /\ Since("snull", 2, 2) \subseteq held["snull_reg"]
                   /\ Since("snull", 3, 2) \subseteq held["snull_pool"]
  /\ held["snull_reg"] \subseteq pointer["snull_reg"]
SnullInv == SnullPlace /\ SnullGone /\ SnullThere /\ (Careful => SnullOwned)

TinyInv ==
  LET l == Label("tiny_tty")  i == I("tiny_tty")  k == Line("tiny_tty") IN
  /\ l \in {"init", "devices", "put", "live", "exit", "unregister", "out"}
  /\ i \in 1 .. (IF l \in {"devices", "exit"} THEN NDevs ELSE 1)
  /\ k \in 1 .. (IF l = "init" THEN 2 ELSE 1)
  /\ \A r \in {"tiny_driver", "tiny_reg"} : held[r] \subseteq {1}
  /\ held["tiny_device"] \subseteq 1..NDevs
  /\ status["tiny_tty"] = "loading" => l \notin {"exit", "unregister"}
  /\ l \in {"init", "put", "out"} => None({"tiny_reg", "tiny_device"})
  /\ l = "unregister" => None({"tiny_device"})
  /\ l = "exit" => held["tiny_device"] \subseteq i..NDevs
  /\ l = "put" \/ Site("tiny_tty", "init", 2) \/ held["tiny_reg"] # {} => Had({"tiny_driver"})
  /\ l \in {"devices", "live", "exit", "unregister"} => Had({"tiny_reg"})

SkelDriverInv ==
  LET l == Label("usb_skeleton") IN
  /\ l \in {"init", "live", "exit", "out"} /\ I("usb_skeleton") = 1 /\ Line("usb_skeleton") = 1
  /\ held["skel_driver"] \subseteq {1}
  /\ l \in {"init", "out"} => None({"skel_driver"})
  /\ l \in {"live", "exit"} => Had({"skel_driver"})
-----------------------------------------------------------------------------
(* All modules *)

ModuleInv(m) ==
  CASE m = "scull"        -> ScullInv
    [] m = "lddbus"       -> LddInv
    [] m = "sculld"       -> SculldInv
    [] m = "sbull"        -> SbullInv
    [] m = "snull"        -> SnullInv
    [] m = "tiny_tty"     -> TinyInv
    [] m = "usb_skeleton" -> SkelDriverInv

\* sculld keeps its bus in, and only what was to be loaded is.
Busy    == status["sculld"] # "out" => status["lddbus"] = "live"
Planned == \A m \in Modules : status[m] # "out" => m \in plan

\* An open device is there, and its module is not on its way out.
FilesOpen ==
  \A p \in Openers : opened[p] # NoNode =>
    \E m \in Modules : /\ opened[p][1] \in Nodes(m) /\ status[m] \in {"loading", "live"}
                       /\ opened[p][2] \in held[opened[p][1]]

LoadInv == /\ LoadTypeOK /\ (\A m \in Modules : ModuleInv(m))
       /\ Busy /\ Planned /\ FilesOpen /\ (Careful => stray = {})
-----------------------------------------------------------------------------
(* What a step does *)

Leaves(k) == \A l \in AllKinds \ {k} : held'[l] = held[l] /\ pointer'[l] = pointer[l]
Gets(k, i) ==
  /\ held'[k] = held[k] \cup {i} /\ pointer'[k] = pointer[k] \cup {i}
  /\ Leaves(k) /\ stray' = stray
Nulls(k, i) ==
  held' = held /\ pointer'[k] = pointer[k] \ {i} /\ Leaves(k) /\ stray' = stray
Same == held' = held /\ pointer' = pointer /\ stray' = stray

\* A release changes no kind outside K, and is one of what is not held or is not.
Others(K) == (\A l \in AllKinds \ K : held'[l] = held[l]) /\ pointer' = pointer
Frees(s, k, i) ==
  /\ s = Put(k) => stray' = stray \cup Strays(k, i)
  /\ s = Drop(k) => stray' = stray

Moves(m, t) ==
  /\ Label(m)' = t[1] /\ I(m)' = t[2] /\ Line(m)' = t[3]
  /\ UNCHANGED <<plan, status>> /\ LoadTypeOK'

\* What every step of a module's functions keeps, besides its own invariant.
Stays(m) ==
  /\ LoadTypeOK'
  /\ \A l \in AllKinds \ Kinds(m) : held'[l] = held[l] /\ pointer'[l] = pointer[l]
  /\ Careful => stray' = stray
  /\ status[m] = "loading" => \A k \in Nodes(m) : held[k] \subseteq held'[k]

Typed ==
  /\ held' \in [AllKinds -> SUBSET Nat] /\ pointer' \in [AllKinds -> SUBSET Nat]
  /\ stray' \subseteq AllKinds

LEMMA Kept ==
  ASSUME LoadTypeOK, NEW m \in Modules, NEW c, Runs(m, c)
  PROVE  /\ UNCHANGED <<plan, status, opened>>
         /\ \A n \in Modules \ {m} : at'[n] = at[n]
BY DEF Runs, Acquires, Fails, Releases, Clears, Uses, Tests, Goes, LoadTypeOK

\* A step leads to the place that Target says.
LEMMA Moved ==
  ASSUME LoadTypeOK, NEW m \in Modules, NEW c, In(m, c), Runs(m, c), NEW to,
         Goes(m, c, to), Typed
  PROVE  Moves(m, Target(m, c, to))
<1> DEFINE t == Target(m, c, to)
<1>0. at' = [at EXCEPT ![m] = t]
  BY DEF Goes
<1>1. UNCHANGED <<plan, status, opened>> /\ \A n \in Modules \ {m} : at'[n] = at[n]
  BY Kept
<1>2. t = <<t[1], t[2], t[3]>> /\ t[2] \in Nat /\ t[3] \in Nat
  <2>1. I(m) \in Nat /\ I(m) + 1 \in Nat /\ Line(m) + 1 \in Nat /\ 1 \in Nat
    BY DEF LoadTypeOK
  <2>2. \/ t = <<c.label, I(m), Line(m) + 1>>
        \/ t = <<c.next, I(m), 1>> \/ t = <<c.first, I(m) + 1, 1>>
        \/ t = <<c.next, 1, 1>> \/ t = <<to, I(m), 1>>
    BY DEF Target, After
  <2> HIDE DEF t
  <2> QED BY <2>1, <2>2
<1>3. at'[m] = t
  BY <1>0 DEF LoadTypeOK
<1>4. DOMAIN at' = Modules /\ at' = [n \in DOMAIN at' |-> at'[n]]
  BY <1>0 DEF LoadTypeOK
<1> HIDE DEF t
<1>5. \A n \in Modules : at'[n] = IF n = m THEN <<t[1], t[2], t[3]>> ELSE at[n]
  BY <1>1, <1>2, <1>3
<1>6. \A n \in Modules : at[n] = <<Label(n), I(n), Line(n)>>
  BY DEF LoadTypeOK
<1>7. \A n \in Modules : at'[n] = <<Label(n)', I(n)', Line(n)'>>
  BY <1>5, <1>6 DEF Label, I, Line
<1>8. at' = [n \in Modules |-> <<Label(n)', I(n)', Line(n)'>>]
  BY <1>4, <1>7
<1>9. \A n \in Modules : I(n)' \in Nat /\ Line(n)' \in Nat
  BY <1>2, <1>5, <1>6 DEF LoadTypeOK, I, Line
<1>10. \A n \in Modules : ~Running(n)' => Label(n)' = status'[n]
  BY <1>1 DEF In, Running, Label, LoadTypeOK
<1>11. LoadTypeOK'
  BY <1>1, <1>8, <1>9, <1>10 DEF LoadTypeOK, Typed
<1> QED BY <1>1, <1>3, <1>11 DEF t, Moves, Label, I, Line

LEMMA GetOrStep ==
  ASSUME LoadTypeOK, NEW m \in Modules, NEW c, In(m, c), Runs(m, c), NEW k \in AllKinds, NEW l,
         Now(m, c) = GetOr(k, l)
  PROVE  \/ Gets(k, I(m)) /\ Moves(m, Target(m, c, "next"))
         \/ k \in MayFail /\ Same /\ Moves(m, Target(m, c, l))
<1>1. Acquires(m, c) \/ Fails(m, c)
  BY DEF Runs, Acquires, Fails, Releases, Clears, Uses, Tests, GetOr, Step
<1>2. [held EXCEPT ![k] = @ \cup {I(m)}] \in [AllKinds -> SUBSET Nat]
  BY DEF LoadTypeOK
<1>3. [pointer EXCEPT ![k] = @ \cup {I(m)}] \in [AllKinds -> SUBSET Nat]
  BY DEF LoadTypeOK
<1>4. CASE Acquires(m, c)
  <2>1. Typed /\ Goes(m, c, "next")
    BY <1>2, <1>3, <1>4 DEF Acquires, GetOr, Step, Typed, LoadTypeOK
  <2>2. Moves(m, Target(m, c, "next"))
    BY <2>1, Moved
  <2> QED BY <1>4, <2>2 DEF Acquires, GetOr, Step, LoadTypeOK, Gets, Leaves
<1>5. CASE Fails(m, c)
  <2>1. Typed /\ Goes(m, c, l)
    BY <1>5 DEF Fails, GetOr, Step, Typed, LoadTypeOK
  <2>2. Moves(m, Target(m, c, l))
    BY <2>1, Moved
  <2> QED BY <1>5, <2>2 DEF Fails, GetOr, Step, Same
<1> QED BY <1>1, <1>4, <1>5

LEMMA GetStep ==
  ASSUME LoadTypeOK, NEW m \in Modules, NEW c, In(m, c), Runs(m, c), NEW k \in AllKinds,
         Now(m, c) = Get(k)
  PROVE  (Gets(k, I(m)) \/ (k \in MayFail /\ Same)) /\ Moves(m, Target(m, c, "next"))
BY GetOrStep DEF Get, GetOr

LEMMA SetStep ==
  ASSUME LoadTypeOK, NEW m \in Modules, NEW c, In(m, c), Runs(m, c), NEW k \in AllKinds,
         Now(m, c) = Set(k)
  PROVE  Gets(k, I(m)) /\ Moves(m, Target(m, c, "next"))
<1>1. Acquires(m, c)
  BY DEF Runs, Acquires, Fails, Releases, Clears, Uses, Tests, Set, Step
<1>2. [held EXCEPT ![k] = @ \cup {I(m)}] \in [AllKinds -> SUBSET Nat]
  BY DEF LoadTypeOK
<1>3. [pointer EXCEPT ![k] = @ \cup {I(m)}] \in [AllKinds -> SUBSET Nat]
  BY DEF LoadTypeOK
<1>4. Typed /\ Goes(m, c, "next")
  BY <1>1, <1>2, <1>3 DEF Acquires, Set, Step, Typed, LoadTypeOK
<1>5. Moves(m, Target(m, c, "next"))
  BY <1>4, Moved
<1> QED BY <1>1, <1>5 DEF Acquires, Set, Step, LoadTypeOK, Gets, Leaves

LEMMA PutStep ==
  ASSUME LoadTypeOK, NEW m \in Modules, NEW c, In(m, c), Runs(m, c), NEW k \in AllKinds,
         Now(m, c) = Put(k) \/ Now(m, c) = Drop(k)
  PROVE  /\ \A l \in AllKinds :
              held'[l] = IF <<k, l>> \in InAll THEN {}
                         ELSE IF l = k \/ <<k, l>> \in InOne THEN held[l] \ {I(m)} ELSE held[l]
         /\ pointer' = pointer
         /\ Frees(Now(m, c), k, I(m)) /\ Moves(m, Target(m, c, "next"))
<1>1. Releases(m, c) /\ Now(m, c).kind = k
  BY DEF Runs, Acquires, Fails, Releases, Clears, Uses, Tests, Put, Drop, Step
<1>2. Without(k, I(m)) \in [AllKinds -> SUBSET Nat]
  BY DEF LoadTypeOK, Without
<1>3. Typed /\ Goes(m, c, "next")
  BY <1>1, <1>2 DEF Releases, Typed, LoadTypeOK, Strays
<1>4. Moves(m, Target(m, c, "next"))
  BY <1>3, Moved
<1>5. Frees(Now(m, c), k, I(m))
  BY <1>1 DEF Releases, Frees, Put, Drop, Step
<1> QED BY <1>1, <1>4, <1>5 DEF Releases, Without

\* What is released takes what lies in it along.
LEMMA PutOne ==
  ASSUME LoadTypeOK, NEW m \in Modules, NEW c, In(m, c), Runs(m, c), NEW k \in AllKinds,
         Now(m, c) = Put(k) \/ Now(m, c) = Drop(k),
         k \notin {"scull_devices", "scullp_devices", "sculld_devices", "sbull_devices",
                  "ldd_bus_type", "sculld_driver", "sculld_ldev", "snull_dev"}
  PROVE  /\ held'[k] = held[k] \ {I(m)} /\ Others({k})
         /\ Frees(Now(m, c), k, I(m)) /\ Moves(m, Target(m, c, "next"))
<1>1. \A l : <<k, l>> \notin InAll /\ <<k, l>> \notin InOne
  BY DEF InAll, InOne
<1>2. \A l \in AllKinds : held'[l] = IF l = k THEN held[l] \ {I(m)} ELSE held[l]
  BY <1>1, PutStep
<1> QED BY <1>2, PutStep DEF Others

\* Of the first kind, all of the second; or that of one device.
TakesAll(k, l) == <<k, l>> \in InAll
TakesOne(k, l) == <<k, l>> \in InOne
Lets(m, c, k) == Now(m, c) = Put(k) \/ Now(m, c) = Drop(k)

LEMMA PutWithAll ==
  ASSUME LoadTypeOK, NEW m \in Modules, NEW c, In(m, c), Runs(m, c), NEW k \in AllKinds,
         NEW l \in AllKinds, Lets(m, c, k), TakesAll(k, l)
  PROVE  /\ held'[k] = held[k] \ {I(m)} /\ held'[l] = {} /\ Others({k, l})
         /\ Frees(Now(m, c), k, I(m)) /\ Moves(m, Target(m, c, "next"))
<1>1. /\ \A j : (<<k, j>> \in InAll <=> j = l) /\ <<k, j>> \notin InOne
      /\ k # l
  BY DEF TakesAll, InAll, InOne
<1>2. /\ \A j \in AllKinds :
           held'[j] = IF <<k, j>> \in InAll THEN {}
                      ELSE IF j = k \/ <<k, j>> \in InOne THEN held[j] \ {I(m)} ELSE held[j]
      /\ pointer' = pointer /\ Frees(Now(m, c), k, I(m)) /\ Moves(m, Target(m, c, "next"))
  BY PutStep DEF Lets
<1>3. \A j \in AllKinds : held'[j] = IF j = l THEN {} ELSE IF j = k THEN held[j] \ {I(m)} ELSE held[j]
  BY <1>1, <1>2
<1> QED BY <1>1, <1>2, <1>3 DEF Others

LEMMA PutWithOne ==
  ASSUME LoadTypeOK, NEW m \in Modules, NEW c, In(m, c), Runs(m, c), NEW k \in AllKinds,
         NEW l \in AllKinds, Lets(m, c, k), TakesOne(k, l)
  PROVE  /\ held'[k] = held[k] \ {I(m)} /\ held'[l] = held[l] \ {I(m)} /\ Others({k, l})
         /\ Frees(Now(m, c), k, I(m)) /\ Moves(m, Target(m, c, "next"))
<1>1. /\ \A j : (<<k, j>> \in InOne <=> j = l) /\ <<k, j>> \notin InAll
      /\ k # l
  BY DEF TakesOne, InAll, InOne
<1>2. /\ \A j \in AllKinds :
           held'[j] = IF <<k, j>> \in InAll THEN {}
                      ELSE IF j = k \/ <<k, j>> \in InOne THEN held[j] \ {I(m)} ELSE held[j]
      /\ pointer' = pointer /\ Frees(Now(m, c), k, I(m)) /\ Moves(m, Target(m, c, "next"))
  BY PutStep DEF Lets
<1>3. \A j \in AllKinds : held'[j] = IF j = l THEN held[l] \ {I(m)} ELSE IF j = k THEN held[j] \ {I(m)} ELSE held[j]
  BY <1>1, <1>2
<1> QED BY <1>1, <1>2, <1>3 DEF Others

LEMMA ClearStep ==
  ASSUME LoadTypeOK, NEW m \in Modules, NEW c, In(m, c), Runs(m, c), NEW k \in AllKinds,
         Now(m, c) = Clear(k)
  PROVE  Nulls(k, I(m)) /\ Moves(m, Target(m, c, "next"))
<1>1. Clears(m, c)
  BY DEF Runs, Acquires, Fails, Releases, Clears, Uses, Tests, Clear, Step
<1>2. [pointer EXCEPT ![k] = @ \ {I(m)}] \in [AllKinds -> SUBSET Nat]
  BY DEF LoadTypeOK
<1>3. Typed /\ Goes(m, c, "next")
  BY <1>1, <1>2 DEF Clears, Clear, Step, Typed, LoadTypeOK
<1>4. Moves(m, Target(m, c, "next"))
  BY <1>3, Moved
<1> QED BY <1>1, <1>4 DEF Clears, Clear, Step, LoadTypeOK, Nulls, Leaves

LEMMA UseStep ==
  ASSUME LoadTypeOK, NEW m \in Modules, NEW c, In(m, c), Runs(m, c), NEW k \in AllKinds,
         Now(m, c) = Use(k)
  PROVE  /\ held' = held /\ pointer' = pointer /\ stray' = stray \cup Strays(k, I(m))
         /\ Moves(m, Target(m, c, "next"))
<1>1. Uses(m, c)
  BY DEF Runs, Acquires, Fails, Releases, Clears, Uses, Tests, Use, Step
<1>2. Typed /\ Goes(m, c, "next")
  BY <1>1 DEF Uses, Use, Step, Typed, LoadTypeOK, Strays
<1>3. Moves(m, Target(m, c, "next"))
  BY <1>2, Moved
<1> QED BY <1>1, <1>3 DEF Uses, Use, Step

LEMMA TestStep ==
  ASSUME LoadTypeOK, NEW m \in Modules, NEW c, In(m, c), Runs(m, c), NEW k \in AllKinds, NEW l,
         Now(m, c) \in {IfNull(k, l), IfNone(k, l), IfLack(k, l)}
  PROVE  /\ Same
         /\ Moves(m, Target(m, c, IF Holds(m, Now(m, c)) THEN "next" ELSE l))
<1>1. Tests(m, c)
  BY DEF Runs, Acquires, Fails, Releases, Clears, Uses, Tests, IfNull, IfNone, IfLack, Step
<1>2. Now(m, c).to = l
  BY DEF IfNull, IfNone, IfLack, Step
<1>3. Typed /\ Goes(m, c, IF Holds(m, Now(m, c)) THEN "next" ELSE l)
  BY <1>1, <1>2 DEF Tests, Typed, LoadTypeOK
<1>4. Moves(m, Target(m, c, IF Holds(m, Now(m, c)) THEN "next" ELSE l))
  BY <1>3, Moved
<1> QED BY <1>1, <1>4 DEF Tests, Same

\* What the rest of LoadNext does to a module: nothing, or it is called, or returns.
Rests(m) ==
  /\ plan' = plan /\ at'[m] = at[m] /\ status'[m] = status[m]
  /\ \A k \in Kinds(m) : held'[k] = held[k] /\ pointer'[k] = pointer[k]
Starts(m) ==
  /\ plan' = plan /\ status[m] = "out" /\ status'[m] = "loading" /\ at'[m] = <<"init", 1, 1>>
  /\ \A k \in Kinds(m) : held'[k] = held[k] /\ pointer'[k] = {}
Stops(m) ==
  /\ plan' = plan /\ status[m] = "live" /\ status'[m] = "unloading" /\ at'[m] = <<"exit", 1, 1>>
  /\ \A k \in Kinds(m) : held'[k] = held[k] /\ pointer'[k] = pointer[k]
Ends(m) ==
  /\ plan' = plan /\ Running(m) /\ Label(m) \in {"live", "out"} /\ status'[m] = Label(m) /\ at'[m] = at[m]
  /\ \A k \in Kinds(m) :
       /\ held'[k] = IF k = "sculla_sem" /\ Label(m) = "out" THEN {} ELSE held[k]
       /\ pointer'[k] = pointer[k]
-----------------------------------------------------------------------------
(* scull *)

LEMMA ScullKinds ==
  /\ Kinds("scull") = {"scull_region", "scull_devices", "scull_sem", "scull_kobj", "scull_cdev",
                       "scullp_region", "scullp_devices", "scullp_sem", "scullp_kobj",
                       "scullp_cdev", "sculla_region", "sculla_sem", "sculla_kobj", "sculla_cdev"}
  /\ Kinds("scull") \subseteq AllKinds /\ "scull" \in Modules
  /\ Nodes("scull") = {"scull_cdev", "scullp_cdev", "sculla_cdev"}
BY DEF Kinds, AllKinds, Modules, Nodes

LEMMA ScullAtInit ==
  ASSUME LoadTypeOK, ScullInv, NEW c, c = Block("init", <<GetOr("scull_region", "out"), GetOr("scull_devices", "exit")>>, "setup"),
         In("scull", c), Runs("scull", c)
  PROVE  ScullInv' /\ Stays("scull")
<1> DEFINE i == I("scull")
<1>0. Label("scull") = "init" /\ i = 1 /\ Line("scull") \in 1..2
      /\ status["scull"] \in {"loading", "unloading"} /\ NDevs \in Nat \ {0}
  BY NDevsAssumption DEF In, Running, Block, Loop, Again, ScullInv, ScullPlace
<1>1. CASE Line("scull") = 1
  <2>1. /\ Now("scull", c) = GetOr("scull_region", "out")
        /\ Target("scull", c, "next") = <<"init", i, 2>>
        /\ Target("scull", c, "out") = <<"out", i, 1>>
    BY <1>0, <1>1 DEF Now, Block, Loop, Again, Target, After
  <2>2. \/ Gets("scull_region", i) /\ Moves("scull", <<"init", i, 2>>)
        \/ "scull_region" \in MayFail /\ Same /\ Moves("scull", <<"out", i, 1>>)
    BY <2>1, GetOrStep, ScullKinds
  <2>3. CASE Gets("scull_region", i) /\ Moves("scull", <<"init", i, 2>>)
    <3>1. ScullInv'
      BY <1>0, <1>1, <2>3, ScullKinds DEF ScullInv, ScullPlace, ScullRange, ScullGone, ScullPGone,
         ScullAGone, ScullThere, ScullOwned, PDone, Done, FromMinor0, None, Had, Site, Upto, Since,
         Careful, Moves, Gets, Leaves
    <3> QED BY <2>3, ScullKinds, <3>1 DEF Stays, Moves, Gets, Leaves
  <2>4. CASE "scull_region" \in MayFail /\ Same /\ Moves("scull", <<"out", i, 1>>)
    <3>1. ScullInv'
      BY <1>0, <1>1, <2>4, ScullKinds DEF ScullInv, ScullPlace, ScullRange, ScullGone, ScullPGone,
         ScullAGone, ScullThere, ScullOwned, PDone, Done, FromMinor0, None, Had, Site, Upto, Since,
         Careful, Moves, Same
    <3> QED BY <2>4, ScullKinds, <3>1 DEF Stays, Moves, Same
  <2> QED BY <2>2, <2>3, <2>4
<1>2. CASE Line("scull") = 2
  <2>1. /\ Now("scull", c) = GetOr("scull_devices", "exit")
        /\ Target("scull", c, "next") = <<"setup", i, 1>>
        /\ Target("scull", c, "exit") = <<"exit", i, 1>>
    BY <1>0, <1>2 DEF Now, Block, Loop, Again, Target, After
  <2>2. \/ Gets("scull_devices", i) /\ Moves("scull", <<"setup", i, 1>>)
        \/ "scull_devices" \in MayFail /\ Same /\ Moves("scull", <<"exit", i, 1>>)
    BY <2>1, GetOrStep, ScullKinds
  <2>3. CASE Gets("scull_devices", i) /\ Moves("scull", <<"setup", i, 1>>)
    <3>1. ScullInv'
      BY <1>0, <1>2, <2>3, ScullKinds DEF ScullInv, ScullPlace, ScullRange, ScullGone, ScullPGone,
         ScullAGone, ScullThere, ScullOwned, PDone, Done, FromMinor0, None, Had, Site, Upto, Since,
         Careful, Moves, Gets, Leaves
    <3> QED BY <2>3, ScullKinds, <3>1 DEF Stays, Moves, Gets, Leaves
  <2>4. CASE "scull_devices" \in MayFail /\ Same /\ Moves("scull", <<"exit", i, 1>>)
    <3>1. ScullInv'
      BY <1>0, <1>2, <2>4, ScullKinds DEF ScullInv, ScullPlace, ScullRange, ScullGone, ScullPGone,
         ScullAGone, ScullThere, ScullOwned, PDone, Done, FromMinor0, None, Had, Site, Upto, Since,
         Careful, Moves, Same
    <3> QED BY <2>4, ScullKinds, <3>1 DEF Stays, Moves, Same
  <2> QED BY <2>2, <2>3, <2>4
<1> QED BY <1>0, <1>1, <1>2

LEMMA ScullAtSetup ==
  ASSUME LoadTypeOK, ScullInv, NEW c, c = Loop(NDevs, "setup", ScullSetup, "p_init"),
         In("scull", c), Runs("scull", c)
  PROVE  ScullInv' /\ Stays("scull")
<1> DEFINE i == I("scull")
<1>0. Label("scull") = "setup" /\ i \in 1..NDevs /\ Line("scull") \in 1..3
      /\ status["scull"] \in {"loading", "unloading"} /\ NDevs \in Nat \ {0}
  BY NDevsAssumption DEF In, Running, Block, Loop, Again, ScullInv, ScullPlace
<1>1. CASE Line("scull") = 1
  <2>1. /\ Now("scull", c) = Set("scull_sem")
        /\ Target("scull", c, "next") = <<"setup", i, 2>>
    BY <1>0, <1>1 DEF Now, Block, Loop, Again, Target, After, ScullSetup
  <2>2. /\ Gets("scull_sem", i)
        /\ Moves("scull", <<"setup", i, 2>>)
    BY <2>1, SetStep, ScullKinds
  <2>3. ScullInv'
    BY <1>0, <1>1, <2>2, ScullKinds DEF ScullInv, ScullPlace, ScullRange, ScullGone, ScullPGone,
       ScullAGone, ScullThere, ScullOwned, PDone, Done, FromMinor0, None, Had, Site, Upto, Since,
       Careful, Moves, Gets, Leaves
  <2> QED BY <2>2, ScullKinds, <2>3 DEF Stays, Moves, Gets, Leaves
<1>2. CASE Line("scull") = 2
  <2>1. /\ Now("scull", c) = Set("scull_kobj")
        /\ Target("scull", c, "next") = <<"setup", i, 3>>
    BY <1>0, <1>2 DEF Now, Block, Loop, Again, Target, After, ScullSetup
  <2>2. /\ Gets("scull_kobj", i)
        /\ Moves("scull", <<"setup", i, 3>>)
    BY <2>1, SetStep, ScullKinds
  <2>3. ScullInv'
    BY <1>0, <1>2, <2>2, ScullKinds DEF ScullInv, ScullPlace, ScullRange, ScullGone, ScullPGone,
       ScullAGone, ScullThere, ScullOwned, PDone, Done, FromMinor0, None, Had, Site, Upto, Since,
       Careful, Moves, Gets, Leaves
  <2> QED BY <2>2, ScullKinds, <2>3 DEF Stays, Moves, Gets, Leaves
<1>3. CASE Line("scull") = 3
  <2>1. /\ Now("scull", c) = Get("scull_cdev")
        /\ Target("scull", c, "next") = (IF i < NDevs THEN <<"setup", i + 1, 1>> ELSE <<"p_init", 1, 1>>)
    BY <1>0, <1>3 DEF Now, Block, Loop, Again, Target, After, ScullSetup
  <2>2. /\ Gets("scull_cdev", i) \/ ("scull_cdev" \in MayFail /\ Same)
        /\ Moves("scull", (IF i < NDevs THEN <<"setup", i + 1, 1>> ELSE <<"p_init", 1, 1>>))
    BY <2>1, GetStep, ScullKinds
  <2>3. ScullInv'
    BY <1>0, <1>3, <2>2, ScullKinds DEF ScullInv, ScullPlace, ScullRange, ScullGone, ScullPGone,
       ScullAGone, ScullThere, ScullOwned, PDone, Done, FromMinor0, None, Had, Site, Upto, Since,
       Careful, Moves, Gets, Leaves, Same
  <2> QED BY <2>2, ScullKinds, <2>3 DEF Stays, Moves, Gets, Leaves, Same
<1> QED BY <1>0, <1>1, <1>2, <1>3

LEMMA ScullAtPInit ==
  ASSUME LoadTypeOK, ScullInv, NEW c, c = Block("p_init",
                    <<GetOr("scullp_region", "a_init"), GetOr("scullp_devices", "p_none")>>, "p_setup"),
         In("scull", c), Runs("scull", c)
  PROVE  ScullInv' /\ Stays("scull")
<1> DEFINE i == I("scull")
<1>0. Label("scull") = "p_init" /\ i = 1 /\ Line("scull") \in 1..2
      /\ status["scull"] \in {"loading", "unloading"} /\ NDevs \in Nat \ {0}
  BY NDevsAssumption DEF In, Running, Block, Loop, Again, ScullInv, ScullPlace
<1>1. CASE Line("scull") = 1
  <2>1. /\ Now("scull", c) = GetOr("scullp_region", "a_init")
        /\ Target("scull", c, "next") = <<"p_init", i, 2>>
        /\ Target("scull", c, "a_init") = <<"a_init", i, 1>>
    BY <1>0, <1>1 DEF Now, Block, Loop, Again, Target, After
  <2>2. \/ Gets("scullp_region", i) /\ Moves("scull", <<"p_init", i, 2>>)
        \/ "scullp_region" \in MayFail /\ Same /\ Moves("scull", <<"a_init", i, 1>>)
    BY <2>1, GetOrStep, ScullKinds
  <2>3. CASE Gets("scullp_region", i) /\ Moves("scull", <<"p_init", i, 2>>)
    <3>1. ScullInv'
      BY <1>0, <1>1, <2>3, ScullKinds DEF ScullInv, ScullPlace, ScullRange, ScullGone, ScullPGone,
         ScullAGone, ScullThere, ScullOwned, PDone, Done, FromMinor0, None, Had, Site, Upto, Since,
         Careful, Moves, Gets, Leaves
    <3> QED BY <2>3, ScullKinds, <3>1 DEF Stays, Moves, Gets, Leaves
  <2>4. CASE "scullp_region" \in MayFail /\ Same /\ Moves("scull", <<"a_init", i, 1>>)
    <3>1. ScullInv'
      BY <1>0, <1>1, <2>4, ScullKinds DEF ScullInv, ScullPlace, ScullRange, ScullGone, ScullPGone,
         ScullAGone, ScullThere, ScullOwned, PDone, Done, FromMinor0, None, Had, Site, Upto, Since,
         Careful, Moves, Same
    <3> QED BY <2>4, ScullKinds, <3>1 DEF Stays, Moves, Same
  <2> QED BY <2>2, <2>3, <2>4
<1>2. CASE Line("scull") = 2
  <2>1. /\ Now("scull", c) = GetOr("scullp_devices", "p_none")
        /\ Target("scull", c, "next") = <<"p_setup", i, 1>>
        /\ Target("scull", c, "p_none") = <<"p_none", i, 1>>
    BY <1>0, <1>2 DEF Now, Block, Loop, Again, Target, After
  <2>2. \/ Gets("scullp_devices", i) /\ Moves("scull", <<"p_setup", i, 1>>)
        \/ "scullp_devices" \in MayFail /\ Same /\ Moves("scull", <<"p_none", i, 1>>)
    BY <2>1, GetOrStep, ScullKinds
  <2>3. CASE Gets("scullp_devices", i) /\ Moves("scull", <<"p_setup", i, 1>>)
    <3>1. ScullInv'
      BY <1>0, <1>2, <2>3, ScullKinds DEF ScullInv, ScullPlace, ScullRange, ScullGone, ScullPGone,
         ScullAGone, ScullThere, ScullOwned, PDone, Done, FromMinor0, None, Had, Site, Upto, Since,
         Careful, Moves, Gets, Leaves
    <3> QED BY <2>3, ScullKinds, <3>1 DEF Stays, Moves, Gets, Leaves
  <2>4. CASE "scullp_devices" \in MayFail /\ Same /\ Moves("scull", <<"p_none", i, 1>>)
    <3>1. ScullInv'
      BY <1>0, <1>2, <2>4, ScullKinds DEF ScullInv, ScullPlace, ScullRange, ScullGone, ScullPGone,
         ScullAGone, ScullThere, ScullOwned, PDone, Done, FromMinor0, None, Had, Site, Upto, Since,
         Careful, Moves, Same
    <3> QED BY <2>4, ScullKinds, <3>1 DEF Stays, Moves, Same
  <2> QED BY <2>2, <2>3, <2>4
<1> QED BY <1>0, <1>1, <1>2

LEMMA ScullAtPNone ==
  ASSUME LoadTypeOK, ScullInv, NEW c, c = Block("p_none", <<Put("scullp_region")>>, "a_init"),
         In("scull", c), Runs("scull", c)
  PROVE  ScullInv' /\ Stays("scull")
<1> DEFINE i == I("scull")
<1>0. Label("scull") = "p_none" /\ i = 1 /\ Line("scull") \in 1..1
      /\ status["scull"] \in {"loading", "unloading"} /\ NDevs \in Nat \ {0}
  BY NDevsAssumption DEF In, Running, Block, Loop, Again, ScullInv, ScullPlace
<1>1. CASE Line("scull") = 1
  <2>1. /\ Now("scull", c) = Put("scullp_region")
        /\ Target("scull", c, "next") = <<"a_init", i, 1>>
    BY <1>0, <1>1 DEF Now, Block, Loop, Again, Target, After
  <2>2. /\ held'["scullp_region"] = held["scullp_region"] \ {i}
        /\ Others({"scullp_region"}) /\ stray' = stray \cup Strays("scullp_region", i)
        /\ Moves("scull", <<"a_init", i, 1>>)
    BY <2>1, PutOne, ScullKinds DEF Frees
  <2>3. ScullInv'
    BY <1>0, <1>1, <2>2, ScullKinds DEF ScullInv, ScullPlace, ScullRange, ScullGone, ScullPGone,
       ScullAGone, ScullThere, ScullOwned, PDone, Done, FromMinor0, None, Had, Site, Upto, Since,
       Careful, Moves, Others, Strays
  <2>4. Careful => stray' = stray
    BY <1>0, <1>1, <2>2, ScullKinds DEF ScullInv, ScullPlace, ScullThere, PDone, Done, Had, Site,
       Upto, Since, Careful, Others, Strays
  <2> QED BY <2>2, ScullKinds, <2>3, <2>4 DEF Stays, Moves, Others, Strays
<1> QED BY <1>0, <1>1

LEMMA ScullAtPSetup ==
  ASSUME LoadTypeOK, ScullInv, NEW c, c = Loop(NDevs, "p_setup", ScullPSetup, "a_init"),
         In("scull", c), Runs("scull", c)
  PROVE  ScullInv' /\ Stays("scull")
<1> DEFINE i == I("scull")
<1>0. Label("scull") = "p_setup" /\ i \in 1..NDevs /\ Line("scull") \in 1..3
      /\ status["scull"] \in {"loading", "unloading"} /\ NDevs \in Nat \ {0}
  BY NDevsAssumption DEF In, Running, Block, Loop, Again, ScullInv, ScullPlace
<1>1. CASE Line("scull") = 1
  <2>1. /\ Now("scull", c) = Set("scullp_sem")
        /\ Target("scull", c, "next") = <<"p_setup", i, 2>>
    BY <1>0, <1>1 DEF Now, Block, Loop, Again, Target, After, ScullPSetup
  <2>2. /\ Gets("scullp_sem", i)
        /\ Moves("scull", <<"p_setup", i, 2>>)
    BY <2>1, SetStep, ScullKinds
  <2>3. ScullInv'
    BY <1>0, <1>1, <2>2, ScullKinds DEF ScullInv, ScullPlace, ScullRange, ScullGone, ScullPGone,
       ScullAGone, ScullThere, ScullOwned, PDone, Done, FromMinor0, None, Had, Site, Upto, Since,
       Careful, Moves, Gets, Leaves
  <2> QED BY <2>2, ScullKinds, <2>3 DEF Stays, Moves, Gets, Leaves
<1>2. CASE Line("scull") = 2
  <2>1. /\ Now("scull", c) = Set("scullp_kobj")
        /\ Target("scull", c, "next") = <<"p_setup", i, 3>>
    BY <1>0, <1>2 DEF Now, Block, Loop, Again, Target, After, ScullPSetup
  <2>2. /\ Gets("scullp_kobj", i)
        /\ Moves("scull", <<"p_setup", i, 3>>)
    BY <2>1, SetStep, ScullKinds
  <2>3. ScullInv'
    BY <1>0, <1>2, <2>2, ScullKinds DEF ScullInv, ScullPlace, ScullRange, ScullGone, ScullPGone,
       ScullAGone, ScullThere, ScullOwned, PDone, Done, FromMinor0, None, Had, Site, Upto, Since,
       Careful, Moves, Gets, Leaves
  <2> QED BY <2>2, ScullKinds, <2>3 DEF Stays, Moves, Gets, Leaves
<1>3. CASE Line("scull") = 3
  <2>1. /\ Now("scull", c) = Get("scullp_cdev")
        /\ Target("scull", c, "next") = (IF i < NDevs THEN <<"p_setup", i + 1, 1>> ELSE <<"a_init", 1, 1>>)
    BY <1>0, <1>3 DEF Now, Block, Loop, Again, Target, After, ScullPSetup
  <2>2. /\ Gets("scullp_cdev", i) \/ ("scullp_cdev" \in MayFail /\ Same)
        /\ Moves("scull", (IF i < NDevs THEN <<"p_setup", i + 1, 1>> ELSE <<"a_init", 1, 1>>))
    BY <2>1, GetStep, ScullKinds
  <2>3. ScullInv'
    BY <1>0, <1>3, <2>2, ScullKinds DEF ScullInv, ScullPlace, ScullRange, ScullGone, ScullPGone,
       ScullAGone, ScullThere, ScullOwned, PDone, Done, FromMinor0, None, Had, Site, Upto, Since,
       Careful, Moves, Gets, Leaves, Same
  <2> QED BY <2>2, ScullKinds, <2>3 DEF Stays, Moves, Gets, Leaves, Same
<1> QED BY <1>0, <1>1, <1>2, <1>3

LEMMA ScullAtAInit ==
  ASSUME LoadTypeOK, ScullInv, NEW c, c = Block("a_init", <<GetOr("sculla_region", "live")>>, "a_setup"),
         In("scull", c), Runs("scull", c)
  PROVE  ScullInv' /\ Stays("scull")
<1> DEFINE i == I("scull")
<1>0. Label("scull") = "a_init" /\ i = 1 /\ Line("scull") \in 1..1
      /\ status["scull"] \in {"loading", "unloading"} /\ NDevs \in Nat \ {0}
  BY NDevsAssumption DEF In, Running, Block, Loop, Again, ScullInv, ScullPlace
<1>1. CASE Line("scull") = 1
  <2>1. /\ Now("scull", c) = GetOr("sculla_region", "live")
        /\ Target("scull", c, "next") = <<"a_setup", i, 1>>
        /\ Target("scull", c, "live") = <<"live", i, 1>>
    BY <1>0, <1>1 DEF Now, Block, Loop, Again, Target, After
  <2>2. \/ Gets("sculla_region", i) /\ Moves("scull", <<"a_setup", i, 1>>)
        \/ "sculla_region" \in MayFail /\ Same /\ Moves("scull", <<"live", i, 1>>)
    BY <2>1, GetOrStep, ScullKinds
  <2>3. CASE Gets("sculla_region", i) /\ Moves("scull", <<"a_setup", i, 1>>)
    <3>1. ScullInv'
      BY <1>0, <1>1, <2>3, ScullKinds DEF ScullInv, ScullPlace, ScullRange, ScullGone, ScullPGone,
         ScullAGone, ScullThere, ScullOwned, PDone, Done, FromMinor0, None, Had, Site, Upto, Since,
         Careful, Moves, Gets, Leaves
    <3> QED BY <2>3, ScullKinds, <3>1 DEF Stays, Moves, Gets, Leaves
  <2>4. CASE "sculla_region" \in MayFail /\ Same /\ Moves("scull", <<"live", i, 1>>)
    <3>1. ScullInv'
      BY <1>0, <1>1, <2>4, ScullKinds DEF ScullInv, ScullPlace, ScullRange, ScullGone, ScullPGone,
         ScullAGone, ScullThere, ScullOwned, PDone, Done, FromMinor0, None, Had, Site, Upto, Since,
         Careful, Moves, Same
    <3> QED BY <2>4, ScullKinds, <3>1 DEF Stays, Moves, Same
  <2> QED BY <2>2, <2>3, <2>4
<1> QED BY <1>0, <1>1

LEMMA ScullAtASetup ==
  ASSUME LoadTypeOK, ScullInv, NEW c, c = Loop(SCULL_N_ADEVS, "a_setup",
                   <<Set("sculla_sem"), Set("sculla_kobj"), GetOr("sculla_cdev", "a_err")>>, "live"),
         In("scull", c), Runs("scull", c)
  PROVE  ScullInv' /\ Stays("scull")
<1> DEFINE i == I("scull")
<1>0. Label("scull") = "a_setup" /\ i \in 1..4 /\ Line("scull") \in 1..3
      /\ status["scull"] \in {"loading", "unloading"} /\ NDevs \in Nat \ {0}
  BY NDevsAssumption DEF In, Running, Block, Loop, Again, ScullInv, ScullPlace
<1>1. CASE Line("scull") = 1
  <2>1. /\ Now("scull", c) = Set("sculla_sem")
        /\ Target("scull", c, "next") = <<"a_setup", i, 2>>
    BY <1>0, <1>1 DEF Now, Block, Loop, Again, Target, After, SCULL_N_ADEVS
  <2>2. /\ Gets("sculla_sem", i)
        /\ Moves("scull", <<"a_setup", i, 2>>)
    BY <2>1, SetStep, ScullKinds
  <2>3. ScullInv'
    BY <1>0, <1>1, <2>2, ScullKinds DEF ScullInv, ScullPlace, ScullRange, ScullGone, ScullPGone,
       ScullAGone, ScullThere, ScullOwned, PDone, Done, FromMinor0, None, Had, Site, Upto, Since,
       Careful, Moves, Gets, Leaves
  <2> QED BY <2>2, ScullKinds, <2>3 DEF Stays, Moves, Gets, Leaves
<1>2. CASE Line("scull") = 2
  <2>1. /\ Now("scull", c) = Set("sculla_kobj")
        /\ Target("scull", c, "next") = <<"a_setup", i, 3>>
    BY <1>0, <1>2 DEF Now, Block, Loop, Again, Target, After, SCULL_N_ADEVS
  <2>2. /\ Gets("sculla_kobj", i)
        /\ Moves("scull", <<"a_setup", i, 3>>)
    BY <2>1, SetStep, ScullKinds
  <2>3. ScullInv'
    BY <1>0, <1>2, <2>2, ScullKinds DEF ScullInv, ScullPlace, ScullRange, ScullGone, ScullPGone,
       ScullAGone, ScullThere, ScullOwned, PDone, Done, FromMinor0, None, Had, Site, Upto, Since,
       Careful, Moves, Gets, Leaves
  <2> QED BY <2>2, ScullKinds, <2>3 DEF Stays, Moves, Gets, Leaves
<1>3. CASE Line("scull") = 3
  <2>1. /\ Now("scull", c) = GetOr("sculla_cdev", "a_err")
        /\ Target("scull", c, "next") = (IF i < 4 THEN <<"a_setup", i + 1, 1>> ELSE <<"live", 1, 1>>)
        /\ Target("scull", c, "a_err") = <<"a_err", i, 1>>
    BY <1>0, <1>3 DEF Now, Block, Loop, Again, Target, After, SCULL_N_ADEVS
  <2>2. \/ Gets("sculla_cdev", i) /\ Moves("scull", (IF i < 4 THEN <<"a_setup", i + 1, 1>> ELSE <<"live", 1, 1>>))
        \/ "sculla_cdev" \in MayFail /\ Same /\ Moves("scull", <<"a_err", i, 1>>)
    BY <2>1, GetOrStep, ScullKinds
  <2>3. CASE Gets("sculla_cdev", i) /\ Moves("scull", (IF i < 4 THEN <<"a_setup", i + 1, 1>> ELSE <<"live", 1, 1>>))
    <3>1. ScullInv'
      BY <1>0, <1>3, <2>3, ScullKinds DEF ScullInv, ScullPlace, ScullRange, ScullGone, ScullPGone,
         ScullAGone, ScullThere, ScullOwned, PDone, Done, FromMinor0, None, Had, Site, Upto, Since,
         Careful, Moves, Gets, Leaves
    <3> QED BY <2>3, ScullKinds, <3>1 DEF Stays, Moves, Gets, Leaves
  <2>4. CASE "sculla_cdev" \in MayFail /\ Same /\ Moves("scull", <<"a_err", i, 1>>)
    <3>1. ScullInv'
      BY <1>0, <1>3, <2>4, ScullKinds DEF ScullInv, ScullPlace, ScullRange, ScullGone, ScullPGone,
         ScullAGone, ScullThere, ScullOwned, PDone, Done, FromMinor0, None, Had, Site, Upto, Since,
         Careful, Moves, Same
    <3> QED BY <2>4, ScullKinds, <3>1 DEF Stays, Moves, Same
  <2> QED BY <2>2, <2>3, <2>4
<1> QED BY <1>0, <1>1, <1>2, <1>3

LEMMA ScullAtAErr ==
  ASSUME LoadTypeOK, ScullInv, NEW c, c = Again("a_setup", SCULL_N_ADEVS, "a_err", <<Put("sculla_kobj")>>, "live"),
         In("scull", c), Runs("scull", c)
  PROVE  ScullInv' /\ Stays("scull")
<1> DEFINE i == I("scull")
<1>0. Label("scull") = "a_err" /\ i \in 1..4 /\ Line("scull") \in 1..1
      /\ status["scull"] \in {"loading", "unloading"} /\ NDevs \in Nat \ {0}
  BY NDevsAssumption DEF In, Running, Block, Loop, Again, ScullInv, ScullPlace
<1>1. CASE Line("scull") = 1
  <2>1. /\ Now("scull", c) = Put("sculla_kobj")
        /\ Target("scull", c, "next") = (IF i < 4 THEN <<"a_setup", i + 1, 1>> ELSE <<"live", 1, 1>>)
    BY <1>0, <1>1 DEF Now, Block, Loop, Again, Target, After, SCULL_N_ADEVS
  <2>2. /\ held'["sculla_kobj"] = held["sculla_kobj"] \ {i}
        /\ Others({"sculla_kobj"}) /\ stray' = stray \cup Strays("sculla_kobj", i)
        /\ Moves("scull", (IF i < 4 THEN <<"a_setup", i + 1, 1>> ELSE <<"live", 1, 1>>))
    BY <2>1, PutOne, ScullKinds DEF Frees
  <2>3. ScullInv'
    BY <1>0, <1>1, <2>2, ScullKinds DEF ScullInv, ScullPlace, ScullRange, ScullGone, ScullPGone,
       ScullAGone, ScullThere, ScullOwned, PDone, Done, FromMinor0, None, Had, Site, Upto, Since,
       Careful, Moves, Others, Strays
  <2>4. Careful => stray' = stray
    BY <1>0, <1>1, <2>2, ScullKinds DEF ScullInv, ScullPlace, ScullOwned, PDone, Done, Had, Site,
       Upto, Since, Careful, Others, Strays
  <2> QED BY <2>2, ScullKinds, <2>3, <2>4 DEF Stays, Moves, Others, Strays
<1> QED BY <1>0, <1>1

LEMMA ScullAtExit ==
  ASSUME LoadTypeOK, ScullInv, NEW c, c = Block("exit", <<IfNull("scull_devices", "region")>>, "del"),
         In("scull", c), Runs("scull", c)
  PROVE  ScullInv' /\ Stays("scull")
<1> DEFINE i == I("scull")
<1>0. Label("scull") = "exit" /\ i = 1 /\ Line("scull") \in 1..1
      /\ status["scull"] \in {"loading", "unloading"} /\ NDevs \in Nat \ {0}
  BY NDevsAssumption DEF In, Running, Block, Loop, Again, ScullInv, ScullPlace
<1>1. CASE Line("scull") = 1
  <2>1. /\ Now("scull", c) = IfNull("scull_devices", "region")
        /\ Target("scull", c, "next") = <<"del", i, 1>>
        /\ Target("scull", c, "region") = <<"region", i, 1>>
    BY <1>0, <1>1 DEF Now, Block, Loop, Again, Target, After
  <2>2. /\ Same
        /\ IF i \in pointer["scull_devices"] THEN Moves("scull", <<"del", i, 1>>)
           ELSE Moves("scull", <<"region", i, 1>>)
    BY <2>1, TestStep, ScullKinds DEF Holds, IfNull, Step
  <2>3. CASE i \in pointer["scull_devices"]
    <3>1. ScullInv'
      BY <1>0, <1>1, <2>2, <2>3, ScullKinds DEF ScullInv, ScullPlace, ScullRange, ScullGone,
         ScullPGone, ScullAGone, ScullThere, ScullOwned, PDone, Done, FromMinor0, None, Had, Site,
         Upto, Since, Careful, Moves, Same
    <3> QED BY <2>2, <2>3, ScullKinds, <3>1 DEF Stays, Moves, Same
  <2>4. CASE ~(i \in pointer["scull_devices"])
    <3>1. ScullInv'
      BY <1>0, <1>1, <2>2, <2>4, ScullKinds DEF ScullInv, ScullPlace, ScullRange, ScullGone,
         ScullPGone, ScullAGone, ScullThere, ScullOwned, PDone, Done, FromMinor0, None, Had, Site,
         Upto, Since, Careful, Moves, Same
    <3> QED BY <2>2, <2>4, ScullKinds, <3>1 DEF Stays, Moves, Same
  <2> QED BY <2>3, <2>4
<1> QED BY <1>0, <1>1

LEMMA ScullAtDel ==
  ASSUME LoadTypeOK, ScullInv, NEW c, c = Loop(NDevs, "del", <<Drop("scull_cdev"), Put("scull_kobj")>>, "free"),
         In("scull", c), Runs("scull", c)
  PROVE  ScullInv' /\ Stays("scull")
<1> DEFINE i == I("scull")
<1>0. Label("scull") = "del" /\ i \in 1..NDevs /\ Line("scull") \in 1..2
      /\ status["scull"] \in {"loading", "unloading"} /\ NDevs \in Nat \ {0}
  BY NDevsAssumption DEF In, Running, Block, Loop, Again, ScullInv, ScullPlace
<1>1. CASE Line("scull") = 1
  <2>1. /\ Now("scull", c) = Drop("scull_cdev")
        /\ Target("scull", c, "next") = <<"del", i, 2>>
    BY <1>0, <1>1 DEF Now, Block, Loop, Again, Target, After
  <2>2. /\ held'["scull_cdev"] = held["scull_cdev"] \ {i}
        /\ Others({"scull_cdev"}) /\ stray' = stray
        /\ Moves("scull", <<"del", i, 2>>)
    BY <2>1, PutOne, ScullKinds DEF Frees
  <2>3. ScullInv'
    BY <1>0, <1>1, <2>2, ScullKinds DEF ScullInv, ScullPlace, ScullRange, ScullGone, ScullPGone,
       ScullAGone, ScullThere, ScullOwned, PDone, Done, FromMinor0, None, Had, Site, Upto, Since,
       Careful, Moves, Others, Strays
  <2>4. status["scull"] = "loading" => held["scull_cdev"] = {}
    BY <1>0, <1>1, <2>2, ScullKinds DEF ScullInv, ScullPlace, ScullGone, ScullPGone, ScullAGone,
       ScullThere, PDone, Done, None, Had, Site
  <2> QED BY <2>2, ScullKinds, <2>3, <2>4 DEF Stays, Moves, Others, Strays
<1>2. CASE Line("scull") = 2
  <2>1. /\ Now("scull", c) = Put("scull_kobj")
        /\ Target("scull", c, "next") = (IF i < NDevs THEN <<"del", i + 1, 1>> ELSE <<"free", 1, 1>>)
    BY <1>0, <1>2 DEF Now, Block, Loop, Again, Target, After
  <2>2. /\ held'["scull_kobj"] = held["scull_kobj"] \ {i}
        /\ Others({"scull_kobj"}) /\ stray' = stray \cup Strays("scull_kobj", i)
        /\ Moves("scull", (IF i < NDevs THEN <<"del", i + 1, 1>> ELSE <<"free", 1, 1>>))
    BY <2>1, PutOne, ScullKinds DEF Frees
  <2>3. ScullInv'
    BY <1>0, <1>2, <2>2, ScullKinds DEF ScullInv, ScullPlace, ScullRange, ScullGone, ScullPGone,
       ScullAGone, ScullThere, ScullOwned, PDone, Done, FromMinor0, None, Had, Site, Upto, Since,
       Careful, Moves, Others, Strays
  <2>4. Careful => stray' = stray
    BY <1>0, <1>2, <2>2, ScullKinds DEF ScullInv, ScullPlace, ScullOwned, PDone, Done, Had, Site,
       Upto, Since, Careful, Others, Strays
  <2> QED BY <2>2, ScullKinds, <2>3, <2>4 DEF Stays, Moves, Others, Strays
<1> QED BY <1>0, <1>1, <1>2

LEMMA ScullAtFree ==
  ASSUME LoadTypeOK, ScullInv, NEW c, c = Block("free", <<Put("scull_devices")>>, "region"),
         In("scull", c), Runs("scull", c)
  PROVE  ScullInv' /\ Stays("scull")
<1> DEFINE i == I("scull")
<1>0. Label("scull") = "free" /\ i = 1 /\ Line("scull") \in 1..1
      /\ status["scull"] \in {"loading", "unloading"} /\ NDevs \in Nat \ {0}
  BY NDevsAssumption DEF In, Running, Block, Loop, Again, ScullInv, ScullPlace
<1>1. CASE Line("scull") = 1
  <2>1. /\ Now("scull", c) = Put("scull_devices")
        /\ Target("scull", c, "next") = <<"region", i, 1>>
    BY <1>0, <1>1 DEF Now, Block, Loop, Again, Target, After
  <2>2. /\ held'["scull_devices"] = held["scull_devices"] \ {i} /\ held'["scull_sem"] = {}
        /\ Others({"scull_devices", "scull_sem"}) /\ stray' = stray \cup Strays("scull_devices", i)
        /\ Moves("scull", <<"region", i, 1>>)
    <3>1. TakesAll("scull_devices", "scull_sem")
      BY DEF TakesAll, InAll
    <3>2. /\ "scull" \in Modules /\ "scull_devices" \in AllKinds /\ "scull_sem" \in AllKinds
          /\ Lets("scull", c, "scull_devices")
      BY <2>1, ScullKinds DEF Lets
    <3>3. /\ held'["scull_devices"] = held["scull_devices"] \ {i} /\ held'["scull_sem"] = {}
          /\ Others({"scull_devices", "scull_sem"}) /\ Frees(Now("scull", c), "scull_devices", i)
          /\ Moves("scull", Target("scull", c, "next"))
      BY <3>1, <3>2, PutWithAll
    <3> QED BY <2>1, <3>3 DEF Frees
  <2>3. ScullInv'
    BY <1>0, <1>1, <2>2, ScullKinds DEF ScullInv, ScullPlace, ScullRange, ScullGone, ScullPGone,
       ScullAGone, ScullThere, ScullOwned, PDone, Done, FromMinor0, None, Had, Site, Upto, Since,
       Careful, Moves, Others, Strays
  <2>4. Careful => stray' = stray
    BY <1>0, <1>1, <2>2, ScullKinds DEF ScullInv, ScullPlace, ScullOwned, PDone, Done, Had, Site,
       Upto, Since, Careful, Others, Strays
  <2> QED BY <2>2, ScullKinds, <2>3, <2>4 DEF Stays, Moves, Others, Strays
<1> QED BY <1>0, <1>1

LEMMA ScullAtRegion ==
  ASSUME LoadTypeOK, ScullInv, NEW c, c = Block("region", <<Put("scull_region")>>, "p_cleanup"),
         In("scull", c), Runs("scull", c), ~FromMinor0
  PROVE  ScullInv' /\ Stays("scull")
<1> DEFINE i == I("scull")
<1>0. Label("scull") = "region" /\ i = 1 /\ Line("scull") \in 1..1
      /\ status["scull"] \in {"loading", "unloading"} /\ NDevs \in Nat \ {0}
  BY NDevsAssumption DEF In, Running, Block, Loop, Again, ScullInv, ScullPlace
<1>1. CASE Line("scull") = 1
  <2>1. /\ Now("scull", c) = Put("scull_region")
        /\ Target("scull", c, "next") = <<"p_cleanup", i, 1>>
    BY <1>0, <1>1 DEF Now, Block, Loop, Again, Target, After
  <2>2. /\ held'["scull_region"] = held["scull_region"] \ {i}
        /\ Others({"scull_region"}) /\ stray' = stray \cup Strays("scull_region", i)
        /\ Moves("scull", <<"p_cleanup", i, 1>>)
    BY <2>1, PutOne, ScullKinds DEF Frees
  <2>3. ScullInv'
    BY <1>0, <1>1, <2>2, ScullKinds DEF ScullInv, ScullPlace, ScullRange, ScullGone, ScullPGone,
       ScullAGone, ScullThere, ScullOwned, PDone, Done, FromMinor0, None, Had, Site, Upto, Since,
       Careful, Moves, Others, Strays
  <2>4. Careful => stray' = stray
    BY <1>0, <1>1, <2>2, ScullKinds DEF ScullInv, ScullPlace, ScullOwned, PDone, Done, Had, Site,
       Upto, Since, Careful, Others, Strays
  <2> QED BY <2>2, ScullKinds, <2>3, <2>4 DEF Stays, Moves, Others, Strays
<1> QED BY <1>0, <1>1

LEMMA ScullAtRegionMissed ==
  ASSUME LoadTypeOK, ScullInv, NEW c, c = Block("region", <<Misses("scull_region")>>, "p_cleanup"),
         In("scull", c), Runs("scull", c), FromMinor0
  PROVE  ScullInv' /\ Stays("scull")
<1> DEFINE i == I("scull")
<1>0. Label("scull") = "region" /\ i = 1 /\ Line("scull") \in 1..1
      /\ status["scull"] \in {"loading", "unloading"} /\ NDevs \in Nat \ {0}
  BY NDevsAssumption DEF In, Running, Block, Loop, Again, ScullInv, ScullPlace
<1>1. CASE Line("scull") = 1
  <2>1. /\ Now("scull", c) = Misses("scull_region")
        /\ Target("scull", c, "next") = <<"p_cleanup", i, 1>>
    BY <1>0, <1>1 DEF Now, Block, Loop, Again, Target, After
  <2>2. /\ Same
        /\ Moves("scull", <<"p_cleanup", i, 1>>)
    BY <2>1, TestStep, ScullKinds DEF Misses
  <2>3. ScullInv'
    BY <1>0, <1>1, <2>2, ScullKinds DEF ScullInv, ScullPlace, ScullRange, ScullGone, ScullPGone,
       ScullAGone, ScullThere, ScullOwned, PDone, Done, FromMinor0, None, Had, Site, Upto, Since,
       Careful, Moves, Same
  <2> QED BY <2>2, ScullKinds, <2>3 DEF Stays, Moves, Same
<1> QED BY <1>0, <1>1

LEMMA ScullAtPCleanup ==
  ASSUME LoadTypeOK, ScullInv, NEW c, c = Block("p_cleanup", <<IfNull("scullp_devices", "a_del")>>, "p_del"),
         In("scull", c), Runs("scull", c)
  PROVE  ScullInv' /\ Stays("scull")
<1> DEFINE i == I("scull")
<1>0. Label("scull") = "p_cleanup" /\ i = 1 /\ Line("scull") \in 1..1
      /\ status["scull"] \in {"loading", "unloading"} /\ NDevs \in Nat \ {0}
  BY NDevsAssumption DEF In, Running, Block, Loop, Again, ScullInv, ScullPlace
<1>1. CASE Line("scull") = 1
  <2>1. /\ Now("scull", c) = IfNull("scullp_devices", "a_del")
        /\ Target("scull", c, "next") = <<"p_del", i, 1>>
        /\ Target("scull", c, "a_del") = <<"a_del", i, 1>>
    BY <1>0, <1>1 DEF Now, Block, Loop, Again, Target, After
  <2>2. /\ Same
        /\ IF i \in pointer["scullp_devices"] THEN Moves("scull", <<"p_del", i, 1>>)
           ELSE Moves("scull", <<"a_del", i, 1>>)
    BY <2>1, TestStep, ScullKinds DEF Holds, IfNull, Step
  <2>3. CASE i \in pointer["scullp_devices"]
    <3>1. ScullInv'
      BY <1>0, <1>1, <2>2, <2>3, ScullKinds DEF ScullInv, ScullPlace, ScullRange, ScullGone,
         ScullPGone, ScullAGone, ScullThere, ScullOwned, PDone, Done, FromMinor0, None, Had, Site,
         Upto, Since, Careful, Moves, Same
    <3> QED BY <2>2, <2>3, ScullKinds, <3>1 DEF Stays, Moves, Same
  <2>4. CASE ~(i \in pointer["scullp_devices"])
    <3>1. ScullInv'
      BY <1>0, <1>1, <2>2, <2>4, ScullKinds DEF ScullInv, ScullPlace, ScullRange, ScullGone,
         ScullPGone, ScullAGone, ScullThere, ScullOwned, PDone, Done, FromMinor0, None, Had, Site,
         Upto, Since, Careful, Moves, Same
    <3> QED BY <2>2, <2>4, ScullKinds, <3>1 DEF Stays, Moves, Same
  <2> QED BY <2>3, <2>4
<1> QED BY <1>0, <1>1

LEMMA ScullAtPDel ==
  ASSUME LoadTypeOK, ScullInv, NEW c, c = Loop(NDevs, "p_del", <<Drop("scullp_cdev"), Put("scullp_kobj")>>, "p_free"),
         In("scull", c), Runs("scull", c)
  PROVE  ScullInv' /\ Stays("scull")
<1> DEFINE i == I("scull")
<1>0. Label("scull") = "p_del" /\ i \in 1..NDevs /\ Line("scull") \in 1..2
      /\ status["scull"] \in {"loading", "unloading"} /\ NDevs \in Nat \ {0}
  BY NDevsAssumption DEF In, Running, Block, Loop, Again, ScullInv, ScullPlace
<1>1. CASE Line("scull") = 1
  <2>1. /\ Now("scull", c) = Drop("scullp_cdev")
        /\ Target("scull", c, "next") = <<"p_del", i, 2>>
    BY <1>0, <1>1 DEF Now, Block, Loop, Again, Target, After
  <2>2. /\ held'["scullp_cdev"] = held["scullp_cdev"] \ {i}
        /\ Others({"scullp_cdev"}) /\ stray' = stray
        /\ Moves("scull", <<"p_del", i, 2>>)
    BY <2>1, PutOne, ScullKinds DEF Frees
  <2>3. ScullInv'
    BY <1>0, <1>1, <2>2, ScullKinds DEF ScullInv, ScullPlace, ScullRange, ScullGone, ScullPGone,
       ScullAGone, ScullThere, ScullOwned, PDone, Done, FromMinor0, None, Had, Site, Upto, Since,
       Careful, Moves, Others, Strays
  <2>4. status["scull"] = "loading" => held["scullp_cdev"] = {}
    BY <1>0, <1>1, <2>2, ScullKinds DEF ScullInv, ScullPlace, ScullGone, ScullPGone, ScullAGone,
       ScullThere, PDone, Done, None, Had, Site
  <2> QED BY <2>2, ScullKinds, <2>3, <2>4 DEF Stays, Moves, Others, Strays
<1>2. CASE Line("scull") = 2
  <2>1. /\ Now("scull", c) = Put("scullp_kobj")
        /\ Target("scull", c, "next") = (IF i < NDevs THEN <<"p_del", i + 1, 1>> ELSE <<"p_free", 1, 1>>)
    BY <1>0, <1>2 DEF Now, Block, Loop, Again, Target, After
  <2>2. /\ held'["scullp_kobj"] = held["scullp_kobj"] \ {i}
        /\ Others({"scullp_kobj"}) /\ stray' = stray \cup Strays("scullp_kobj", i)
        /\ Moves("scull", (IF i < NDevs THEN <<"p_del", i + 1, 1>> ELSE <<"p_free", 1, 1>>))
    BY <2>1, PutOne, ScullKinds DEF Frees
  <2>3. ScullInv'
    BY <1>0, <1>2, <2>2, ScullKinds DEF ScullInv, ScullPlace, ScullRange, ScullGone, ScullPGone,
       ScullAGone, ScullThere, ScullOwned, PDone, Done, FromMinor0, None, Had, Site, Upto, Since,
       Careful, Moves, Others, Strays
  <2>4. Careful => stray' = stray
    BY <1>0, <1>2, <2>2, ScullKinds DEF ScullInv, ScullPlace, ScullOwned, PDone, Done, Had, Site,
       Upto, Since, Careful, Others, Strays
  <2> QED BY <2>2, ScullKinds, <2>3, <2>4 DEF Stays, Moves, Others, Strays
<1> QED BY <1>0, <1>1, <1>2

LEMMA ScullAtPFree ==
  ASSUME LoadTypeOK, ScullInv, NEW c, c = Block("p_free",
                    <<Put("scullp_devices"), Put("scullp_region"), Clear("scullp_devices")>>, "a_del"),
         In("scull", c), Runs("scull", c)
  PROVE  ScullInv' /\ Stays("scull")
<1> DEFINE i == I("scull")
<1>0. Label("scull") = "p_free" /\ i = 1 /\ Line("scull") \in 1..3
      /\ status["scull"] \in {"loading", "unloading"} /\ NDevs \in Nat \ {0}
  BY NDevsAssumption DEF In, Running, Block, Loop, Again, ScullInv, ScullPlace
<1>1. CASE Line("scull") = 1
  <2>1. /\ Now("scull", c) = Put("scullp_devices")
        /\ Target("scull", c, "next") = <<"p_free", i, 2>>
    BY <1>0, <1>1 DEF Now, Block, Loop, Again, Target, After
  <2>2. /\ held'["scullp_devices"] = held["scullp_devices"] \ {i} /\ held'["scullp_sem"] = {}
        /\ Others({"scullp_devices", "scullp_sem"}) /\ stray' = stray \cup Strays("scullp_devices", i)
        /\ Moves("scull", <<"p_free", i, 2>>)
    <3>1. TakesAll("scullp_devices", "scullp_sem")
      BY DEF TakesAll, InAll
    <3>2. /\ "scull" \in Modules /\ "scullp_devices" \in AllKinds /\ "scullp_sem" \in AllKinds
          /\ Lets("scull", c, "scullp_devices")
      BY <2>1, ScullKinds DEF Lets
    <3>3. /\ held'["scullp_devices"] = held["scullp_devices"] \ {i} /\ held'["scullp_sem"] = {}
          /\ Others({"scullp_devices", "scullp_sem"}) /\ Frees(Now("scull", c), "scullp_devices", i)
          /\ Moves("scull", Target("scull", c, "next"))
      BY <3>1, <3>2, PutWithAll
    <3> QED BY <2>1, <3>3 DEF Frees
  <2>3. ScullInv'
    BY <1>0, <1>1, <2>2, ScullKinds DEF ScullInv, ScullPlace, ScullRange, ScullGone, ScullPGone,
       ScullAGone, ScullThere, ScullOwned, PDone, Done, FromMinor0, None, Had, Site, Upto, Since,
       Careful, Moves, Others, Strays
  <2>4. Careful => stray' = stray
    BY <1>0, <1>1, <2>2, ScullKinds DEF ScullInv, ScullPlace, ScullOwned, PDone, Done, Had, Site,
       Upto, Since, Careful, Others, Strays
  <2> QED BY <2>2, ScullKinds, <2>3, <2>4 DEF Stays, Moves, Others, Strays
<1>2. CASE Line("scull") = 2
  <2>1. /\ Now("scull", c) = Put("scullp_region")
        /\ Target("scull", c, "next") = <<"p_free", i, 3>>
    BY <1>0, <1>2 DEF Now, Block, Loop, Again, Target, After
  <2>2. /\ held'["scullp_region"] = held["scullp_region"] \ {i}
        /\ Others({"scullp_region"}) /\ stray' = stray \cup Strays("scullp_region", i)
        /\ Moves("scull", <<"p_free", i, 3>>)
    BY <2>1, PutOne, ScullKinds DEF Frees
  <2>3. ScullInv'
    BY <1>0, <1>2, <2>2, ScullKinds DEF ScullInv, ScullPlace, ScullRange, ScullGone, ScullPGone,
       ScullAGone, ScullThere, ScullOwned, PDone, Done, FromMinor0, None, Had, Site, Upto, Since,
       Careful, Moves, Others, Strays
  <2>4. Careful => stray' = stray
    BY <1>0, <1>2, <2>2, ScullKinds DEF ScullInv, ScullPlace, ScullOwned, PDone, Done, Had, Site,
       Upto, Since, Careful, Others, Strays
  <2> QED BY <2>2, ScullKinds, <2>3, <2>4 DEF Stays, Moves, Others, Strays
<1>3. CASE Line("scull") = 3
  <2>1. /\ Now("scull", c) = Clear("scullp_devices")
        /\ Target("scull", c, "next") = <<"a_del", i, 1>>
    BY <1>0, <1>3 DEF Now, Block, Loop, Again, Target, After
  <2>2. /\ Nulls("scullp_devices", i)
        /\ Moves("scull", <<"a_del", i, 1>>)
    BY <2>1, ClearStep, ScullKinds
  <2>3. ScullInv'
    BY <1>0, <1>3, <2>2, ScullKinds DEF ScullInv, ScullPlace, ScullRange, ScullGone, ScullPGone,
       ScullAGone, ScullThere, ScullOwned, PDone, Done, FromMinor0, None, Had, Site, Upto, Since,
       Careful, Moves, Nulls, Leaves
  <2> QED BY <2>2, ScullKinds, <2>3 DEF Stays, Moves, Nulls, Leaves
<1> QED BY <1>0, <1>1, <1>2, <1>3

LEMMA ScullAtADel ==
  ASSUME LoadTypeOK, ScullInv, NEW c, c = Loop(SCULL_N_ADEVS, "a_del", <<Drop("sculla_cdev"), Put("sculla_kobj")>>, "a_free"),
         In("scull", c), Runs("scull", c)
  PROVE  ScullInv' /\ Stays("scull")
<1> DEFINE i == I("scull")
<1>0. Label("scull") = "a_del" /\ i \in 1..4 /\ Line("scull") \in 1..2
      /\ status["scull"] \in {"loading", "unloading"} /\ NDevs \in Nat \ {0}
  BY NDevsAssumption DEF In, Running, Block, Loop, Again, ScullInv, ScullPlace
<1>1. CASE Line("scull") = 1
  <2>1. /\ Now("scull", c) = Drop("sculla_cdev")
        /\ Target("scull", c, "next") = <<"a_del", i, 2>>
    BY <1>0, <1>1 DEF Now, Block, Loop, Again, Target, After, SCULL_N_ADEVS
  <2>2. /\ held'["sculla_cdev"] = held["sculla_cdev"] \ {i}
        /\ Others({"sculla_cdev"}) /\ stray' = stray
        /\ Moves("scull", <<"a_del", i, 2>>)
    BY <2>1, PutOne, ScullKinds DEF Frees
  <2>3. ScullInv'
    BY <1>0, <1>1, <2>2, ScullKinds DEF ScullInv, ScullPlace, ScullRange, ScullGone, ScullPGone,
       ScullAGone, ScullThere, ScullOwned, PDone, Done, FromMinor0, None, Had, Site, Upto, Since,
       Careful, Moves, Others, Strays
  <2>4. status["scull"] = "loading" => held["sculla_cdev"] = {}
    BY <1>0, <1>1, <2>2, ScullKinds DEF ScullInv, ScullPlace, ScullGone, ScullPGone, ScullAGone,
       ScullThere, PDone, Done, None, Had, Site
  <2> QED BY <2>2, ScullKinds, <2>3, <2>4 DEF Stays, Moves, Others, Strays
<1>2. CASE Line("scull") = 2
  <2>1. /\ Now("scull", c) = Put("sculla_kobj")
        /\ Target("scull", c, "next") = (IF i < 4 THEN <<"a_del", i + 1, 1>> ELSE <<"a_free", 1, 1>>)
    BY <1>0, <1>2 DEF Now, Block, Loop, Again, Target, After, SCULL_N_ADEVS
  <2>2. /\ held'["sculla_kobj"] = held["sculla_kobj"] \ {i}
        /\ Others({"sculla_kobj"}) /\ stray' = stray \cup Strays("sculla_kobj", i)
        /\ Moves("scull", (IF i < 4 THEN <<"a_del", i + 1, 1>> ELSE <<"a_free", 1, 1>>))
    BY <2>1, PutOne, ScullKinds DEF Frees
  <2>3. ScullInv'
    BY <1>0, <1>2, <2>2, ScullKinds DEF ScullInv, ScullPlace, ScullRange, ScullGone, ScullPGone,
       ScullAGone, ScullThere, ScullOwned, PDone, Done, FromMinor0, None, Had, Site, Upto, Since,
       Careful, Moves, Others, Strays
  <2>4. Careful => stray' = stray
    BY <1>0, <1>2, <2>2, ScullKinds DEF ScullInv, ScullPlace, ScullOwned, PDone, Done, Had, Site,
       Upto, Since, Careful, Others, Strays
  <2> QED BY <2>2, ScullKinds, <2>3, <2>4 DEF Stays, Moves, Others, Strays
<1> QED BY <1>0, <1>1, <1>2

LEMMA ScullAtAFree ==
  ASSUME LoadTypeOK, ScullInv, NEW c, c = Block("a_free", <<Put("sculla_region")>>, "out"),
         In("scull", c), Runs("scull", c)
  PROVE  ScullInv' /\ Stays("scull")
<1> DEFINE i == I("scull")
<1>0. Label("scull") = "a_free" /\ i = 1 /\ Line("scull") \in 1..1
      /\ status["scull"] \in {"loading", "unloading"} /\ NDevs \in Nat \ {0}
  BY NDevsAssumption DEF In, Running, Block, Loop, Again, ScullInv, ScullPlace
<1>1. CASE Line("scull") = 1
  <2>1. /\ Now("scull", c) = Put("sculla_region")
        /\ Target("scull", c, "next") = <<"out", i, 1>>
    BY <1>0, <1>1 DEF Now, Block, Loop, Again, Target, After
  <2>2. /\ held'["sculla_region"] = held["sculla_region"] \ {i}
        /\ Others({"sculla_region"}) /\ stray' = stray \cup Strays("sculla_region", i)
        /\ Moves("scull", <<"out", i, 1>>)
    BY <2>1, PutOne, ScullKinds DEF Frees
  <2>3. ScullInv'
    BY <1>0, <1>1, <2>2, ScullKinds DEF ScullInv, ScullPlace, ScullRange, ScullGone, ScullPGone,
       ScullAGone, ScullThere, ScullOwned, PDone, Done, FromMinor0, None, Had, Site, Upto, Since,
       Careful, Moves, Others, Strays
  <2>4. Careful => stray' = stray
    BY <1>0, <1>1, <2>2, ScullKinds DEF ScullInv, ScullPlace, ScullOwned, PDone, Done, Had, Site,
       Upto, Since, Careful, Others, Strays
  <2> QED BY <2>2, ScullKinds, <2>3, <2>4 DEF Stays, Moves, Others, Strays
<1> QED BY <1>0, <1>1

LEMMA ScullRuns ==
  ASSUME LoadTypeOK, ScullInv, NEW c \in Code("scull"), In("scull", c), Runs("scull", c)
  PROVE  ScullInv' /\ Stays("scull")
<1>1. \/ c = Block("init", <<GetOr("scull_region", "out"), GetOr("scull_devices", "exit")>>, "setup")
      \/ c = Loop(NDevs, "setup", ScullSetup, "p_init")
      \/ c = Block("p_init",
                    <<GetOr("scullp_region", "a_init"), GetOr("scullp_devices", "p_none")>>, "p_setup")
      \/ c = Block("p_none", <<Put("scullp_region")>>, "a_init")
      \/ c = Loop(NDevs, "p_setup", ScullPSetup, "a_init")
      \/ c = Block("a_init", <<GetOr("sculla_region", "live")>>, "a_setup")
      \/ c = Loop(SCULL_N_ADEVS, "a_setup",
                   <<Set("sculla_sem"), Set("sculla_kobj"), GetOr("sculla_cdev", "a_err")>>, "live")
      \/ c = Again("a_setup", SCULL_N_ADEVS, "a_err", <<Put("sculla_kobj")>>, "live")
      \/ c = Block("exit", <<IfNull("scull_devices", "region")>>, "del")
      \/ c = Loop(NDevs, "del", <<Drop("scull_cdev"), Put("scull_kobj")>>, "free")
      \/ c = Block("free", <<Put("scull_devices")>>, "region")
      \/ ~FromMinor0 /\ c = Block("region", <<Put("scull_region")>>, "p_cleanup")
      \/ FromMinor0 /\ c = Block("region", <<Misses("scull_region")>>, "p_cleanup")
      \/ c = Block("p_cleanup", <<IfNull("scullp_devices", "a_del")>>, "p_del")
      \/ c = Loop(NDevs, "p_del", <<Drop("scullp_cdev"), Put("scullp_kobj")>>, "p_free")
      \/ c = Block("p_free",
                    <<Put("scullp_devices"), Put("scullp_region"), Clear("scullp_devices")>>, "a_del")
      \/ c = Loop(SCULL_N_ADEVS, "a_del", <<Drop("sculla_cdev"), Put("sculla_kobj")>>, "a_free")
      \/ c = Block("a_free", <<Put("sculla_region")>>, "out")
  BY DEF Code, ScullInit, ScullPInit, ScullAccessInit, ScullAccessSetup, ScullCleanup,
         ScullPCleanup, ScullPDel, ScullAccessCleanup, SCULL_N_ADEVS, Unregister
<1> QED BY <1>1, ScullAtInit, ScullAtSetup, ScullAtPInit, ScullAtPNone, ScullAtPSetup, ScullAtAInit,
           ScullAtASetup, ScullAtAErr, ScullAtExit, ScullAtDel, ScullAtFree, ScullAtRegion,
           ScullAtRegionMissed, ScullAtPCleanup, ScullAtPDel, ScullAtPFree, ScullAtADel,
           ScullAtAFree

LEMMA ScullTurns ==
  ASSUME LoadTypeOK, ScullInv, Rests("scull") \/ Starts("scull") \/ Stops("scull") \/ Ends("scull")
  PROVE  ScullInv'
<1>1. NDevs \in Nat \ {0} /\ (~Running("scull") => Label("scull") = status["scull"])
  BY NDevsAssumption, ScullKinds DEF LoadTypeOK
<1>2. CASE Rests("scull")
  <2>1. ScullPlace' /\ ScullRange'
    BY <1>1, <1>2, ScullKinds DEF Rests, Label, I, Line, ScullInv, ScullPlace, ScullRange
  <2>2. ScullGone'
    BY <1>1, <1>2, ScullKinds DEF Rests, Label, I, Line, ScullInv, FromMinor0, ScullPlace,
       ScullRange, ScullGone, ScullThere, PDone, Done, None, Had, Site
  <2>3. ScullPGone'
    BY <1>1, <1>2, ScullKinds DEF Rests, Label, I, Line, ScullInv, ScullPlace, ScullRange,
       ScullPGone, ScullThere, PDone, Done, None, Had, Site
  <2>4. ScullAGone'
    BY <1>1, <1>2, ScullKinds DEF Rests, Label, I, Line, ScullInv, FromMinor0, ScullPlace,
       ScullRange, ScullGone, ScullPGone, ScullAGone, ScullThere, PDone, Done, None, Had, Site
  <2>5. ScullThere'
    BY <1>1, <1>2, ScullKinds DEF Rests, Label, I, Line, ScullInv, FromMinor0, ScullPlace,
       ScullRange, ScullGone, ScullPGone, ScullAGone, ScullThere, PDone, Done, None, Had, Site
  <2>6. Careful => ScullOwned'
    BY <1>1, <1>2, ScullKinds DEF Rests, Label, I, Line, ScullInv, FromMinor0, ScullPlace,
       ScullRange, ScullGone, ScullPGone, ScullAGone, ScullThere, ScullOwned, PDone, Done, None,
       Had, Site, Upto, Since, Careful
  <2> QED BY <2>1, <2>2, <2>3, <2>4, <2>5, <2>6 DEF ScullInv
<1>3. CASE Starts("scull")
  <2>1. ScullPlace' /\ ScullRange'
    BY <1>1, <1>3, ScullKinds DEF Starts, Running, Label, I, Line, ScullInv, ScullPlace, ScullRange
  <2>2. ScullGone'
    BY <1>1, <1>3, ScullKinds DEF Starts, Running, Label, I, Line, ScullInv, FromMinor0, ScullPlace,
       ScullRange, ScullGone, ScullThere, PDone, Done, None, Had, Site
  <2>3. ScullPGone'
    BY <1>1, <1>3, ScullKinds DEF Starts, Running, Label, I, Line, ScullInv, ScullPlace, ScullRange,
       ScullPGone, ScullThere, PDone, Done, None, Had, Site
  <2>4. ScullAGone'
    BY <1>1, <1>3, ScullKinds DEF Starts, Running, Label, I, Line, ScullInv, FromMinor0, ScullPlace,
       ScullRange, ScullGone, ScullPGone, ScullAGone, ScullThere, PDone, Done, None, Had, Site
  <2>5. ScullThere'
    BY <1>1, <1>3, ScullKinds DEF Starts, Running, Label, I, Line, ScullInv, FromMinor0, ScullPlace,
       ScullRange, ScullGone, ScullPGone, ScullAGone, ScullThere, PDone, Done, None, Had, Site
  <2>6. Careful => ScullOwned'
    BY <1>1, <1>3, ScullKinds DEF Starts, Running, Label, I, Line, ScullInv, FromMinor0, ScullPlace,
       ScullRange, ScullGone, ScullPGone, ScullAGone, ScullThere, ScullOwned, PDone, Done, None,
       Had, Site, Upto, Since, Careful
  <2> QED BY <2>1, <2>2, <2>3, <2>4, <2>5, <2>6 DEF ScullInv
<1>4. CASE Stops("scull")
  <2>1. ScullPlace' /\ ScullRange'
    BY <1>1, <1>4, ScullKinds DEF Stops, Running, Label, I, Line, ScullInv, ScullPlace, ScullRange
  <2>2. ScullGone'
    BY <1>1, <1>4, ScullKinds DEF Stops, Running, Label, I, Line, ScullInv, FromMinor0, ScullPlace,
       ScullRange, ScullGone, ScullThere, PDone, Done, None, Had, Site
  <2>3. ScullPGone'
    BY <1>1, <1>4, ScullKinds DEF Stops, Running, Label, I, Line, ScullInv, ScullPlace, ScullRange,
       ScullPGone, ScullThere, PDone, Done, None, Had, Site
  <2>4. ScullAGone'
    BY <1>1, <1>4, ScullKinds DEF Stops, Running, Label, I, Line, ScullInv, FromMinor0, ScullPlace,
       ScullRange, ScullGone, ScullPGone, ScullAGone, ScullThere, PDone, Done, None, Had, Site
  <2>5. ScullThere'
    BY <1>1, <1>4, ScullKinds DEF Stops, Running, Label, I, Line, ScullInv, FromMinor0, ScullPlace,
       ScullRange, ScullGone, ScullPGone, ScullAGone, ScullThere, PDone, Done, None, Had, Site
  <2>6. Careful => ScullOwned'
    BY <1>1, <1>4, ScullKinds DEF Stops, Running, Label, I, Line, ScullInv, FromMinor0, ScullPlace,
       ScullRange, ScullGone, ScullPGone, ScullAGone, ScullThere, ScullOwned, PDone, Done, None,
       Had, Site, Upto, Since, Careful
  <2> QED BY <2>1, <2>2, <2>3, <2>4, <2>5, <2>6 DEF ScullInv
<1>5. CASE Ends("scull")
  <2>1. ScullPlace' /\ ScullRange'
    BY <1>1, <1>5, ScullKinds DEF Ends, Running, Label, I, Line, ScullInv, ScullPlace, ScullRange
  <2>2. ScullGone'
    BY <1>1, <1>5, ScullKinds DEF Ends, Running, Label, I, Line, ScullInv, FromMinor0, ScullPlace,
       ScullRange, ScullGone, ScullThere, PDone, Done, None, Had, Site
  <2>3. ScullPGone'
    BY <1>1, <1>5, ScullKinds DEF Ends, Running, Label, I, Line, ScullInv, ScullPlace, ScullRange,
       ScullPGone, ScullThere, PDone, Done, None, Had, Site
  <2>4. ScullAGone'
    BY <1>1, <1>5, ScullKinds DEF Ends, Running, Label, I, Line, ScullInv, FromMinor0, ScullPlace,
       ScullRange, ScullGone, ScullPGone, ScullAGone, ScullThere, PDone, Done, None, Had, Site
  <2>5. ScullThere'
    BY <1>1, <1>5, ScullKinds DEF Ends, Running, Label, I, Line, ScullInv, FromMinor0, ScullPlace,
       ScullRange, ScullGone, ScullPGone, ScullAGone, ScullThere, PDone, Done, None, Had, Site
  <2>6. Careful => ScullOwned'
    BY <1>1, <1>5, ScullKinds DEF Ends, Running, Label, I, Line, ScullInv, FromMinor0, ScullPlace,
       ScullRange, ScullGone, ScullPGone, ScullAGone, ScullThere, ScullOwned, PDone, Done, None,
       Had, Site, Upto, Since, Careful
  <2> QED BY <2>1, <2>2, <2>3, <2>4, <2>5, <2>6 DEF ScullInv
<1> QED BY <1>2, <1>3, <1>4, <1>5
-----------------------------------------------------------------------------
(* lddbus *)

LEMMA LddKinds ==
  /\ Kinds("lddbus") = {"ldd_bus_type", "ldd_bus_version", "ldd_bus"}
  /\ Kinds("lddbus") \subseteq AllKinds /\ "lddbus" \in Modules
  /\ Nodes("lddbus") = {}
BY DEF Kinds, AllKinds, Modules, Nodes

LEMMA LddAtInit ==
  ASSUME LoadTypeOK, LddInv, NEW c, c = Block("init", <<GetOr("ldd_bus_type", "out"), Get("ldd_bus_version"), GetOr("ldd_bus", "out")>>,
                   "live"),
         In("lddbus", c), Runs("lddbus", c)
  PROVE  LddInv' /\ Stays("lddbus")
<1> DEFINE i == I("lddbus")
<1>0. Label("lddbus") = "init" /\ i = 1 /\ Line("lddbus") \in 1..3
      /\ status["lddbus"] \in {"loading", "unloading"} /\ NDevs \in Nat \ {0}
  BY NDevsAssumption DEF In, Running, Block, Loop, Again, LddInv, LddPlace
<1>1. CASE Line("lddbus") = 1
  <2>1. /\ Now("lddbus", c) = GetOr("ldd_bus_type", "out")
        /\ Target("lddbus", c, "next") = <<"init", i, 2>>
        /\ Target("lddbus", c, "out") = <<"out", i, 1>>
    BY <1>0, <1>1 DEF Now, Block, Loop, Again, Target, After
  <2>2. \/ Gets("ldd_bus_type", i) /\ Moves("lddbus", <<"init", i, 2>>)
        \/ "ldd_bus_type" \in MayFail /\ Same /\ Moves("lddbus", <<"out", i, 1>>)
    BY <2>1, GetOrStep, LddKinds
  <2>3. CASE Gets("ldd_bus_type", i) /\ Moves("lddbus", <<"init", i, 2>>)
    <3>1. LddInv'
      BY <1>0, <1>1, <2>3, LddKinds DEF LddInv, LddPlace, LddThere, LddGone, LeavesNot, None, Had,
         Site, Upto, Since, Careful, Moves, Gets, Leaves
    <3> QED BY <2>3, LddKinds, <3>1 DEF Stays, Moves, Gets, Leaves
  <2>4. CASE "ldd_bus_type" \in MayFail /\ Same /\ Moves("lddbus", <<"out", i, 1>>)
    <3>1. LddInv'
      BY <1>0, <1>1, <2>4, LddKinds DEF LddInv, LddPlace, LddThere, LddGone, LeavesNot, None, Had,
         Site, Upto, Since, Careful, Moves, Same
    <3> QED BY <2>4, LddKinds, <3>1 DEF Stays, Moves, Same
  <2> QED BY <2>2, <2>3, <2>4
<1>2. CASE Line("lddbus") = 2
  <2>1. /\ Now("lddbus", c) = Get("ldd_bus_version")
        /\ Target("lddbus", c, "next") = <<"init", i, 3>>
    BY <1>0, <1>2 DEF Now, Block, Loop, Again, Target, After
  <2>2. /\ Gets("ldd_bus_version", i) \/ ("ldd_bus_version" \in MayFail /\ Same)
        /\ Moves("lddbus", <<"init", i, 3>>)
    BY <2>1, GetStep, LddKinds
  <2>3. LddInv'
    BY <1>0, <1>2, <2>2, LddKinds DEF LddInv, LddPlace, LddThere, LddGone, LeavesNot, None, Had,
       Site, Upto, Since, Careful, Moves, Gets, Leaves, Same
  <2> QED BY <2>2, LddKinds, <2>3 DEF Stays, Moves, Gets, Leaves, Same
<1>3. CASE Line("lddbus") = 3
  <2>1. /\ Now("lddbus", c) = GetOr("ldd_bus", "out")
        /\ Target("lddbus", c, "next") = <<"live", i, 1>>
        /\ Target("lddbus", c, "out") = <<"out", i, 1>>
    BY <1>0, <1>3 DEF Now, Block, Loop, Again, Target, After
  <2>2. \/ Gets("ldd_bus", i) /\ Moves("lddbus", <<"live", i, 1>>)
        \/ "ldd_bus" \in MayFail /\ Same /\ Moves("lddbus", <<"out", i, 1>>)
    BY <2>1, GetOrStep, LddKinds
  <2>3. CASE Gets("ldd_bus", i) /\ Moves("lddbus", <<"live", i, 1>>)
    <3>1. LddInv'
      BY <1>0, <1>3, <2>3, LddKinds DEF LddInv, LddPlace, LddThere, LddGone, LeavesNot, None, Had,
         Site, Upto, Since, Careful, Moves, Gets, Leaves
    <3> QED BY <2>3, LddKinds, <3>1 DEF Stays, Moves, Gets, Leaves
  <2>4. CASE "ldd_bus" \in MayFail /\ Same /\ Moves("lddbus", <<"out", i, 1>>)
    <3>1. LddInv'
      BY <1>0, <1>3, <2>4, LddKinds DEF LddInv, LddPlace, LddThere, LddGone, LeavesNot, None, Had,
         Site, Upto, Since, Careful, Moves, Same
    <3> QED BY <2>4, LddKinds, <3>1 DEF Stays, Moves, Same
  <2> QED BY <2>2, <2>3, <2>4
<1> QED BY <1>0, <1>1, <1>2, <1>3

LEMMA LddAtExit ==
  ASSUME LoadTypeOK, LddInv, NEW c, c = Block("exit", <<Put("ldd_bus"), Put("ldd_bus_type")>>, "out"),
         In("lddbus", c), Runs("lddbus", c)
  PROVE  LddInv' /\ Stays("lddbus")
<1> DEFINE i == I("lddbus")
<1>0. Label("lddbus") = "exit" /\ i = 1 /\ Line("lddbus") \in 1..2
      /\ status["lddbus"] \in {"loading", "unloading"} /\ NDevs \in Nat \ {0}
  BY NDevsAssumption DEF In, Running, Block, Loop, Again, LddInv, LddPlace
<1>1. CASE Line("lddbus") = 1
  <2>1. /\ Now("lddbus", c) = Put("ldd_bus")
        /\ Target("lddbus", c, "next") = <<"exit", i, 2>>
    BY <1>0, <1>1 DEF Now, Block, Loop, Again, Target, After
  <2>2. /\ held'["ldd_bus"] = held["ldd_bus"] \ {i}
        /\ Others({"ldd_bus"}) /\ stray' = stray \cup Strays("ldd_bus", i)
        /\ Moves("lddbus", <<"exit", i, 2>>)
    BY <2>1, PutOne, LddKinds DEF Frees
  <2>3. LddInv'
    BY <1>0, <1>1, <2>2, LddKinds DEF LddInv, LddPlace, LddThere, LddGone, LeavesNot, None, Had,
       Site, Upto, Since, Careful, Moves, Others, Strays
  <2>4. Careful => stray' = stray
    BY <1>0, <1>1, <2>2, LddKinds DEF LddInv, LddPlace, LddThere, LddGone, LeavesNot, None, Had,
       Site, Upto, Since, Careful, Others, Strays
  <2> QED BY <2>2, LddKinds, <2>3, <2>4 DEF Stays, Moves, Others, Strays
<1>2. CASE Line("lddbus") = 2
  <2>1. /\ Now("lddbus", c) = Put("ldd_bus_type")
        /\ Target("lddbus", c, "next") = <<"out", i, 1>>
    BY <1>0, <1>2 DEF Now, Block, Loop, Again, Target, After
  <2>2. /\ held'["ldd_bus_type"] = held["ldd_bus_type"] \ {i} /\ held'["ldd_bus_version"] = {}
        /\ Others({"ldd_bus_type", "ldd_bus_version"}) /\ stray' = stray \cup Strays("ldd_bus_type", i)
        /\ Moves("lddbus", <<"out", i, 1>>)
    <3>1. TakesAll("ldd_bus_type", "ldd_bus_version")
      BY DEF TakesAll, InAll
    <3>2. /\ "lddbus" \in Modules /\ "ldd_bus_type" \in AllKinds /\ "ldd_bus_version" \in AllKinds
          /\ Lets("lddbus", c, "ldd_bus_type")
      BY <2>1, LddKinds DEF Lets
    <3>3. /\ held'["ldd_bus_type"] = held["ldd_bus_type"] \ {i} /\ held'["ldd_bus_version"] = {}
          /\ Others({"ldd_bus_type", "ldd_bus_version"}) /\ Frees(Now("lddbus", c), "ldd_bus_type", i)
          /\ Moves("lddbus", Target("lddbus", c, "next"))
      BY <3>1, <3>2, PutWithAll
    <3> QED BY <2>1, <3>3 DEF Frees
  <2>3. LddInv'
    BY <1>0, <1>2, <2>2, LddKinds DEF LddInv, LddPlace, LddThere, LddGone, LeavesNot, None, Had,
       Site, Upto, Since, Careful, Moves, Others, Strays
  <2>4. Careful => stray' = stray
    BY <1>0, <1>2, <2>2, LddKinds DEF LddInv, LddPlace, LddThere, LddGone, LeavesNot, None, Had,
       Site, Upto, Since, Careful, Others, Strays
  <2> QED BY <2>2, LddKinds, <2>3, <2>4 DEF Stays, Moves, Others, Strays
<1> QED BY <1>0, <1>1, <1>2

LEMMA LddRuns ==
  ASSUME LoadTypeOK, LddInv, NEW c \in Code("lddbus"), In("lddbus", c), Runs("lddbus", c)
  PROVE  LddInv' /\ Stays("lddbus")
<1>1. \/ c = Block("init", <<GetOr("ldd_bus_type", "out"), Get("ldd_bus_version"), GetOr("ldd_bus", "out")>>,
                   "live")
      \/ c = Block("exit", <<Put("ldd_bus"), Put("ldd_bus_type")>>, "out")
  BY DEF Code, LddBusInit, LddBusExit
<1> QED BY <1>1, LddAtInit, LddAtExit

LEMMA LddTurns ==
  ASSUME LoadTypeOK, LddInv, Rests("lddbus") \/ Starts("lddbus") \/ Stops("lddbus") \/ Ends("lddbus")
  PROVE  LddInv'
<1>1. NDevs \in Nat \ {0} /\ (~Running("lddbus") => Label("lddbus") = status["lddbus"])
  BY NDevsAssumption, LddKinds DEF LoadTypeOK
<1>2. CASE Rests("lddbus")
  BY <1>1, <1>2, LddKinds DEF Rests, Label, I, Line, LddInv, LddPlace, LddThere, LddGone, LeavesNot,
     None, Had, Site, Upto, Since, Careful
<1>3. CASE Starts("lddbus")
  BY <1>1, <1>3, LddKinds DEF Starts, Running, Label, I, Line, LddInv, LddPlace, LddThere, LddGone,
     LeavesNot, None, Had, Site, Upto, Since, Careful
<1>4. CASE Stops("lddbus")
  BY <1>1, <1>4, LddKinds DEF Stops, Running, Label, I, Line, LddInv, LddPlace, LddThere, LddGone,
     LeavesNot, None, Had, Site, Upto, Since, Careful
<1>5. CASE Ends("lddbus")
  BY <1>1, <1>5, LddKinds DEF Ends, Running, Label, I, Line, LddInv, LddPlace, LddThere, LddGone,
     LeavesNot, None, Had, Site, Upto, Since, Careful
<1> QED BY <1>2, <1>3, <1>4, <1>5
-----------------------------------------------------------------------------
(* sculld *)

LEMMA SculldKinds ==
  /\ Kinds("sculld") = {"sculld_region", "sculld_driver", "sculld_driver_attr", "sculld_devices",
                        "sculld_sem", "sculld_kobj", "sculld_cdev", "sculld_ldev",
                        "sculld_dev_attr"}
  /\ Kinds("sculld") \subseteq AllKinds /\ "sculld" \in Modules
  /\ Nodes("sculld") = {"sculld_cdev"}
BY DEF Kinds, AllKinds, Modules, Nodes

LEMMA SculldAtInit ==
  ASSUME LoadTypeOK, SculldInv, NEW c, c = Block("init", <<GetOr("sculld_region", "out")>>, "register"),
         In("sculld", c), Runs("sculld", c)
  PROVE  SculldInv' /\ Stays("sculld")
<1> DEFINE i == I("sculld")
<1>0. Label("sculld") = "init" /\ i = 1 /\ Line("sculld") \in 1..1
      /\ status["sculld"] \in {"loading", "unloading"} /\ NDevs \in Nat \ {0}
  BY NDevsAssumption DEF In, Running, Block, Loop, Again, SculldInv, SculldPlace
<1>1. CASE Line("sculld") = 1
  <2>1. /\ Now("sculld", c) = GetOr("sculld_region", "out")
        /\ Target("sculld", c, "next") = <<"register", i, 1>>
        /\ Target("sculld", c, "out") = <<"out", i, 1>>
    BY <1>0, <1>1 DEF Now, Block, Loop, Again, Target, After
  <2>2. \/ Gets("sculld_region", i) /\ Moves("sculld", <<"register", i, 1>>)
        \/ "sculld_region" \in MayFail /\ Same /\ Moves("sculld", <<"out", i, 1>>)
    BY <2>1, GetOrStep, SculldKinds
  <2>3. CASE Gets("sculld_region", i) /\ Moves("sculld", <<"register", i, 1>>)
    <3>1. SculldInv'
      BY <1>0, <1>1, <2>3, SculldKinds DEF SculldInv, SculldPlace, SculldGone, SculldThere,
         SculldOwned, LeavesNot, DriverHad, None, Had, Site, Upto, Since, Careful, Moves, Gets,
         Leaves
    <3> QED BY <2>3, SculldKinds, <3>1 DEF Stays, Moves, Gets, Leaves
  <2>4. CASE "sculld_region" \in MayFail /\ Same /\ Moves("sculld", <<"out", i, 1>>)
    <3>1. SculldInv'
      BY <1>0, <1>1, <2>4, SculldKinds DEF SculldInv, SculldPlace, SculldGone, SculldThere,
         SculldOwned, LeavesNot, DriverHad, None, Had, Site, Upto, Since, Careful, Moves, Same
    <3> QED BY <2>4, SculldKinds, <3>1 DEF Stays, Moves, Same
  <2> QED BY <2>2, <2>3, <2>4
<1> QED BY <1>0, <1>1

LEMMA SculldAtRegister ==
  ASSUME LoadTypeOK, SculldInv, NEW c, c = Block("register", <<GetOr("sculld_driver", "malloc"), Get("sculld_driver_attr")>>, "malloc"),
         In("sculld", c), Runs("sculld", c)
  PROVE  SculldInv' /\ Stays("sculld")
<1> DEFINE i == I("sculld")
<1>0. Label("sculld") = "register" /\ i = 1 /\ Line("sculld") \in 1..2
      /\ status["sculld"] \in {"loading", "unloading"} /\ NDevs \in Nat \ {0}
  BY NDevsAssumption DEF In, Running, Block, Loop, Again, SculldInv, SculldPlace
<1>1. CASE Line("sculld") = 1
  <2>1. /\ Now("sculld", c) = GetOr("sculld_driver", "malloc")
        /\ Target("sculld", c, "next") = <<"register", i, 2>>
        /\ Target("sculld", c, "malloc") = <<"malloc", i, 1>>
    BY <1>0, <1>1 DEF Now, Block, Loop, Again, Target, After
  <2>2. \/ Gets("sculld_driver", i) /\ Moves("sculld", <<"register", i, 2>>)
        \/ "sculld_driver" \in MayFail /\ Same /\ Moves("sculld", <<"malloc", i, 1>>)
    BY <2>1, GetOrStep, SculldKinds
  <2>3. CASE Gets("sculld_driver", i) /\ Moves("sculld", <<"register", i, 2>>)
    <3>1. SculldInv'
      BY <1>0, <1>1, <2>3, SculldKinds DEF SculldInv, SculldPlace, SculldGone, SculldThere,
         SculldOwned, LeavesNot, DriverHad, None, Had, Site, Upto, Since, Careful, Moves, Gets,
         Leaves
    <3> QED BY <2>3, SculldKinds, <3>1 DEF Stays, Moves, Gets, Leaves
  <2>4. CASE "sculld_driver" \in MayFail /\ Same /\ Moves("sculld", <<"malloc", i, 1>>)
    <3>1. SculldInv'
      BY <1>0, <1>1, <2>4, SculldKinds DEF SculldInv, SculldPlace, SculldGone, SculldThere,
         SculldOwned, LeavesNot, DriverHad, None, Had, Site, Upto, Since, Careful, Moves, Same
    <3> QED BY <2>4, SculldKinds, <3>1 DEF Stays, Moves, Same
  <2> QED BY <2>2, <2>3, <2>4
<1>2. CASE Line("sculld") = 2
  <2>1. /\ Now("sculld", c) = Get("sculld_driver_attr")
        /\ Target("sculld", c, "next") = <<"malloc", i, 1>>
    BY <1>0, <1>2 DEF Now, Block, Loop, Again, Target, After
  <2>2. /\ Gets("sculld_driver_attr", i) \/ ("sculld_driver_attr" \in MayFail /\ Same)
        /\ Moves("sculld", <<"malloc", i, 1>>)
    BY <2>1, GetStep, SculldKinds
  <2>3. SculldInv'
    BY <1>0, <1>2, <2>2, SculldKinds DEF SculldInv, SculldPlace, SculldGone, SculldThere,
       SculldOwned, LeavesNot, DriverHad, None, Had, Site, Upto, Since, Careful, Moves, Gets,
       Leaves, Same
  <2> QED BY <2>2, SculldKinds, <2>3 DEF Stays, Moves, Gets, Leaves, Same
<1> QED BY <1>0, <1>1, <1>2

LEMMA SculldAtMalloc ==
  ASSUME LoadTypeOK, SculldInv, NEW c, c = Block("malloc", <<GetOr("sculld_devices", "fail_malloc")>>, "setup"),
         In("sculld", c), Runs("sculld", c)
  PROVE  SculldInv' /\ Stays("sculld")
<1> DEFINE i == I("sculld")
<1>0. Label("sculld") = "malloc" /\ i = 1 /\ Line("sculld") \in 1..1
      /\ status["sculld"] \in {"loading", "unloading"} /\ NDevs \in Nat \ {0}
  BY NDevsAssumption DEF In, Running, Block, Loop, Again, SculldInv, SculldPlace
<1>1. CASE Line("sculld") = 1
  <2>1. /\ Now("sculld", c) = GetOr("sculld_devices", "fail_malloc")
        /\ Target("sculld", c, "next") = <<"setup", i, 1>>
        /\ Target("sculld", c, "fail_malloc") = <<"fail_malloc", i, 1>>
    BY <1>0, <1>1 DEF Now, Block, Loop, Again, Target, After
  <2>2. \/ Gets("sculld_devices", i) /\ Moves("sculld", <<"setup", i, 1>>)
        \/ "sculld_devices" \in MayFail /\ Same /\ Moves("sculld", <<"fail_malloc", i, 1>>)
    BY <2>1, GetOrStep, SculldKinds
  <2>3. CASE Gets("sculld_devices", i) /\ Moves("sculld", <<"setup", i, 1>>)
    <3>1. SculldInv'
      BY <1>0, <1>1, <2>3, SculldKinds DEF SculldInv, SculldPlace, SculldGone, SculldThere,
         SculldOwned, LeavesNot, DriverHad, None, Had, Site, Upto, Since, Careful, Moves, Gets,
         Leaves
    <3> QED BY <2>3, SculldKinds, <3>1 DEF Stays, Moves, Gets, Leaves
  <2>4. CASE "sculld_devices" \in MayFail /\ Same /\ Moves("sculld", <<"fail_malloc", i, 1>>)
    <3>1. SculldInv'
      BY <1>0, <1>1, <2>4, SculldKinds DEF SculldInv, SculldPlace, SculldGone, SculldThere,
         SculldOwned, LeavesNot, DriverHad, None, Had, Site, Upto, Since, Careful, Moves, Same
    <3> QED BY <2>4, SculldKinds, <3>1 DEF Stays, Moves, Same
  <2> QED BY <2>2, <2>3, <2>4
<1> QED BY <1>0, <1>1

LEMMA SculldAtSetup ==
  ASSUME LoadTypeOK, SculldInv, NEW c, c = Loop(NDevs, "setup", SculldSetup, "live"),
         In("sculld", c), Runs("sculld", c)
  PROVE  SculldInv' /\ Stays("sculld")
<1> DEFINE i == I("sculld")
<1>0. Label("sculld") = "setup" /\ i \in 1..NDevs /\ Line("sculld") \in 1..5
      /\ status["sculld"] \in {"loading", "unloading"} /\ NDevs \in Nat \ {0}
  BY NDevsAssumption DEF In, Running, Block, Loop, Again, SculldInv, SculldPlace
<1>1. CASE Line("sculld") = 1
  <2>1. /\ Now("sculld", c) = Set("sculld_sem")
        /\ Target("sculld", c, "next") = <<"setup", i, 2>>
    BY <1>0, <1>1 DEF Now, Block, Loop, Again, Target, After, SculldSetup, RegisterLddDevice
  <2>2. /\ Gets("sculld_sem", i)
        /\ Moves("sculld", <<"setup", i, 2>>)
    BY <2>1, SetStep, SculldKinds
  <2>3. SculldInv'
    BY <1>0, <1>1, <2>2, SculldKinds DEF SculldInv, SculldPlace, SculldGone, SculldThere,
       SculldOwned, LeavesNot, DriverHad, None, Had, Site, Upto, Since, Careful, Moves, Gets, Leaves
  <2> QED BY <2>2, SculldKinds, <2>3 DEF Stays, Moves, Gets, Leaves
<1>2. CASE Line("sculld") = 2
  <2>1. /\ Now("sculld", c) = Set("sculld_kobj")
        /\ Target("sculld", c, "next") = <<"setup", i, 3>>
    BY <1>0, <1>2 DEF Now, Block, Loop, Again, Target, After, SculldSetup, RegisterLddDevice
  <2>2. /\ Gets("sculld_kobj", i)
        /\ Moves("sculld", <<"setup", i, 3>>)
    BY <2>1, SetStep, SculldKinds
  <2>3. SculldInv'
    BY <1>0, <1>2, <2>2, SculldKinds DEF SculldInv, SculldPlace, SculldGone, SculldThere,
       SculldOwned, LeavesNot, DriverHad, None, Had, Site, Upto, Since, Careful, Moves, Gets, Leaves
  <2> QED BY <2>2, SculldKinds, <2>3 DEF Stays, Moves, Gets, Leaves
<1>3. CASE Line("sculld") = 3
  <2>1. /\ Now("sculld", c) = Get("sculld_cdev")
        /\ Target("sculld", c, "next") = <<"setup", i, 4>>
    BY <1>0, <1>3 DEF Now, Block, Loop, Again, Target, After, SculldSetup, RegisterLddDevice
  <2>2. /\ Gets("sculld_cdev", i) \/ ("sculld_cdev" \in MayFail /\ Same)
        /\ Moves("sculld", <<"setup", i, 4>>)
    BY <2>1, GetStep, SculldKinds
  <2>3. SculldInv'
    BY <1>0, <1>3, <2>2, SculldKinds DEF SculldInv, SculldPlace, SculldGone, SculldThere,
       SculldOwned, LeavesNot, DriverHad, None, Had, Site, Upto, Since, Careful, Moves, Gets,
       Leaves, Same
  <2> QED BY <2>2, SculldKinds, <2>3 DEF Stays, Moves, Gets, Leaves, Same
<1>4. CASE Line("sculld") = 4
  <2>1. /\ Now("sculld", c) = Get("sculld_ldev")
        /\ Target("sculld", c, "next") = <<"setup", i, 5>>
    BY <1>0, <1>4 DEF Now, Block, Loop, Again, Target, After, SculldSetup, RegisterLddDevice
  <2>2. /\ Gets("sculld_ldev", i) \/ ("sculld_ldev" \in MayFail /\ Same)
        /\ Moves("sculld", <<"setup", i, 5>>)
    BY <2>1, GetStep, SculldKinds
  <2>3. SculldInv'
    BY <1>0, <1>4, <2>2, SculldKinds DEF SculldInv, SculldPlace, SculldGone, SculldThere,
       SculldOwned, LeavesNot, DriverHad, None, Had, Site, Upto, Since, Careful, Moves, Gets,
       Leaves, Same
  <2> QED BY <2>2, SculldKinds, <2>3 DEF Stays, Moves, Gets, Leaves, Same
<1>5. CASE Line("sculld") = 5
  <2>1. /\ Now("sculld", c) = Get("sculld_dev_attr")
        /\ Target("sculld", c, "next") = (IF i < NDevs THEN <<"setup", i + 1, 1>> ELSE <<"live", 1, 1>>)
    BY <1>0, <1>5 DEF Now, Block, Loop, Again, Target, After, SculldSetup, RegisterLddDevice
  <2>2. /\ Gets("sculld_dev_attr", i) \/ ("sculld_dev_attr" \in MayFail /\ Same)
        /\ Moves("sculld", (IF i < NDevs THEN <<"setup", i + 1, 1>> ELSE <<"live", 1, 1>>))
    BY <2>1, GetStep, SculldKinds
  <2>3. SculldInv'
    BY <1>0, <1>5, <2>2, SculldKinds DEF SculldInv, SculldPlace, SculldGone, SculldThere,
       SculldOwned, LeavesNot, DriverHad, None, Had, Site, Upto, Since, Careful, Moves, Gets,
       Leaves, Same
  <2> QED BY <2>2, SculldKinds, <2>3 DEF Stays, Moves, Gets, Leaves, Same
<1> QED BY <1>0, <1>1, <1>2, <1>3, <1>4, <1>5

LEMMA SculldAtFailMalloc ==
  ASSUME LoadTypeOK, SculldInv, NEW c, c = Block("fail_malloc", <<Put("sculld_region")>>, "out"),
         In("sculld", c), Runs("sculld", c)
  PROVE  SculldInv' /\ Stays("sculld")
<1> DEFINE i == I("sculld")
<1>0. Label("sculld") = "fail_malloc" /\ i = 1 /\ Line("sculld") \in 1..1
      /\ status["sculld"] \in {"loading", "unloading"} /\ NDevs \in Nat \ {0}
  BY NDevsAssumption DEF In, Running, Block, Loop, Again, SculldInv, SculldPlace
<1>1. CASE Line("sculld") = 1
  <2>1. /\ Now("sculld", c) = Put("sculld_region")
        /\ Target("sculld", c, "next") = <<"out", i, 1>>
    BY <1>0, <1>1 DEF Now, Block, Loop, Again, Target, After
  <2>2. /\ held'["sculld_region"] = held["sculld_region"] \ {i}
        /\ Others({"sculld_region"}) /\ stray' = stray \cup Strays("sculld_region", i)
        /\ Moves("sculld", <<"out", i, 1>>)
    BY <2>1, PutOne, SculldKinds DEF Frees
  <2>3. SculldInv'
    BY <1>0, <1>1, <2>2, SculldKinds DEF SculldInv, SculldPlace, SculldGone, SculldThere,
       SculldOwned, LeavesNot, DriverHad, None, Had, Site, Upto, Since, Careful, Moves, Others,
       Strays
  <2>4. Careful => stray' = stray
    BY <1>0, <1>1, <2>2, SculldKinds DEF SculldInv, SculldPlace, SculldThere, DriverHad, LeavesNot,
       None, Had, Site, Upto, Since, Careful, Others, Strays
  <2> QED BY <2>2, SculldKinds, <2>3, <2>4 DEF Stays, Moves, Others, Strays
<1> QED BY <1>0, <1>1

LEMMA SculldAtExit ==
  ASSUME LoadTypeOK, SculldInv, NEW c, c = Loop(NDevs, "exit",
                   <<UnregisterLddDevice, Drop("sculld_cdev"), Put("sculld_kobj")>>, "free"),
         In("sculld", c), Runs("sculld", c)
  PROVE  SculldInv' /\ Stays("sculld")
<1> DEFINE i == I("sculld")
<1>0. Label("sculld") = "exit" /\ i \in 1..NDevs /\ Line("sculld") \in 1..3
      /\ status["sculld"] \in {"loading", "unloading"} /\ NDevs \in Nat \ {0}
  BY NDevsAssumption DEF In, Running, Block, Loop, Again, SculldInv, SculldPlace
<1>1. CASE Line("sculld") = 1
  <2>1. /\ Now("sculld", c) = Put("sculld_ldev")
        /\ Target("sculld", c, "next") = <<"exit", i, 2>>
    BY <1>0, <1>1 DEF Now, Block, Loop, Again, Target, After, UnregisterLddDevice
  <2>2. /\ held'["sculld_ldev"] = held["sculld_ldev"] \ {i} /\ held'["sculld_dev_attr"] = held["sculld_dev_attr"] \ {i}
        /\ Others({"sculld_ldev", "sculld_dev_attr"}) /\ stray' = stray \cup Strays("sculld_ldev", i)
        /\ Moves("sculld", <<"exit", i, 2>>)
    <3>1. TakesOne("sculld_ldev", "sculld_dev_attr")
      BY DEF TakesOne, InOne
    <3>2. /\ "sculld" \in Modules /\ "sculld_ldev" \in AllKinds /\ "sculld_dev_attr" \in AllKinds
          /\ Lets("sculld", c, "sculld_ldev")
      BY <2>1, SculldKinds DEF Lets
    <3>3. /\ held'["sculld_ldev"] = held["sculld_ldev"] \ {i} /\ held'["sculld_dev_attr"] = held["sculld_dev_attr"] \ {i}
          /\ Others({"sculld_ldev", "sculld_dev_attr"}) /\ Frees(Now("sculld", c), "sculld_ldev", i)
          /\ Moves("sculld", Target("sculld", c, "next"))
      BY <3>1, <3>2, PutWithOne
    <3> QED BY <2>1, <3>3 DEF Frees
  <2>3. SculldInv'
    BY <1>0, <1>1, <2>2, SculldKinds DEF SculldInv, SculldPlace, SculldGone, SculldThere,
       SculldOwned, LeavesNot, DriverHad, None, Had, Site, Upto, Since, Careful, Moves, Others,
       Strays
  <2>4. Careful => stray' = stray
    BY <1>0, <1>1, <2>2, SculldKinds DEF SculldInv, SculldPlace, SculldOwned, DriverHad, LeavesNot,
       None, Had, Site, Upto, Since, Careful, Others, Strays
  <2> QED BY <2>2, SculldKinds, <2>3, <2>4 DEF Stays, Moves, Others, Strays
<1>2. CASE Line("sculld") = 2
  <2>1. /\ Now("sculld", c) = Drop("sculld_cdev")
        /\ Target("sculld", c, "next") = <<"exit", i, 3>>
    BY <1>0, <1>2 DEF Now, Block, Loop, Again, Target, After, UnregisterLddDevice
  <2>2. /\ held'["sculld_cdev"] = held["sculld_cdev"] \ {i}
        /\ Others({"sculld_cdev"}) /\ stray' = stray
        /\ Moves("sculld", <<"exit", i, 3>>)
    BY <2>1, PutOne, SculldKinds DEF Frees
  <2>3. SculldInv'
    BY <1>0, <1>2, <2>2, SculldKinds DEF SculldInv, SculldPlace, SculldGone, SculldThere,
       SculldOwned, LeavesNot, DriverHad, None, Had, Site, Upto, Since, Careful, Moves, Others,
       Strays
  <2>4. status["sculld"] = "loading" => held["sculld_cdev"] = {}
    BY <1>0, <1>2, <2>2, SculldKinds DEF SculldInv, SculldPlace, SculldGone, None, Site
  <2> QED BY <2>2, SculldKinds, <2>3, <2>4 DEF Stays, Moves, Others, Strays
<1>3. CASE Line("sculld") = 3
  <2>1. /\ Now("sculld", c) = Put("sculld_kobj")
        /\ Target("sculld", c, "next") = (IF i < NDevs THEN <<"exit", i + 1, 1>> ELSE <<"free", 1, 1>>)
    BY <1>0, <1>3 DEF Now, Block, Loop, Again, Target, After, UnregisterLddDevice
  <2>2. /\ held'["sculld_kobj"] = held["sculld_kobj"] \ {i}
        /\ Others({"sculld_kobj"}) /\ stray' = stray \cup Strays("sculld_kobj", i)
        /\ Moves("sculld", (IF i < NDevs THEN <<"exit", i + 1, 1>> ELSE <<"free", 1, 1>>))
    BY <2>1, PutOne, SculldKinds DEF Frees
  <2>3. SculldInv'
    BY <1>0, <1>3, <2>2, SculldKinds DEF SculldInv, SculldPlace, SculldGone, SculldThere,
       SculldOwned, LeavesNot, DriverHad, None, Had, Site, Upto, Since, Careful, Moves, Others,
       Strays
  <2>4. Careful => stray' = stray
    BY <1>0, <1>3, <2>2, SculldKinds DEF SculldInv, SculldPlace, SculldOwned, DriverHad, LeavesNot,
       None, Had, Site, Upto, Since, Careful, Others, Strays
  <2> QED BY <2>2, SculldKinds, <2>3, <2>4 DEF Stays, Moves, Others, Strays
<1> QED BY <1>0, <1>1, <1>2, <1>3

LEMMA SculldAtFree ==
  ASSUME LoadTypeOK, SculldInv, NEW c, c = Block("free", <<Put("sculld_devices"), UnregisterLddDriver, Put("sculld_region")>>, "out"),
         In("sculld", c), Runs("sculld", c)
  PROVE  SculldInv' /\ Stays("sculld")
<1> DEFINE i == I("sculld")
<1>0. Label("sculld") = "free" /\ i = 1 /\ Line("sculld") \in 1..3
      /\ status["sculld"] \in {"loading", "unloading"} /\ NDevs \in Nat \ {0}
  BY NDevsAssumption DEF In, Running, Block, Loop, Again, SculldInv, SculldPlace
<1>1. CASE Line("sculld") = 1
  <2>1. /\ Now("sculld", c) = Put("sculld_devices")
        /\ Target("sculld", c, "next") = <<"free", i, 2>>
    BY <1>0, <1>1 DEF Now, Block, Loop, Again, Target, After, UnregisterLddDriver
  <2>2. /\ held'["sculld_devices"] = held["sculld_devices"] \ {i} /\ held'["sculld_sem"] = {}
        /\ Others({"sculld_devices", "sculld_sem"}) /\ stray' = stray \cup Strays("sculld_devices", i)
        /\ Moves("sculld", <<"free", i, 2>>)
    <3>1. TakesAll("sculld_devices", "sculld_sem")
      BY DEF TakesAll, InAll
    <3>2. /\ "sculld" \in Modules /\ "sculld_devices" \in AllKinds /\ "sculld_sem" \in AllKinds
          /\ Lets("sculld", c, "sculld_devices")
      BY <2>1, SculldKinds DEF Lets
    <3>3. /\ held'["sculld_devices"] = held["sculld_devices"] \ {i} /\ held'["sculld_sem"] = {}
          /\ Others({"sculld_devices", "sculld_sem"}) /\ Frees(Now("sculld", c), "sculld_devices", i)
          /\ Moves("sculld", Target("sculld", c, "next"))
      BY <3>1, <3>2, PutWithAll
    <3> QED BY <2>1, <3>3 DEF Frees
  <2>3. SculldInv'
    BY <1>0, <1>1, <2>2, SculldKinds DEF SculldInv, SculldPlace, SculldGone, SculldThere,
       SculldOwned, LeavesNot, DriverHad, None, Had, Site, Upto, Since, Careful, Moves, Others,
       Strays
  <2>4. Careful => stray' = stray
    BY <1>0, <1>1, <2>2, SculldKinds DEF SculldInv, SculldPlace, SculldOwned, DriverHad, LeavesNot,
       None, Had, Site, Upto, Since, Careful, Others, Strays
  <2> QED BY <2>2, SculldKinds, <2>3, <2>4 DEF Stays, Moves, Others, Strays
<1>2. CASE Line("sculld") = 2
  <2>1. /\ Now("sculld", c) = Put("sculld_driver")
        /\ Target("sculld", c, "next") = <<"free", i, 3>>
    BY <1>0, <1>2 DEF Now, Block, Loop, Again, Target, After, UnregisterLddDriver
  <2>2. /\ held'["sculld_driver"] = held["sculld_driver"] \ {i} /\ held'["sculld_driver_attr"] = {}
        /\ Others({"sculld_driver", "sculld_driver_attr"}) /\ stray' = stray \cup Strays("sculld_driver", i)
        /\ Moves("sculld", <<"free", i, 3>>)
    <3>1. TakesAll("sculld_driver", "sculld_driver_attr")
      BY DEF TakesAll, InAll
    <3>2. /\ "sculld" \in Modules /\ "sculld_driver" \in AllKinds /\ "sculld_driver_attr" \in AllKinds
          /\ Lets("sculld", c, "sculld_driver")
      BY <2>1, SculldKinds DEF Lets
    <3>3. /\ held'["sculld_driver"] = held["sculld_driver"] \ {i} /\ held'["sculld_driver_attr"] = {}
          /\ Others({"sculld_driver", "sculld_driver_attr"}) /\ Frees(Now("sculld", c), "sculld_driver", i)
          /\ Moves("sculld", Target("sculld", c, "next"))
      BY <3>1, <3>2, PutWithAll
    <3> QED BY <2>1, <3>3 DEF Frees
  <2>3. SculldInv'
    BY <1>0, <1>2, <2>2, SculldKinds DEF SculldInv, SculldPlace, SculldGone, SculldThere,
       SculldOwned, LeavesNot, DriverHad, None, Had, Site, Upto, Since, Careful, Moves, Others,
       Strays
  <2>4. Careful => stray' = stray
    BY <1>0, <1>2, <2>2, SculldKinds DEF SculldInv, SculldPlace, SculldOwned, DriverHad, LeavesNot,
       None, Had, Site, Upto, Since, Careful, Others, Strays
  <2> QED BY <2>2, SculldKinds, <2>3, <2>4 DEF Stays, Moves, Others, Strays
<1>3. CASE Line("sculld") = 3
  <2>1. /\ Now("sculld", c) = Put("sculld_region")
        /\ Target("sculld", c, "next") = <<"out", i, 1>>
    BY <1>0, <1>3 DEF Now, Block, Loop, Again, Target, After, UnregisterLddDriver
  <2>2. /\ held'["sculld_region"] = held["sculld_region"] \ {i}
        /\ Others({"sculld_region"}) /\ stray' = stray \cup Strays("sculld_region", i)
        /\ Moves("sculld", <<"out", i, 1>>)
    BY <2>1, PutOne, SculldKinds DEF Frees
  <2>3. SculldInv'
    BY <1>0, <1>3, <2>2, SculldKinds DEF SculldInv, SculldPlace, SculldGone, SculldThere,
       SculldOwned, LeavesNot, DriverHad, None, Had, Site, Upto, Since, Careful, Moves, Others,
       Strays
  <2>4. Careful => stray' = stray
    BY <1>0, <1>3, <2>2, SculldKinds DEF SculldInv, SculldPlace, SculldOwned, DriverHad, LeavesNot,
       None, Had, Site, Upto, Since, Careful, Others, Strays
  <2> QED BY <2>2, SculldKinds, <2>3, <2>4 DEF Stays, Moves, Others, Strays
<1> QED BY <1>0, <1>1, <1>2, <1>3

LEMMA SculldRuns ==
  ASSUME LoadTypeOK, SculldInv, NEW c \in Code("sculld"), In("sculld", c), Runs("sculld", c)
  PROVE  SculldInv' /\ Stays("sculld")
<1>1. \/ c = Block("init", <<GetOr("sculld_region", "out")>>, "register")
      \/ c = Block("register", <<GetOr("sculld_driver", "malloc"), Get("sculld_driver_attr")>>, "malloc")
      \/ c = Block("malloc", <<GetOr("sculld_devices", "fail_malloc")>>, "setup")
      \/ c = Loop(NDevs, "setup", SculldSetup, "live")
      \/ c = Block("fail_malloc", <<Put("sculld_region")>>, "out")
      \/ c = Loop(NDevs, "exit",
                   <<UnregisterLddDevice, Drop("sculld_cdev"), Put("sculld_kobj")>>, "free")
      \/ c = Block("free", <<Put("sculld_devices"), UnregisterLddDriver, Put("sculld_region")>>, "out")
  BY DEF Code, SculldInit, RegisterLddDriver, SculldExit
<1> QED BY <1>1, SculldAtInit, SculldAtRegister, SculldAtMalloc, SculldAtSetup, SculldAtFailMalloc,
           SculldAtExit, SculldAtFree

LEMMA SculldTurns ==
  ASSUME LoadTypeOK, SculldInv, Rests("sculld") \/ Starts("sculld") \/ Stops("sculld") \/ Ends("sculld")
  PROVE  SculldInv'
<1>1. NDevs \in Nat \ {0} /\ (~Running("sculld") => Label("sculld") = status["sculld"])
  BY NDevsAssumption, SculldKinds DEF LoadTypeOK
<1>2. CASE Rests("sculld")
  <2>1. SculldPlace'
    BY <1>1, <1>2, SculldKinds DEF Rests, Label, I, Line, SculldInv, SculldPlace
  <2>2. SculldGone'
    BY <1>1, <1>2, SculldKinds DEF Rests, Label, I, Line, SculldInv, SculldPlace, SculldGone,
       SculldThere, LeavesNot, None, Had, Site, Upto, Since, Careful
  <2>3. SculldThere'
    BY <1>1, <1>2, SculldKinds DEF Rests, Label, I, Line, SculldInv, SculldPlace, SculldGone,
       SculldThere, DriverHad, None, Had, Site, Upto, Since, Careful
  <2>4. Careful => SculldOwned'
    BY <1>1, <1>2, SculldKinds DEF Rests, Label, I, Line, SculldInv, SculldPlace, SculldGone,
       SculldThere, SculldOwned, DriverHad, LeavesNot, None, Had, Site, Upto, Since, Careful
  <2> QED BY <2>1, <2>2, <2>3, <2>4 DEF SculldInv
<1>3. CASE Starts("sculld")
  <2>1. SculldPlace'
    BY <1>1, <1>3, SculldKinds DEF Starts, Running, Label, I, Line, SculldInv, SculldPlace
  <2>2. SculldGone'
    BY <1>1, <1>3, SculldKinds DEF Starts, Running, Label, I, Line, SculldInv, SculldPlace,
       SculldGone, SculldThere, LeavesNot, None, Had, Site, Upto, Since, Careful
  <2>3. SculldThere'
    BY <1>1, <1>3, SculldKinds DEF Starts, Running, Label, I, Line, SculldInv, SculldPlace,
       SculldGone, SculldThere, DriverHad, None, Had, Site, Upto, Since, Careful
  <2>4. Careful => SculldOwned'
    BY <1>1, <1>3, SculldKinds DEF Starts, Running, Label, I, Line, SculldInv, SculldPlace,
       SculldGone, SculldThere, SculldOwned, DriverHad, LeavesNot, None, Had, Site, Upto, Since,
       Careful
  <2> QED BY <2>1, <2>2, <2>3, <2>4 DEF SculldInv
<1>4. CASE Stops("sculld")
  <2>1. SculldPlace'
    BY <1>1, <1>4, SculldKinds DEF Stops, Running, Label, I, Line, SculldInv, SculldPlace
  <2>2. SculldGone'
    BY <1>1, <1>4, SculldKinds DEF Stops, Running, Label, I, Line, SculldInv, SculldPlace,
       SculldGone, SculldThere, LeavesNot, None, Had, Site, Upto, Since, Careful
  <2>3. SculldThere'
    BY <1>1, <1>4, SculldKinds DEF Stops, Running, Label, I, Line, SculldInv, SculldPlace,
       SculldGone, SculldThere, DriverHad, None, Had, Site, Upto, Since, Careful
  <2>4. Careful => SculldOwned'
    BY <1>1, <1>4, SculldKinds DEF Stops, Running, Label, I, Line, SculldInv, SculldPlace,
       SculldGone, SculldThere, SculldOwned, DriverHad, LeavesNot, None, Had, Site, Upto, Since,
       Careful
  <2> QED BY <2>1, <2>2, <2>3, <2>4 DEF SculldInv
<1>5. CASE Ends("sculld")
  <2>1. SculldPlace'
    BY <1>1, <1>5, SculldKinds DEF Ends, Running, Label, I, Line, SculldInv, SculldPlace
  <2>2. SculldGone'
    BY <1>1, <1>5, SculldKinds DEF Ends, Running, Label, I, Line, SculldInv, SculldPlace,
       SculldGone, SculldThere, LeavesNot, None, Had, Site, Upto, Since, Careful
  <2>3. SculldThere'
    BY <1>1, <1>5, SculldKinds DEF Ends, Running, Label, I, Line, SculldInv, SculldPlace,
       SculldGone, SculldThere, DriverHad, None, Had, Site, Upto, Since, Careful
  <2>4. Careful => SculldOwned'
    BY <1>1, <1>5, SculldKinds DEF Ends, Running, Label, I, Line, SculldInv, SculldPlace,
       SculldGone, SculldThere, SculldOwned, DriverHad, LeavesNot, None, Had, Site, Upto, Since,
       Careful
  <2> QED BY <2>1, <2>2, <2>3, <2>4 DEF SculldInv
<1> QED BY <1>2, <1>3, <1>4, <1>5
-----------------------------------------------------------------------------
(* sbull *)

LEMMA SbullKinds ==
  /\ Kinds("sbull") = {"sbull_major", "sbull_devices", "sbull_data", "sbull_timer", "sbull_queue",
                       "sbull_gd", "sbull_disk"}
  /\ Kinds("sbull") \subseteq AllKinds /\ "sbull" \in Modules
  /\ Nodes("sbull") = {"sbull_disk"}
BY DEF Kinds, AllKinds, Modules, Nodes

LEMMA SbullAtInit ==
  ASSUME LoadTypeOK, SbullInv, NEW c, c = Block("init", <<GetOr("sbull_major", "out"), GetOr("sbull_devices", "out_unregister")>>, "setup"),
         In("sbull", c), Runs("sbull", c), "sbull_major" \notin plan
  PROVE  SbullInv' /\ Stays("sbull")
<1> DEFINE i == I("sbull")
<1>0. Label("sbull") = "init" /\ i = 1 /\ Line("sbull") \in 1..2
      /\ status["sbull"] \in {"loading", "unloading"} /\ NDevs \in Nat \ {0}
  BY NDevsAssumption DEF In, Running, Block, Loop, Again, SbullInv, SbullPlace
<1>1. CASE Line("sbull") = 1
  <2>1. /\ Now("sbull", c) = GetOr("sbull_major", "out")
        /\ Target("sbull", c, "next") = <<"init", i, 2>>
        /\ Target("sbull", c, "out") = <<"out", i, 1>>
    BY <1>0, <1>1 DEF Now, Block, Loop, Again, Target, After
  <2>2. \/ Gets("sbull_major", i) /\ Moves("sbull", <<"init", i, 2>>)
        \/ "sbull_major" \in MayFail /\ Same /\ Moves("sbull", <<"out", i, 1>>)
    BY <2>1, GetOrStep, SbullKinds
  <2>3. CASE Gets("sbull_major", i) /\ Moves("sbull", <<"init", i, 2>>)
    <3>1. SbullInv'
      BY <1>0, <1>1, <2>3, SbullKinds DEF SbullInv, SbullPlace, SbullGone, SbullThere, SbullOwned,
         None, Had, Site, Upto, Since, Careful, Moves, Gets, Leaves
    <3> QED BY <2>3, SbullKinds, <3>1 DEF Stays, Moves, Gets, Leaves
  <2>4. CASE "sbull_major" \in MayFail /\ Same /\ Moves("sbull", <<"out", i, 1>>)
    <3>1. SbullInv'
      BY <1>0, <1>1, <2>4, SbullKinds DEF SbullInv, SbullPlace, SbullGone, SbullThere, SbullOwned,
         None, Had, Site, Upto, Since, Careful, Moves, Same
    <3> QED BY <2>4, SbullKinds, <3>1 DEF Stays, Moves, Same
  <2> QED BY <2>2, <2>3, <2>4
<1>2. CASE Line("sbull") = 2
  <2>1. /\ Now("sbull", c) = GetOr("sbull_devices", "out_unregister")
        /\ Target("sbull", c, "next") = <<"setup", i, 1>>
        /\ Target("sbull", c, "out_unregister") = <<"out_unregister", i, 1>>
    BY <1>0, <1>2 DEF Now, Block, Loop, Again, Target, After
  <2>2. \/ Gets("sbull_devices", i) /\ Moves("sbull", <<"setup", i, 1>>)
        \/ "sbull_devices" \in MayFail /\ Same /\ Moves("sbull", <<"out_unregister", i, 1>>)
    BY <2>1, GetOrStep, SbullKinds
  <2>3. CASE Gets("sbull_devices", i) /\ Moves("sbull", <<"setup", i, 1>>)
    <3>1. SbullInv'
      BY <1>0, <1>2, <2>3, SbullKinds DEF SbullInv, SbullPlace, SbullGone, SbullThere, SbullOwned,
         None, Had, Site, Upto, Since, Careful, Moves, Gets, Leaves
    <3> QED BY <2>3, SbullKinds, <3>1 DEF Stays, Moves, Gets, Leaves
  <2>4. CASE "sbull_devices" \in MayFail /\ Same /\ Moves("sbull", <<"out_unregister", i, 1>>)
    <3>1. SbullInv'
      BY <1>0, <1>2, <2>4, SbullKinds DEF SbullInv, SbullPlace, SbullGone, SbullThere, SbullOwned,
         None, Had, Site, Upto, Since, Careful, Moves, Same
    <3> QED BY <2>4, SbullKinds, <3>1 DEF Stays, Moves, Same
  <2> QED BY <2>2, <2>3, <2>4
<1> QED BY <1>0, <1>1, <1>2

LEMMA SbullAtInitGiven ==
  ASSUME LoadTypeOK, SbullInv, NEW c, c = Block("init", <<Get("sbull_major")>>, "out"),
         In("sbull", c), Runs("sbull", c), "sbull_major" \in plan
  PROVE  SbullInv' /\ Stays("sbull")
<1> DEFINE i == I("sbull")
<1>0. Label("sbull") = "init" /\ i = 1 /\ Line("sbull") \in 1..1
      /\ status["sbull"] \in {"loading", "unloading"} /\ NDevs \in Nat \ {0}
  BY NDevsAssumption DEF In, Running, Block, Loop, Again, SbullInv, SbullPlace
<1>1. CASE Line("sbull") = 1
  <2>1. /\ Now("sbull", c) = Get("sbull_major")
        /\ Target("sbull", c, "next") = <<"out", i, 1>>
    BY <1>0, <1>1 DEF Now, Block, Loop, Again, Target, After
  <2>2. /\ Gets("sbull_major", i) \/ ("sbull_major" \in MayFail /\ Same)
        /\ Moves("sbull", <<"out", i, 1>>)
    BY <2>1, GetStep, SbullKinds
  <2>3. SbullInv'
    BY <1>0, <1>1, <2>2, SbullKinds DEF SbullInv, SbullPlace, SbullGone, SbullThere, SbullOwned,
       None, Had, Site, Upto, Since, Careful, Moves, Gets, Leaves, Same
  <2> QED BY <2>2, SbullKinds, <2>3 DEF Stays, Moves, Gets, Leaves, Same
<1> QED BY <1>0, <1>1

LEMMA SbullAtOutUnregister ==
  ASSUME LoadTypeOK, SbullInv, NEW c, c = Block("out_unregister", <<Put("sbull_major")>>, "out"),
         In("sbull", c), Runs("sbull", c)
  PROVE  SbullInv' /\ Stays("sbull")
<1> DEFINE i == I("sbull")
<1>0. Label("sbull") = "out_unregister" /\ i = 1 /\ Line("sbull") \in 1..1
      /\ status["sbull"] \in {"loading", "unloading"} /\ NDevs \in Nat \ {0}
  BY NDevsAssumption DEF In, Running, Block, Loop, Again, SbullInv, SbullPlace
<1>1. CASE Line("sbull") = 1
  <2>1. /\ Now("sbull", c) = Put("sbull_major")
        /\ Target("sbull", c, "next") = <<"out", i, 1>>
    BY <1>0, <1>1 DEF Now, Block, Loop, Again, Target, After
  <2>2. /\ held'["sbull_major"] = held["sbull_major"] \ {i}
        /\ Others({"sbull_major"}) /\ stray' = stray \cup Strays("sbull_major", i)
        /\ Moves("sbull", <<"out", i, 1>>)
    BY <2>1, PutOne, SbullKinds DEF Frees
  <2>3. SbullInv'
    BY <1>0, <1>1, <2>2, SbullKinds DEF SbullInv, SbullPlace, SbullGone, SbullThere, SbullOwned,
       None, Had, Site, Upto, Since, Careful, Moves, Others, Strays
  <2>4. Careful => stray' = stray
    BY <1>0, <1>1, <2>2, SbullKinds DEF SbullInv, SbullPlace, SbullThere, None, Had, Site, Upto,
       Since, Careful, Others, Strays
  <2> QED BY <2>2, SbullKinds, <2>3, <2>4 DEF Stays, Moves, Others, Strays
<1> QED BY <1>0, <1>1

LEMMA SbullAtSetup ==
  ASSUME LoadTypeOK, SbullInv, NEW c, c = Loop(NDevs, "setup",
                  <<GetOr("sbull_data", "end"), Set("sbull_timer"), GetOr("sbull_queue", "out_vfree"),
                    GetOr("sbull_gd", "out_vfree"), Set("sbull_disk")>>, "live"),
         In("sbull", c), Runs("sbull", c)
  PROVE  SbullInv' /\ Stays("sbull")
<1> DEFINE i == I("sbull")
<1>0. Label("sbull") = "setup" /\ i \in 1..NDevs /\ Line("sbull") \in 1..5
      /\ status["sbull"] \in {"loading", "unloading"} /\ NDevs \in Nat \ {0}
  BY NDevsAssumption DEF In, Running, Block, Loop, Again, SbullInv, SbullPlace
<1>1. CASE Line("sbull") = 1
  <2>1. /\ Now("sbull", c) = GetOr("sbull_data", "end")
        /\ Target("sbull", c, "next") = <<"setup", i, 2>>
        /\ Target("sbull", c, "end") = (IF i < NDevs THEN <<"setup", i + 1, 1>> ELSE <<"live", 1, 1>>)
    BY <1>0, <1>1 DEF Now, Block, Loop, Again, Target, After
  <2>2. \/ Gets("sbull_data", i) /\ Moves("sbull", <<"setup", i, 2>>)
        \/ "sbull_data" \in MayFail /\ Same /\ Moves("sbull", (IF i < NDevs THEN <<"setup", i + 1, 1>> ELSE <<"live", 1, 1>>))
    BY <2>1, GetOrStep, SbullKinds
  <2>3. CASE Gets("sbull_data", i) /\ Moves("sbull", <<"setup", i, 2>>)
    <3>1. SbullInv'
      BY <1>0, <1>1, <2>3, SbullKinds DEF SbullInv, SbullPlace, SbullGone, SbullThere, SbullOwned,
         None, Had, Site, Upto, Since, Careful, Moves, Gets, Leaves
    <3> QED BY <2>3, SbullKinds, <3>1 DEF Stays, Moves, Gets, Leaves
  <2>4. CASE "sbull_data" \in MayFail /\ Same /\ Moves("sbull", (IF i < NDevs THEN <<"setup", i + 1, 1>> ELSE <<"live", 1, 1>>))
    <3>1. SbullInv'
      BY <1>0, <1>1, <2>4, SbullKinds DEF SbullInv, SbullPlace, SbullGone, SbullThere, SbullOwned,
         None, Had, Site, Upto, Since, Careful, Moves, Same
    <3> QED BY <2>4, SbullKinds, <3>1 DEF Stays, Moves, Same
  <2> QED BY <2>2, <2>3, <2>4
<1>2. CASE Line("sbull") = 2
  <2>1. /\ Now("sbull", c) = Set("sbull_timer")
        /\ Target("sbull", c, "next") = <<"setup", i, 3>>
    BY <1>0, <1>2 DEF Now, Block, Loop, Again, Target, After
  <2>2. /\ Gets("sbull_timer", i)
        /\ Moves("sbull", <<"setup", i, 3>>)
    BY <2>1, SetStep, SbullKinds
  <2>3. SbullInv'
    BY <1>0, <1>2, <2>2, SbullKinds DEF SbullInv, SbullPlace, SbullGone, SbullThere, SbullOwned,
       None, Had, Site, Upto, Since, Careful, Moves, Gets, Leaves
  <2> QED BY <2>2, SbullKinds, <2>3 DEF Stays, Moves, Gets, Leaves
<1>3. CASE Line("sbull") = 3
  <2>1. /\ Now("sbull", c) = GetOr("sbull_queue", "out_vfree")
        /\ Target("sbull", c, "next") = <<"setup", i, 4>>
        /\ Target("sbull", c, "out_vfree") = <<"out_vfree", i, 1>>
    BY <1>0, <1>3 DEF Now, Block, Loop, Again, Target, After
  <2>2. \/ Gets("sbull_queue", i) /\ Moves("sbull", <<"setup", i, 4>>)
        \/ "sbull_queue" \in MayFail /\ Same /\ Moves("sbull", <<"out_vfree", i, 1>>)
    BY <2>1, GetOrStep, SbullKinds
  <2>3. CASE Gets("sbull_queue", i) /\ Moves("sbull", <<"setup", i, 4>>)
    <3>1. SbullInv'
      BY <1>0, <1>3, <2>3, SbullKinds DEF SbullInv, SbullPlace, SbullGone, SbullThere, SbullOwned,
         None, Had, Site, Upto, Since, Careful, Moves, Gets, Leaves
    <3> QED BY <2>3, SbullKinds, <3>1 DEF Stays, Moves, Gets, Leaves
  <2>4. CASE "sbull_queue" \in MayFail /\ Same /\ Moves("sbull", <<"out_vfree", i, 1>>)
    <3>1. SbullInv'
      BY <1>0, <1>3, <2>4, SbullKinds DEF SbullInv, SbullPlace, SbullGone, SbullThere, SbullOwned,
         None, Had, Site, Upto, Since, Careful, Moves, Same
    <3> QED BY <2>4, SbullKinds, <3>1 DEF Stays, Moves, Same
  <2> QED BY <2>2, <2>3, <2>4
<1>4. CASE Line("sbull") = 4
  <2>1. /\ Now("sbull", c) = GetOr("sbull_gd", "out_vfree")
        /\ Target("sbull", c, "next") = <<"setup", i, 5>>
        /\ Target("sbull", c, "out_vfree") = <<"out_vfree", i, 1>>
    BY <1>0, <1>4 DEF Now, Block, Loop, Again, Target, After
  <2>2. \/ Gets("sbull_gd", i) /\ Moves("sbull", <<"setup", i, 5>>)
        \/ "sbull_gd" \in MayFail /\ Same /\ Moves("sbull", <<"out_vfree", i, 1>>)
    BY <2>1, GetOrStep, SbullKinds
  <2>3. CASE Gets("sbull_gd", i) /\ Moves("sbull", <<"setup", i, 5>>)
    <3>1. SbullInv'
      BY <1>0, <1>4, <2>3, SbullKinds DEF SbullInv, SbullPlace, SbullGone, SbullThere, SbullOwned,
         None, Had, Site, Upto, Since, Careful, Moves, Gets, Leaves
    <3> QED BY <2>3, SbullKinds, <3>1 DEF Stays, Moves, Gets, Leaves
  <2>4. CASE "sbull_gd" \in MayFail /\ Same /\ Moves("sbull", <<"out_vfree", i, 1>>)
    <3>1. SbullInv'
      BY <1>0, <1>4, <2>4, SbullKinds DEF SbullInv, SbullPlace, SbullGone, SbullThere, SbullOwned,
         None, Had, Site, Upto, Since, Careful, Moves, Same
    <3> QED BY <2>4, SbullKinds, <3>1 DEF Stays, Moves, Same
  <2> QED BY <2>2, <2>3, <2>4
<1>5. CASE Line("sbull") = 5
  <2>1. /\ Now("sbull", c) = Set("sbull_disk")
        /\ Target("sbull", c, "next") = (IF i < NDevs THEN <<"setup", i + 1, 1>> ELSE <<"live", 1, 1>>)
    BY <1>0, <1>5 DEF Now, Block, Loop, Again, Target, After
  <2>2. /\ Gets("sbull_disk", i)
        /\ Moves("sbull", (IF i < NDevs THEN <<"setup", i + 1, 1>> ELSE <<"live", 1, 1>>))
    BY <2>1, SetStep, SbullKinds
  <2>3. SbullInv'
    BY <1>0, <1>5, <2>2, SbullKinds DEF SbullInv, SbullPlace, SbullGone, SbullThere, SbullOwned,
       None, Had, Site, Upto, Since, Careful, Moves, Gets, Leaves
  <2> QED BY <2>2, SbullKinds, <2>3 DEF Stays, Moves, Gets, Leaves
<1> QED BY <1>0, <1>1, <1>2, <1>3, <1>4, <1>5

LEMMA SbullAtOutVfree ==
  ASSUME LoadTypeOK, SbullInv, NEW c, c = Again("setup", NDevs, "out_vfree", <<Put("sbull_data")>>, "live"),
         In("sbull", c), Runs("sbull", c)
  PROVE  SbullInv' /\ Stays("sbull")
<1> DEFINE i == I("sbull")
<1>0. Label("sbull") = "out_vfree" /\ i \in 1..NDevs /\ Line("sbull") \in 1..1
      /\ status["sbull"] \in {"loading", "unloading"} /\ NDevs \in Nat \ {0}
  BY NDevsAssumption DEF In, Running, Block, Loop, Again, SbullInv, SbullPlace
<1>1. CASE Line("sbull") = 1
  <2>1. /\ Now("sbull", c) = Put("sbull_data")
        /\ Target("sbull", c, "next") = (IF i < NDevs THEN <<"setup", i + 1, 1>> ELSE <<"live", 1, 1>>)
    BY <1>0, <1>1 DEF Now, Block, Loop, Again, Target, After
  <2>2. /\ held'["sbull_data"] = held["sbull_data"] \ {i}
        /\ Others({"sbull_data"}) /\ stray' = stray \cup Strays("sbull_data", i)
        /\ Moves("sbull", (IF i < NDevs THEN <<"setup", i + 1, 1>> ELSE <<"live", 1, 1>>))
    BY <2>1, PutOne, SbullKinds DEF Frees
  <2>3. SbullInv'
    BY <1>0, <1>1, <2>2, SbullKinds DEF SbullInv, SbullPlace, SbullGone, SbullThere, SbullOwned,
       None, Had, Site, Upto, Since, Careful, Moves, Others, Strays
  <2>4. Careful => stray' = stray
    BY <1>0, <1>1, <2>2, SbullKinds DEF SbullInv, SbullPlace, SbullOwned, None, Had, Site, Upto,
       Since, Careful, Others, Strays
  <2> QED BY <2>2, SbullKinds, <2>3, <2>4 DEF Stays, Moves, Others, Strays
<1> QED BY <1>0, <1>1

LEMMA SbullAtExit ==
  ASSUME LoadTypeOK, SbullInv, NEW c, c = Block("exit",
                   <<Use("sbull_timer"), IfNull("sbull_gd", "end"), Put("sbull_disk"), Put("sbull_gd")>>,
                   "queue"),
         In("sbull", c), Runs("sbull", c)
  PROVE  SbullInv' /\ Stays("sbull")
<1> DEFINE i == I("sbull")
<1>0. Label("sbull") = "exit" /\ i \in 1..NDevs /\ Line("sbull") \in 1..4
      /\ status["sbull"] \in {"loading", "unloading"} /\ NDevs \in Nat \ {0}
  BY NDevsAssumption DEF In, Running, Block, Loop, Again, SbullInv, SbullPlace
<1>1. CASE Line("sbull") = 1
  <2>1. /\ Now("sbull", c) = Use("sbull_timer")
        /\ Target("sbull", c, "next") = <<"exit", i, 2>>
    BY <1>0, <1>1 DEF Now, Block, Loop, Again, Target, After
  <2>2. /\ held' = held /\ pointer' = pointer /\ stray' = stray \cup Strays("sbull_timer", i)
        /\ Moves("sbull", <<"exit", i, 2>>)
    BY <2>1, UseStep, SbullKinds
  <2>3. SbullInv'
    BY <1>0, <1>1, <2>2, SbullKinds DEF SbullInv, SbullPlace, SbullGone, SbullThere, SbullOwned,
       None, Had, Site, Upto, Since, Careful, Moves, Strays
  <2>4. Careful => stray' = stray
    BY <1>0, <1>1, <2>2, SbullKinds DEF SbullInv, SbullPlace, SbullOwned, None, Had, Site, Upto,
       Since, Careful, Strays
  <2> QED BY <2>2, SbullKinds, <2>3, <2>4 DEF Stays, Moves, Strays
<1>2. CASE Line("sbull") = 2
  <2>1. /\ Now("sbull", c) = IfNull("sbull_gd", "end")
        /\ Target("sbull", c, "next") = <<"exit", i, 3>>
        /\ Target("sbull", c, "end") = <<"queue", i, 1>>
    BY <1>0, <1>2 DEF Now, Block, Loop, Again, Target, After
  <2>2. /\ Same
        /\ IF i \in pointer["sbull_gd"] THEN Moves("sbull", <<"exit", i, 3>>)
           ELSE Moves("sbull", <<"queue", i, 1>>)
    BY <2>1, TestStep, SbullKinds DEF Holds, IfNull, Step
  <2>3. CASE i \in pointer["sbull_gd"]
    <3>1. SbullInv'
      BY <1>0, <1>2, <2>2, <2>3, SbullKinds DEF SbullInv, SbullPlace, SbullGone, SbullThere,
         SbullOwned, None, Had, Site, Upto, Since, Careful, Moves, Same
    <3> QED BY <2>2, <2>3, SbullKinds, <3>1 DEF Stays, Moves, Same
  <2>4. CASE ~(i \in pointer["sbull_gd"])
    <3>1. SbullInv'
      BY <1>0, <1>2, <2>2, <2>4, SbullKinds DEF SbullInv, SbullPlace, SbullGone, SbullThere,
         SbullOwned, None, Had, Site, Upto, Since, Careful, Moves, Same
    <3> QED BY <2>2, <2>4, SbullKinds, <3>1 DEF Stays, Moves, Same
  <2> QED BY <2>3, <2>4
<1>3. CASE Line("sbull") = 3
  <2>1. /\ Now("sbull", c) = Put("sbull_disk")
        /\ Target("sbull", c, "next") = <<"exit", i, 4>>
    BY <1>0, <1>3 DEF Now, Block, Loop, Again, Target, After
  <2>2. /\ held'["sbull_disk"] = held["sbull_disk"] \ {i}
        /\ Others({"sbull_disk"}) /\ stray' = stray \cup Strays("sbull_disk", i)
        /\ Moves("sbull", <<"exit", i, 4>>)
    BY <2>1, PutOne, SbullKinds DEF Frees
  <2>3. SbullInv'
    BY <1>0, <1>3, <2>2, SbullKinds DEF SbullInv, SbullPlace, SbullGone, SbullThere, SbullOwned,
       None, Had, Site, Upto, Since, Careful, Moves, Others, Strays
  <2>4. Careful => stray' = stray
    BY <1>0, <1>3, <2>2, SbullKinds DEF SbullInv, SbullPlace, SbullOwned, None, Had, Site, Upto,
       Since, Careful, Others, Strays
  <2>5. status["sbull"] = "loading" => held["sbull_disk"] = {}
    BY <1>0, <1>3, <2>2, SbullKinds DEF SbullInv, SbullPlace, SbullGone, None, Site
  <2> QED BY <2>2, SbullKinds, <2>3, <2>4, <2>5 DEF Stays, Moves, Others, Strays
<1>4. CASE Line("sbull") = 4
  <2>1. /\ Now("sbull", c) = Put("sbull_gd")
        /\ Target("sbull", c, "next") = <<"queue", i, 1>>
    BY <1>0, <1>4 DEF Now, Block, Loop, Again, Target, After
  <2>2. /\ held'["sbull_gd"] = held["sbull_gd"] \ {i}
        /\ Others({"sbull_gd"}) /\ stray' = stray \cup Strays("sbull_gd", i)
        /\ Moves("sbull", <<"queue", i, 1>>)
    BY <2>1, PutOne, SbullKinds DEF Frees
  <2>3. SbullInv'
    BY <1>0, <1>4, <2>2, SbullKinds DEF SbullInv, SbullPlace, SbullGone, SbullThere, SbullOwned,
       None, Had, Site, Upto, Since, Careful, Moves, Others, Strays
  <2>4. Careful => stray' = stray
    BY <1>0, <1>4, <2>2, SbullKinds DEF SbullInv, SbullPlace, SbullOwned, None, Had, Site, Upto,
       Since, Careful, Others, Strays
  <2> QED BY <2>2, SbullKinds, <2>3, <2>4 DEF Stays, Moves, Others, Strays
<1> QED BY <1>0, <1>1, <1>2, <1>3, <1>4

LEMMA SbullAtQueue ==
  ASSUME LoadTypeOK, SbullInv, NEW c, c = Block("queue", <<IfNull("sbull_queue", "end"), Put("sbull_queue")>>, "data"),
         In("sbull", c), Runs("sbull", c)
  PROVE  SbullInv' /\ Stays("sbull")
<1> DEFINE i == I("sbull")
<1>0. Label("sbull") = "queue" /\ i \in 1..NDevs /\ Line("sbull") \in 1..2
      /\ status["sbull"] \in {"loading", "unloading"} /\ NDevs \in Nat \ {0}
  BY NDevsAssumption DEF In, Running, Block, Loop, Again, SbullInv, SbullPlace
<1>1. CASE Line("sbull") = 1
  <2>1. /\ Now("sbull", c) = IfNull("sbull_queue", "end")
        /\ Target("sbull", c, "next") = <<"queue", i, 2>>
        /\ Target("sbull", c, "end") = <<"data", i, 1>>
    BY <1>0, <1>1 DEF Now, Block, Loop, Again, Target, After
  <2>2. /\ Same
        /\ IF i \in pointer["sbull_queue"] THEN Moves("sbull", <<"queue", i, 2>>)
           ELSE Moves("sbull", <<"data", i, 1>>)
    BY <2>1, TestStep, SbullKinds DEF Holds, IfNull, Step
  <2>3. CASE i \in pointer["sbull_queue"]
    <3>1. SbullInv'
      BY <1>0, <1>1, <2>2, <2>3, SbullKinds DEF SbullInv, SbullPlace, SbullGone, SbullThere,
         SbullOwned, None, Had, Site, Upto, Since, Careful, Moves, Same
    <3> QED BY <2>2, <2>3, SbullKinds, <3>1 DEF Stays, Moves, Same
  <2>4. CASE ~(i \in pointer["sbull_queue"])
    <3>1. SbullInv'
      BY <1>0, <1>1, <2>2, <2>4, SbullKinds DEF SbullInv, SbullPlace, SbullGone, SbullThere,
         SbullOwned, None, Had, Site, Upto, Since, Careful, Moves, Same
    <3> QED BY <2>2, <2>4, SbullKinds, <3>1 DEF Stays, Moves, Same
  <2> QED BY <2>3, <2>4
<1>2. CASE Line("sbull") = 2
  <2>1. /\ Now("sbull", c) = Put("sbull_queue")
        /\ Target("sbull", c, "next") = <<"data", i, 1>>
    BY <1>0, <1>2 DEF Now, Block, Loop, Again, Target, After
  <2>2. /\ held'["sbull_queue"] = held["sbull_queue"] \ {i}
        /\ Others({"sbull_queue"}) /\ stray' = stray \cup Strays("sbull_queue", i)
        /\ Moves("sbull", <<"data", i, 1>>)
    BY <2>1, PutOne, SbullKinds DEF Frees
  <2>3. SbullInv'
    BY <1>0, <1>2, <2>2, SbullKinds DEF SbullInv, SbullPlace, SbullGone, SbullThere, SbullOwned,
       None, Had, Site, Upto, Since, Careful, Moves, Others, Strays
  <2>4. Careful => stray' = stray
    BY <1>0, <1>2, <2>2, SbullKinds DEF SbullInv, SbullPlace, SbullOwned, None, Had, Site, Upto,
       Since, Careful, Others, Strays
  <2> QED BY <2>2, SbullKinds, <2>3, <2>4 DEF Stays, Moves, Others, Strays
<1> QED BY <1>0, <1>1, <1>2

LEMMA SbullAtData ==
  ASSUME LoadTypeOK, SbullInv, NEW c, c = Again("exit", NDevs, "data", <<IfNull("sbull_data", "end"), Put("sbull_data")>>, "free"),
         In("sbull", c), Runs("sbull", c)
  PROVE  SbullInv' /\ Stays("sbull")
<1> DEFINE i == I("sbull")
<1>0. Label("sbull") = "data" /\ i \in 1..NDevs /\ Line("sbull") \in 1..2
      /\ status["sbull"] \in {"loading", "unloading"} /\ NDevs \in Nat \ {0}
  BY NDevsAssumption DEF In, Running, Block, Loop, Again, SbullInv, SbullPlace
<1>1. CASE Line("sbull") = 1
  <2>1. /\ Now("sbull", c) = IfNull("sbull_data", "end")
        /\ Target("sbull", c, "next") = <<"data", i, 2>>
        /\ Target("sbull", c, "end") = (IF i < NDevs THEN <<"exit", i + 1, 1>> ELSE <<"free", 1, 1>>)
    BY <1>0, <1>1 DEF Now, Block, Loop, Again, Target, After
  <2>2. /\ Same
        /\ IF i \in pointer["sbull_data"] THEN Moves("sbull", <<"data", i, 2>>)
           ELSE Moves("sbull", (IF i < NDevs THEN <<"exit", i + 1, 1>> ELSE <<"free", 1, 1>>))
    BY <2>1, TestStep, SbullKinds DEF Holds, IfNull, Step
  <2>3. CASE i \in pointer["sbull_data"]
    <3>1. SbullInv'
      BY <1>0, <1>1, <2>2, <2>3, SbullKinds DEF SbullInv, SbullPlace, SbullGone, SbullThere,
         SbullOwned, None, Had, Site, Upto, Since, Careful, Moves, Same
    <3> QED BY <2>2, <2>3, SbullKinds, <3>1 DEF Stays, Moves, Same
  <2>4. CASE ~(i \in pointer["sbull_data"])
    <3>1. SbullInv'
      BY <1>0, <1>1, <2>2, <2>4, SbullKinds DEF SbullInv, SbullPlace, SbullGone, SbullThere,
         SbullOwned, None, Had, Site, Upto, Since, Careful, Moves, Same
    <3> QED BY <2>2, <2>4, SbullKinds, <3>1 DEF Stays, Moves, Same
  <2> QED BY <2>3, <2>4
<1>2. CASE Line("sbull") = 2
  <2>1. /\ Now("sbull", c) = Put("sbull_data")
        /\ Target("sbull", c, "next") = (IF i < NDevs THEN <<"exit", i + 1, 1>> ELSE <<"free", 1, 1>>)
    BY <1>0, <1>2 DEF Now, Block, Loop, Again, Target, After
  <2>2. /\ held'["sbull_data"] = held["sbull_data"] \ {i}
        /\ Others({"sbull_data"}) /\ stray' = stray \cup Strays("sbull_data", i)
        /\ Moves("sbull", (IF i < NDevs THEN <<"exit", i + 1, 1>> ELSE <<"free", 1, 1>>))
    BY <2>1, PutOne, SbullKinds DEF Frees
  <2>3. SbullInv'
    BY <1>0, <1>2, <2>2, SbullKinds DEF SbullInv, SbullPlace, SbullGone, SbullThere, SbullOwned,
       None, Had, Site, Upto, Since, Careful, Moves, Others, Strays
  <2>4. Careful => stray' = stray
    BY <1>0, <1>2, <2>2, SbullKinds DEF SbullInv, SbullPlace, SbullOwned, None, Had, Site, Upto,
       Since, Careful, Others, Strays
  <2> QED BY <2>2, SbullKinds, <2>3, <2>4 DEF Stays, Moves, Others, Strays
<1> QED BY <1>0, <1>1, <1>2

LEMMA SbullAtFree ==
  ASSUME LoadTypeOK, SbullInv, NEW c, c = Block("free", <<Put("sbull_major"), Put("sbull_devices")>>, "out"),
         In("sbull", c), Runs("sbull", c)
  PROVE  SbullInv' /\ Stays("sbull")
<1> DEFINE i == I("sbull")
<1>0. Label("sbull") = "free" /\ i = 1 /\ Line("sbull") \in 1..2
      /\ status["sbull"] \in {"loading", "unloading"} /\ NDevs \in Nat \ {0}
  BY NDevsAssumption DEF In, Running, Block, Loop, Again, SbullInv, SbullPlace
<1>1. CASE Line("sbull") = 1
  <2>1. /\ Now("sbull", c) = Put("sbull_major")
        /\ Target("sbull", c, "next") = <<"free", i, 2>>
    BY <1>0, <1>1 DEF Now, Block, Loop, Again, Target, After
  <2>2. /\ held'["sbull_major"] = held["sbull_major"] \ {i}
        /\ Others({"sbull_major"}) /\ stray' = stray \cup Strays("sbull_major", i)
        /\ Moves("sbull", <<"free", i, 2>>)
    BY <2>1, PutOne, SbullKinds DEF Frees
  <2>3. SbullInv'
    BY <1>0, <1>1, <2>2, SbullKinds DEF SbullInv, SbullPlace, SbullGone, SbullThere, SbullOwned,
       None, Had, Site, Upto, Since, Careful, Moves, Others, Strays
  <2>4. Careful => stray' = stray
    BY <1>0, <1>1, <2>2, SbullKinds DEF SbullInv, SbullPlace, SbullOwned, None, Had, Site, Upto,
       Since, Careful, Others, Strays
  <2> QED BY <2>2, SbullKinds, <2>3, <2>4 DEF Stays, Moves, Others, Strays
<1>2. CASE Line("sbull") = 2
  <2>1. /\ Now("sbull", c) = Put("sbull_devices")
        /\ Target("sbull", c, "next") = <<"out", i, 1>>
    BY <1>0, <1>2 DEF Now, Block, Loop, Again, Target, After
  <2>2. /\ held'["sbull_devices"] = held["sbull_devices"] \ {i} /\ held'["sbull_timer"] = {}
        /\ Others({"sbull_devices", "sbull_timer"}) /\ stray' = stray \cup Strays("sbull_devices", i)
        /\ Moves("sbull", <<"out", i, 1>>)
    <3>1. TakesAll("sbull_devices", "sbull_timer")
      BY DEF TakesAll, InAll
    <3>2. /\ "sbull" \in Modules /\ "sbull_devices" \in AllKinds /\ "sbull_timer" \in AllKinds
          /\ Lets("sbull", c, "sbull_devices")
      BY <2>1, SbullKinds DEF Lets
    <3>3. /\ held'["sbull_devices"] = held["sbull_devices"] \ {i} /\ held'["sbull_timer"] = {}
          /\ Others({"sbull_devices", "sbull_timer"}) /\ Frees(Now("sbull", c), "sbull_devices", i)
          /\ Moves("sbull", Target("sbull", c, "next"))
      BY <3>1, <3>2, PutWithAll
    <3> QED BY <2>1, <3>3 DEF Frees
  <2>3. SbullInv'
    BY <1>0, <1>2, <2>2, SbullKinds DEF SbullInv, SbullPlace, SbullGone, SbullThere, SbullOwned,
       None, Had, Site, Upto, Since, Careful, Moves, Others, Strays
  <2>4. Careful => stray' = stray
    BY <1>0, <1>2, <2>2, SbullKinds DEF SbullInv, SbullPlace, SbullOwned, None, Had, Site, Upto,
       Since, Careful, Others, Strays
  <2> QED BY <2>2, SbullKinds, <2>3, <2>4 DEF Stays, Moves, Others, Strays
<1> QED BY <1>0, <1>1, <1>2

LEMMA SbullRuns ==
  ASSUME LoadTypeOK, SbullInv, NEW c \in Code("sbull"), In("sbull", c), Runs("sbull", c)
  PROVE  SbullInv' /\ Stays("sbull")
<1>1. \/ "sbull_major" \notin plan /\ c = Block("init", <<GetOr("sbull_major", "out"), GetOr("sbull_devices", "out_unregister")>>, "setup")
      \/ "sbull_major" \in plan /\ c = Block("init", <<Get("sbull_major")>>, "out")
      \/ c = Block("out_unregister", <<Put("sbull_major")>>, "out")
      \/ c = Loop(NDevs, "setup",
                  <<GetOr("sbull_data", "end"), Set("sbull_timer"), GetOr("sbull_queue", "out_vfree"),
                    GetOr("sbull_gd", "out_vfree"), Set("sbull_disk")>>, "live")
      \/ c = Again("setup", NDevs, "out_vfree", <<Put("sbull_data")>>, "live")
      \/ c = Block("exit",
                   <<Use("sbull_timer"), IfNull("sbull_gd", "end"), Put("sbull_disk"), Put("sbull_gd")>>,
                   "queue")
      \/ c = Block("queue", <<IfNull("sbull_queue", "end"), Put("sbull_queue")>>, "data")
      \/ c = Again("exit", NDevs, "data", <<IfNull("sbull_data", "end"), Put("sbull_data")>>, "free")
      \/ c = Block("free", <<Put("sbull_major"), Put("sbull_devices")>>, "out")
  BY DEF Code, SbullInit, SbullMajor, SbullSetup, SbullExit
<1> QED BY <1>1, SbullAtInit, SbullAtInitGiven, SbullAtOutUnregister, SbullAtSetup, SbullAtOutVfree,
           SbullAtExit, SbullAtQueue, SbullAtData, SbullAtFree

LEMMA SbullTurns ==
  ASSUME LoadTypeOK, SbullInv, Rests("sbull") \/ Starts("sbull") \/ Stops("sbull") \/ Ends("sbull")
  PROVE  SbullInv'
<1>1. NDevs \in Nat \ {0} /\ (~Running("sbull") => Label("sbull") = status["sbull"])
  BY NDevsAssumption, SbullKinds DEF LoadTypeOK
<1>2. CASE Rests("sbull")
  <2>1. SbullPlace'
    BY <1>1, <1>2, SbullKinds DEF Rests, Label, I, Line, SbullInv, SbullPlace
  <2>2. SbullGone'
    BY <1>1, <1>2, SbullKinds DEF Rests, Label, I, Line, SbullInv, SbullPlace, SbullGone,
       SbullThere, None, Had, Site, Upto, Since, Careful
  <2>3. SbullThere'
    BY <1>1, <1>2, SbullKinds DEF Rests, Label, I, Line, SbullInv, SbullPlace, SbullGone,
       SbullThere, None, Had, Site, Upto, Since, Careful
  <2>4. Careful => SbullOwned'
    BY <1>1, <1>2, SbullKinds DEF Rests, Label, I, Line, SbullInv, SbullPlace, SbullGone,
       SbullThere, SbullOwned, None, Had, Site, Upto, Since, Careful
  <2> QED BY <2>1, <2>2, <2>3, <2>4 DEF SbullInv
<1>3. CASE Starts("sbull")
  <2>1. SbullPlace'
    BY <1>1, <1>3, SbullKinds DEF Starts, Running, Label, I, Line, SbullInv, SbullPlace
  <2>2. SbullGone'
    BY <1>1, <1>3, SbullKinds DEF Starts, Running, Label, I, Line, SbullInv, SbullPlace, SbullGone,
       SbullThere, None, Had, Site, Upto, Since, Careful
  <2>3. SbullThere'
    BY <1>1, <1>3, SbullKinds DEF Starts, Running, Label, I, Line, SbullInv, SbullPlace, SbullGone,
       SbullThere, None, Had, Site, Upto, Since, Careful
  <2>4. Careful => SbullOwned'
    BY <1>1, <1>3, SbullKinds DEF Starts, Running, Label, I, Line, SbullInv, SbullPlace, SbullGone,
       SbullThere, SbullOwned, None, Had, Site, Upto, Since, Careful
  <2> QED BY <2>1, <2>2, <2>3, <2>4 DEF SbullInv
<1>4. CASE Stops("sbull")
  <2>1. SbullPlace'
    BY <1>1, <1>4, SbullKinds DEF Stops, Running, Label, I, Line, SbullInv, SbullPlace
  <2>2. SbullGone'
    BY <1>1, <1>4, SbullKinds DEF Stops, Running, Label, I, Line, SbullInv, SbullPlace, SbullGone,
       SbullThere, None, Had, Site, Upto, Since, Careful
  <2>3. SbullThere'
    BY <1>1, <1>4, SbullKinds DEF Stops, Running, Label, I, Line, SbullInv, SbullPlace, SbullGone,
       SbullThere, None, Had, Site, Upto, Since, Careful
  <2>4. Careful => SbullOwned'
    BY <1>1, <1>4, SbullKinds DEF Stops, Running, Label, I, Line, SbullInv, SbullPlace, SbullGone,
       SbullThere, SbullOwned, None, Had, Site, Upto, Since, Careful
  <2> QED BY <2>1, <2>2, <2>3, <2>4 DEF SbullInv
<1>5. CASE Ends("sbull")
  <2>1. SbullPlace'
    BY <1>1, <1>5, SbullKinds DEF Ends, Running, Label, I, Line, SbullInv, SbullPlace
  <2>2. SbullGone'
    BY <1>1, <1>5, SbullKinds DEF Ends, Running, Label, I, Line, SbullInv, SbullPlace, SbullGone,
       SbullThere, None, Had, Site, Upto, Since, Careful
  <2>3. SbullThere'
    BY <1>1, <1>5, SbullKinds DEF Ends, Running, Label, I, Line, SbullInv, SbullPlace, SbullGone,
       SbullThere, None, Had, Site, Upto, Since, Careful
  <2>4. Careful => SbullOwned'
    BY <1>1, <1>5, SbullKinds DEF Ends, Running, Label, I, Line, SbullInv, SbullPlace, SbullGone,
       SbullThere, SbullOwned, None, Had, Site, Upto, Since, Careful
  <2> QED BY <2>1, <2>2, <2>3, <2>4 DEF SbullInv
<1> QED BY <1>2, <1>3, <1>4, <1>5
-----------------------------------------------------------------------------
(* snull *)

LEMMA SnullKinds ==
  /\ Kinds("snull") = {"snull_dev", "snull_lock", "snull_pool", "snull_reg"}
  /\ Kinds("snull") \subseteq AllKinds /\ "snull" \in Modules
  /\ Nodes("snull") = {}
BY DEF Kinds, AllKinds, Modules, Nodes

LEMMA SnullAtInit ==
  ASSUME LoadTypeOK, SnullInv, NEW c, c = Loop(2, "init", SnullAlloc, "check"),
         In("snull", c), Runs("snull", c)
  PROVE  SnullInv' /\ Stays("snull")
<1> DEFINE i == I("snull")
<1>0. Label("snull") = "init" /\ i \in 1..2 /\ Line("snull") \in 1..3
      /\ status["snull"] \in {"loading", "unloading"} /\ NDevs \in Nat \ {0}
  BY NDevsAssumption DEF In, Running, Block, Loop, Again, SnullInv, SnullPlace
<1>1. CASE Line("snull") = 1
  <2>1. /\ Now("snull", c) = GetOr("snull_dev", "end")
        /\ Target("snull", c, "next") = <<"init", i, 2>>
        /\ Target("snull", c, "end") = (IF i < 2 THEN <<"init", i + 1, 1>> ELSE <<"check", 1, 1>>)
    BY <1>0, <1>1 DEF Now, Block, Loop, Again, Target, After, SnullAlloc
  <2>2. \/ Gets("snull_dev", i) /\ Moves("snull", <<"init", i, 2>>)
        \/ "snull_dev" \in MayFail /\ Same /\ Moves("snull", (IF i < 2 THEN <<"init", i + 1, 1>> ELSE <<"check", 1, 1>>))
    BY <2>1, GetOrStep, SnullKinds
  <2>3. CASE Gets("snull_dev", i) /\ Moves("snull", <<"init", i, 2>>)
    <3>1. SnullInv'
      BY <1>0, <1>1, <2>3, SnullKinds DEF SnullInv, SnullPlace, SnullGone, SnullThere, SnullOwned,
         None, Had, Site, Upto, Since, Careful, Moves, Gets, Leaves
    <3> QED BY <2>3, SnullKinds, <3>1 DEF Stays, Moves, Gets, Leaves
  <2>4. CASE "snull_dev" \in MayFail /\ Same /\ Moves("snull", (IF i < 2 THEN <<"init", i + 1, 1>> ELSE <<"check", 1, 1>>))
    <3>1. SnullInv'
      BY <1>0, <1>1, <2>4, SnullKinds DEF SnullInv, SnullPlace, SnullGone, SnullThere, SnullOwned,
         None, Had, Site, Upto, Since, Careful, Moves, Same
    <3> QED BY <2>4, SnullKinds, <3>1 DEF Stays, Moves, Same
  <2> QED BY <2>2, <2>3, <2>4
<1>2. CASE Line("snull") = 2
  <2>1. /\ Now("snull", c) = Set("snull_lock")
        /\ Target("snull", c, "next") = <<"init", i, 3>>
    BY <1>0, <1>2 DEF Now, Block, Loop, Again, Target, After, SnullAlloc
  <2>2. /\ Gets("snull_lock", i)
        /\ Moves("snull", <<"init", i, 3>>)
    BY <2>1, SetStep, SnullKinds
  <2>3. SnullInv'
    BY <1>0, <1>2, <2>2, SnullKinds DEF SnullInv, SnullPlace, SnullGone, SnullThere, SnullOwned,
       None, Had, Site, Upto, Since, Careful, Moves, Gets, Leaves
  <2> QED BY <2>2, SnullKinds, <2>3 DEF Stays, Moves, Gets, Leaves
<1>3. CASE Line("snull") = 3
  <2>1. /\ Now("snull", c) = Set("snull_pool")
        /\ Target("snull", c, "next") = (IF i < 2 THEN <<"init", i + 1, 1>> ELSE <<"check", 1, 1>>)
    BY <1>0, <1>3 DEF Now, Block, Loop, Again, Target, After, SnullAlloc
  <2>2. /\ Gets("snull_pool", i)
        /\ Moves("snull", (IF i < 2 THEN <<"init", i + 1, 1>> ELSE <<"check", 1, 1>>))
    BY <2>1, SetStep, SnullKinds
  <2>3. SnullInv'
    BY <1>0, <1>3, <2>2, SnullKinds DEF SnullInv, SnullPlace, SnullGone, SnullThere, SnullOwned,
       None, Had, Site, Upto, Since, Careful, Moves, Gets, Leaves
  <2> QED BY <2>2, SnullKinds, <2>3 DEF Stays, Moves, Gets, Leaves
<1> QED BY <1>0, <1>1, <1>2, <1>3

LEMMA SnullAtCheck ==
  ASSUME LoadTypeOK, SnullInv, NEW c, c = Block("check", <<IfLack("snull_dev", "exit")>>, "register"),
         In("snull", c), Runs("snull", c)
  PROVE  SnullInv' /\ Stays("snull")
<1> DEFINE i == I("snull")
<1>0. Label("snull") = "check" /\ i = 1 /\ Line("snull") \in 1..1
      /\ status["snull"] \in {"loading", "unloading"} /\ NDevs \in Nat \ {0}
  BY NDevsAssumption DEF In, Running, Block, Loop, Again, SnullInv, SnullPlace
<1>1. CASE Line("snull") = 1
  <2>1. /\ Now("snull", c) = IfLack("snull_dev", "exit")
        /\ Target("snull", c, "next") = <<"register", i, 1>>
        /\ Target("snull", c, "exit") = <<"exit", i, 1>>
    BY <1>0, <1>1 DEF Now, Block, Loop, Again, Target, After
  <2>2. /\ Same
        /\ IF {1, 2} \subseteq pointer["snull_dev"] THEN Moves("snull", <<"register", i, 1>>)
           ELSE Moves("snull", <<"exit", i, 1>>)
    BY <2>1, TestStep, SnullKinds DEF Holds, IfLack, Step
  <2>3. CASE {1, 2} \subseteq pointer["snull_dev"]
    <3>1. SnullInv'
      BY <1>0, <1>1, <2>2, <2>3, SnullKinds DEF SnullInv, SnullPlace, SnullGone, SnullThere,
         SnullOwned, None, Had, Site, Upto, Since, Careful, Moves, Same
    <3> QED BY <2>2, <2>3, SnullKinds, <3>1 DEF Stays, Moves, Same
  <2>4. CASE ~({1, 2} \subseteq pointer["snull_dev"])
    <3>1. SnullInv'
      BY <1>0, <1>1, <2>2, <2>4, SnullKinds DEF SnullInv, SnullPlace, SnullGone, SnullThere,
         SnullOwned, None, Had, Site, Upto, Since, Careful, Moves, Same
    <3> QED BY <2>2, <2>4, SnullKinds, <3>1 DEF Stays, Moves, Same
  <2> QED BY <2>3, <2>4
<1> QED BY <1>0, <1>1

LEMMA SnullAtRegister ==
  ASSUME LoadTypeOK, SnullInv, NEW c, c = Loop(2, "register", <<Get("snull_reg")>>, "ret"),
         In("snull", c), Runs("snull", c)
  PROVE  SnullInv' /\ Stays("snull")
<1> DEFINE i == I("snull")
<1>0. Label("snull") = "register" /\ i \in 1..2 /\ Line("snull") \in 1..1
      /\ status["snull"] \in {"loading", "unloading"} /\ NDevs \in Nat \ {0}
  BY NDevsAssumption DEF In, Running, Block, Loop, Again, SnullInv, SnullPlace
<1>1. CASE Line("snull") = 1
  <2>1. /\ Now("snull", c) = Get("snull_reg")
        /\ Target("snull", c, "next") = (IF i < 2 THEN <<"register", i + 1, 1>> ELSE <<"ret", 1, 1>>)
    BY <1>0, <1>1 DEF Now, Block, Loop, Again, Target, After
  <2>2. /\ Gets("snull_reg", i) \/ ("snull_reg" \in MayFail /\ Same)
        /\ Moves("snull", (IF i < 2 THEN <<"register", i + 1, 1>> ELSE <<"ret", 1, 1>>))
    BY <2>1, GetStep, SnullKinds
  <2>3. SnullInv'
    BY <1>0, <1>1, <2>2, SnullKinds DEF SnullInv, SnullPlace, SnullGone, SnullThere, SnullOwned,
       None, Had, Site, Upto, Since, Careful, Moves, Gets, Leaves, Same
  <2> QED BY <2>2, SnullKinds, <2>3 DEF Stays, Moves, Gets, Leaves, Same
<1> QED BY <1>0, <1>1

LEMMA SnullAtRet ==
  ASSUME LoadTypeOK, SnullInv, NEW c, c = Block("ret", <<IfNone("snull_reg", "exit")>>, "live"),
         In("snull", c), Runs("snull", c)
  PROVE  SnullInv' /\ Stays("snull")
<1> DEFINE i == I("snull")
<1>0. Label("snull") = "ret" /\ i = 1 /\ Line("snull") \in 1..1
      /\ status["snull"] \in {"loading", "unloading"} /\ NDevs \in Nat \ {0}
  BY NDevsAssumption DEF In, Running, Block, Loop, Again, SnullInv, SnullPlace
<1>1. CASE Line("snull") = 1
  <2>1. /\ Now("snull", c) = IfNone("snull_reg", "exit")
        /\ Target("snull", c, "next") = <<"live", i, 1>>
        /\ Target("snull", c, "exit") = <<"exit", i, 1>>
    BY <1>0, <1>1 DEF Now, Block, Loop, Again, Target, After
  <2>2. /\ Same
        /\ IF {1, 2} \cap pointer["snull_reg"] # {} THEN Moves("snull", <<"live", i, 1>>)
           ELSE Moves("snull", <<"exit", i, 1>>)
    BY <2>1, TestStep, SnullKinds DEF Holds, IfNone, Step
  <2>3. CASE {1, 2} \cap pointer["snull_reg"] # {}
    <3>1. SnullInv'
      BY <1>0, <1>1, <2>2, <2>3, SnullKinds DEF SnullInv, SnullPlace, SnullGone, SnullThere,
         SnullOwned, None, Had, Site, Upto, Since, Careful, Moves, Same
    <3> QED BY <2>2, <2>3, SnullKinds, <3>1 DEF Stays, Moves, Same
  <2>4. CASE ~({1, 2} \cap pointer["snull_reg"] # {})
    <3>1. SnullInv'
      BY <1>0, <1>1, <2>2, <2>4, SnullKinds DEF SnullInv, SnullPlace, SnullGone, SnullThere,
         SnullOwned, None, Had, Site, Upto, Since, Careful, Moves, Same
    <3> QED BY <2>2, <2>4, SnullKinds, <3>1 DEF Stays, Moves, Same
  <2> QED BY <2>3, <2>4
<1> QED BY <1>0, <1>1

LEMMA SnullAtExit ==
  ASSUME LoadTypeOK, SnullInv, NEW c, c = Loop(2, "exit",
                  <<IfNull("snull_dev", "end"), Put("snull_reg"), Put("snull_pool"), Put("snull_dev")>>,
                  "out"),
         In("snull", c), Runs("snull", c)
  PROVE  SnullInv' /\ Stays("snull")
<1> DEFINE i == I("snull")
<1>0. Label("snull") = "exit" /\ i \in 1..2 /\ Line("snull") \in 1..4
      /\ status["snull"] \in {"loading", "unloading"} /\ NDevs \in Nat \ {0}
  BY NDevsAssumption DEF In, Running, Block, Loop, Again, SnullInv, SnullPlace
<1>1. CASE Line("snull") = 1
  <2>1. /\ Now("snull", c) = IfNull("snull_dev", "end")
        /\ Target("snull", c, "next") = <<"exit", i, 2>>
        /\ Target("snull", c, "end") = (IF i < 2 THEN <<"exit", i + 1, 1>> ELSE <<"out", 1, 1>>)
    BY <1>0, <1>1 DEF Now, Block, Loop, Again, Target, After
  <2>2. /\ Same
        /\ IF i \in pointer["snull_dev"] THEN Moves("snull", <<"exit", i, 2>>)
           ELSE Moves("snull", (IF i < 2 THEN <<"exit", i + 1, 1>> ELSE <<"out", 1, 1>>))
    BY <2>1, TestStep, SnullKinds DEF Holds, IfNull, Step
  <2>3. CASE i \in pointer["snull_dev"]
    <3>1. SnullInv'
      BY <1>0, <1>1, <2>2, <2>3, SnullKinds DEF SnullInv, SnullPlace, SnullGone, SnullThere,
         SnullOwned, None, Had, Site, Upto, Since, Careful, Moves, Same
    <3> QED BY <2>2, <2>3, SnullKinds, <3>1 DEF Stays, Moves, Same
  <2>4. CASE ~(i \in pointer["snull_dev"])
    <3>1. SnullInv'
      BY <1>0, <1>1, <2>2, <2>4, SnullKinds DEF SnullInv, SnullPlace, SnullGone, SnullThere,
         SnullOwned, None, Had, Site, Upto, Since, Careful, Moves, Same
    <3> QED BY <2>2, <2>4, SnullKinds, <3>1 DEF Stays, Moves, Same
  <2> QED BY <2>3, <2>4
<1>2. CASE Line("snull") = 2
  <2>1. /\ Now("snull", c) = Put("snull_reg")
        /\ Target("snull", c, "next") = <<"exit", i, 3>>
    BY <1>0, <1>2 DEF Now, Block, Loop, Again, Target, After
  <2>2. /\ held'["snull_reg"] = held["snull_reg"] \ {i}
        /\ Others({"snull_reg"}) /\ stray' = stray \cup Strays("snull_reg", i)
        /\ Moves("snull", <<"exit", i, 3>>)
    BY <2>1, PutOne, SnullKinds DEF Frees
  <2>3. SnullInv'
    BY <1>0, <1>2, <2>2, SnullKinds DEF SnullInv, SnullPlace, SnullGone, SnullThere, SnullOwned,
       None, Had, Site, Upto, Since, Careful, Moves, Others, Strays
  <2>4. Careful => stray' = stray
    BY <1>0, <1>2, <2>2, SnullKinds DEF SnullInv, SnullPlace, SnullOwned, None, Had, Site, Upto,
       Since, Careful, Others, Strays
  <2> QED BY <2>2, SnullKinds, <2>3, <2>4 DEF Stays, Moves, Others, Strays
<1>3. CASE Line("snull") = 3
  <2>1. /\ Now("snull", c) = Put("snull_pool")
        /\ Target("snull", c, "next") = <<"exit", i, 4>>
    BY <1>0, <1>3 DEF Now, Block, Loop, Again, Target, After
  <2>2. /\ held'["snull_pool"] = held["snull_pool"] \ {i}
        /\ Others({"snull_pool"}) /\ stray' = stray \cup Strays("snull_pool", i)
        /\ Moves("snull", <<"exit", i, 4>>)
    BY <2>1, PutOne, SnullKinds DEF Frees
  <2>3. SnullInv'
    BY <1>0, <1>3, <2>2, SnullKinds DEF SnullInv, SnullPlace, SnullGone, SnullThere, SnullOwned,
       None, Had, Site, Upto, Since, Careful, Moves, Others, Strays
  <2>4. Careful => stray' = stray
    BY <1>0, <1>3, <2>2, SnullKinds DEF SnullInv, SnullPlace, SnullOwned, None, Had, Site, Upto,
       Since, Careful, Others, Strays
  <2> QED BY <2>2, SnullKinds, <2>3, <2>4 DEF Stays, Moves, Others, Strays
<1>4. CASE Line("snull") = 4
  <2>1. /\ Now("snull", c) = Put("snull_dev")
        /\ Target("snull", c, "next") = (IF i < 2 THEN <<"exit", i + 1, 1>> ELSE <<"out", 1, 1>>)
    BY <1>0, <1>4 DEF Now, Block, Loop, Again, Target, After
  <2>2. /\ held'["snull_dev"] = held["snull_dev"] \ {i} /\ held'["snull_lock"] = held["snull_lock"] \ {i}
        /\ Others({"snull_dev", "snull_lock"}) /\ stray' = stray \cup Strays("snull_dev", i)
        /\ Moves("snull", (IF i < 2 THEN <<"exit", i + 1, 1>> ELSE <<"out", 1, 1>>))
    <3>1. TakesOne("snull_dev", "snull_lock")
      BY DEF TakesOne, InOne
    <3>2. /\ "snull" \in Modules /\ "snull_dev" \in AllKinds /\ "snull_lock" \in AllKinds
          /\ Lets("snull", c, "snull_dev")
      BY <2>1, SnullKinds DEF Lets
    <3>3. /\ held'["snull_dev"] = held["snull_dev"] \ {i} /\ held'["snull_lock"] = held["snull_lock"] \ {i}
          /\ Others({"snull_dev", "snull_lock"}) /\ Frees(Now("snull", c), "snull_dev", i)
          /\ Moves("snull", Target("snull", c, "next"))
      BY <3>1, <3>2, PutWithOne
    <3> QED BY <2>1, <3>3 DEF Frees
  <2>3. SnullInv'
    BY <1>0, <1>4, <2>2, SnullKinds DEF SnullInv, SnullPlace, SnullGone, SnullThere, SnullOwned,
       None, Had, Site, Upto, Since, Careful, Moves, Others, Strays
  <2>4. Careful => stray' = stray
    BY <1>0, <1>4, <2>2, SnullKinds DEF SnullInv, SnullPlace, SnullOwned, None, Had, Site, Upto,
       Since, Careful, Others, Strays
  <2> QED BY <2>2, SnullKinds, <2>3, <2>4 DEF Stays, Moves, Others, Strays
<1> QED BY <1>0, <1>1, <1>2, <1>3, <1>4

LEMMA SnullRuns ==
  ASSUME LoadTypeOK, SnullInv, NEW c \in Code("snull"), In("snull", c), Runs("snull", c)
  PROVE  SnullInv' /\ Stays("snull")
<1>1. \/ c = Loop(2, "init", SnullAlloc, "check")
      \/ c = Block("check", <<IfLack("snull_dev", "exit")>>, "register")
      \/ c = Loop(2, "register", <<Get("snull_reg")>>, "ret")
      \/ c = Block("ret", <<IfNone("snull_reg", "exit")>>, "live")
      \/ c = Loop(2, "exit",
                  <<IfNull("snull_dev", "end"), Put("snull_reg"), Put("snull_pool"), Put("snull_dev")>>,
                  "out")
  BY DEF Code, SnullInit, SnullCleanup
<1> QED BY <1>1, SnullAtInit, SnullAtCheck, SnullAtRegister, SnullAtRet, SnullAtExit

LEMMA SnullTurns ==
  ASSUME LoadTypeOK, SnullInv, Rests("snull") \/ Starts("snull") \/ Stops("snull") \/ Ends("snull")
  PROVE  SnullInv'
<1>1. NDevs \in Nat \ {0} /\ (~Running("snull") => Label("snull") = status["snull"])
  BY NDevsAssumption, SnullKinds DEF LoadTypeOK
<1>2. CASE Rests("snull")
  <2>1. SnullPlace'
    BY <1>1, <1>2, SnullKinds DEF Rests, Label, I, Line, SnullInv, SnullPlace
  <2>2. SnullGone'
    BY <1>1, <1>2, SnullKinds DEF Rests, Label, I, Line, SnullInv, SnullPlace, SnullGone,
       SnullThere, None, Had, Site, Upto, Since, Careful
  <2>3. SnullThere'
    BY <1>1, <1>2, SnullKinds DEF Rests, Label, I, Line, SnullInv, SnullPlace, SnullGone,
       SnullThere, None, Had, Site, Upto, Since, Careful
  <2>4. Careful => SnullOwned'
    BY <1>1, <1>2, SnullKinds DEF Rests, Label, I, Line, SnullInv, SnullPlace, SnullGone,
       SnullThere, SnullOwned, None, Had, Site, Upto, Since, Careful
  <2> QED BY <2>1, <2>2, <2>3, <2>4 DEF SnullInv
<1>3. CASE Starts("snull")
  <2>1. SnullPlace'
    BY <1>1, <1>3, SnullKinds DEF Starts, Running, Label, I, Line, SnullInv, SnullPlace
  <2>2. SnullGone'
    BY <1>1, <1>3, SnullKinds DEF Starts, Running, Label, I, Line, SnullInv, SnullPlace, SnullGone,
       SnullThere, None, Had, Site, Upto, Since, Careful
  <2>3. SnullThere'
    BY <1>1, <1>3, SnullKinds DEF Starts, Running, Label, I, Line, SnullInv, SnullPlace, SnullGone,
       SnullThere, None, Had, Site, Upto, Since, Careful
  <2>4. Careful => SnullOwned'
    BY <1>1, <1>3, SnullKinds DEF Starts, Running, Label, I, Line, SnullInv, SnullPlace, SnullGone,
       SnullThere, SnullOwned, None, Had, Site, Upto, Since, Careful
  <2> QED BY <2>1, <2>2, <2>3, <2>4 DEF SnullInv
<1>4. CASE Stops("snull")
  <2>1. SnullPlace'
    BY <1>1, <1>4, SnullKinds DEF Stops, Running, Label, I, Line, SnullInv, SnullPlace
  <2>2. SnullGone'
    BY <1>1, <1>4, SnullKinds DEF Stops, Running, Label, I, Line, SnullInv, SnullPlace, SnullGone,
       SnullThere, None, Had, Site, Upto, Since, Careful
  <2>3. SnullThere'
    BY <1>1, <1>4, SnullKinds DEF Stops, Running, Label, I, Line, SnullInv, SnullPlace, SnullGone,
       SnullThere, None, Had, Site, Upto, Since, Careful
  <2>4. Careful => SnullOwned'
    BY <1>1, <1>4, SnullKinds DEF Stops, Running, Label, I, Line, SnullInv, SnullPlace, SnullGone,
       SnullThere, SnullOwned, None, Had, Site, Upto, Since, Careful
  <2> QED BY <2>1, <2>2, <2>3, <2>4 DEF SnullInv
<1>5. CASE Ends("snull")
  <2>1. SnullPlace'
    BY <1>1, <1>5, SnullKinds DEF Ends, Running, Label, I, Line, SnullInv, SnullPlace
  <2>2. SnullGone'
    BY <1>1, <1>5, SnullKinds DEF Ends, Running, Label, I, Line, SnullInv, SnullPlace, SnullGone,
       SnullThere, None, Had, Site, Upto, Since, Careful
  <2>3. SnullThere'
    BY <1>1, <1>5, SnullKinds DEF Ends, Running, Label, I, Line, SnullInv, SnullPlace, SnullGone,
       SnullThere, None, Had, Site, Upto, Since, Careful
  <2>4. Careful => SnullOwned'
    BY <1>1, <1>5, SnullKinds DEF Ends, Running, Label, I, Line, SnullInv, SnullPlace, SnullGone,
       SnullThere, SnullOwned, None, Had, Site, Upto, Since, Careful
  <2> QED BY <2>1, <2>2, <2>3, <2>4 DEF SnullInv
<1> QED BY <1>2, <1>3, <1>4, <1>5
-----------------------------------------------------------------------------
(* tiny_tty *)

LEMMA TinyKinds ==
  /\ Kinds("tiny_tty") = {"tiny_driver", "tiny_reg", "tiny_device"}
  /\ Kinds("tiny_tty") \subseteq AllKinds /\ "tiny_tty" \in Modules
  /\ Nodes("tiny_tty") = {"tiny_reg"}
BY DEF Kinds, AllKinds, Modules, Nodes

LEMMA TinyAtInit ==
  ASSUME LoadTypeOK, TinyInv, NEW c, c = Block("init", <<GetOr("tiny_driver", "out"), GetOr("tiny_reg", "put")>>, "devices"),
         In("tiny_tty", c), Runs("tiny_tty", c)
  PROVE  TinyInv' /\ Stays("tiny_tty")
<1> DEFINE i == I("tiny_tty")
<1>0. Label("tiny_tty") = "init" /\ i = 1 /\ Line("tiny_tty") \in 1..2
      /\ status["tiny_tty"] \in {"loading", "unloading"} /\ NDevs \in Nat \ {0}
  BY NDevsAssumption DEF In, Running, Block, Loop, Again, TinyInv
<1>1. CASE Line("tiny_tty") = 1
  <2>1. /\ Now("tiny_tty", c) = GetOr("tiny_driver", "out")
        /\ Target("tiny_tty", c, "next") = <<"init", i, 2>>
        /\ Target("tiny_tty", c, "out") = <<"out", i, 1>>
    BY <1>0, <1>1 DEF Now, Block, Loop, Again, Target, After
  <2>2. \/ Gets("tiny_driver", i) /\ Moves("tiny_tty", <<"init", i, 2>>)
        \/ "tiny_driver" \in MayFail /\ Same /\ Moves("tiny_tty", <<"out", i, 1>>)
    BY <2>1, GetOrStep, TinyKinds
  <2>3. CASE Gets("tiny_driver", i) /\ Moves("tiny_tty", <<"init", i, 2>>)
    <3>1. TinyInv'
      BY <1>0, <1>1, <2>3, TinyKinds DEF TinyInv, None, Had, Site, Upto, Since, Careful, Moves,
         Gets, Leaves
    <3> QED BY <2>3, TinyKinds, <3>1 DEF Stays, Moves, Gets, Leaves
  <2>4. CASE "tiny_driver" \in MayFail /\ Same /\ Moves("tiny_tty", <<"out", i, 1>>)
    <3>1. TinyInv'
      BY <1>0, <1>1, <2>4, TinyKinds DEF TinyInv, None, Had, Site, Upto, Since, Careful, Moves, Same
    <3> QED BY <2>4, TinyKinds, <3>1 DEF Stays, Moves, Same
  <2> QED BY <2>2, <2>3, <2>4
<1>2. CASE Line("tiny_tty") = 2
  <2>1. /\ Now("tiny_tty", c) = GetOr("tiny_reg", "put")
        /\ Target("tiny_tty", c, "next") = <<"devices", i, 1>>
        /\ Target("tiny_tty", c, "put") = <<"put", i, 1>>
    BY <1>0, <1>2 DEF Now, Block, Loop, Again, Target, After
  <2>2. \/ Gets("tiny_reg", i) /\ Moves("tiny_tty", <<"devices", i, 1>>)
        \/ "tiny_reg" \in MayFail /\ Same /\ Moves("tiny_tty", <<"put", i, 1>>)
    BY <2>1, GetOrStep, TinyKinds
  <2>3. CASE Gets("tiny_reg", i) /\ Moves("tiny_tty", <<"devices", i, 1>>)
    <3>1. TinyInv'
      BY <1>0, <1>2, <2>3, TinyKinds DEF TinyInv, None, Had, Site, Upto, Since, Careful, Moves,
         Gets, Leaves
    <3> QED BY <2>3, TinyKinds, <3>1 DEF Stays, Moves, Gets, Leaves
  <2>4. CASE "tiny_reg" \in MayFail /\ Same /\ Moves("tiny_tty", <<"put", i, 1>>)
    <3>1. TinyInv'
      BY <1>0, <1>2, <2>4, TinyKinds DEF TinyInv, None, Had, Site, Upto, Since, Careful, Moves, Same
    <3> QED BY <2>4, TinyKinds, <3>1 DEF Stays, Moves, Same
  <2> QED BY <2>2, <2>3, <2>4
<1> QED BY <1>0, <1>1, <1>2

LEMMA TinyAtDevices ==
  ASSUME LoadTypeOK, TinyInv, NEW c, c = Loop(NDevs, "devices", <<Get("tiny_device")>>, "live"),
         In("tiny_tty", c), Runs("tiny_tty", c)
  PROVE  TinyInv' /\ Stays("tiny_tty")
<1> DEFINE i == I("tiny_tty")
<1>0. Label("tiny_tty") = "devices" /\ i \in 1..NDevs /\ Line("tiny_tty") \in 1..1
      /\ status["tiny_tty"] \in {"loading", "unloading"} /\ NDevs \in Nat \ {0}
  BY NDevsAssumption DEF In, Running, Block, Loop, Again, TinyInv
<1>1. CASE Line("tiny_tty") = 1
  <2>1. /\ Now("tiny_tty", c) = Get("tiny_device")
        /\ Target("tiny_tty", c, "next") = (IF i < NDevs THEN <<"devices", i + 1, 1>> ELSE <<"live", 1, 1>>)
    BY <1>0, <1>1 DEF Now, Block, Loop, Again, Target, After
  <2>2. /\ Gets("tiny_device", i) \/ ("tiny_device" \in MayFail /\ Same)
        /\ Moves("tiny_tty", (IF i < NDevs THEN <<"devices", i + 1, 1>> ELSE <<"live", 1, 1>>))
    BY <2>1, GetStep, TinyKinds
  <2>3. TinyInv'
    BY <1>0, <1>1, <2>2, TinyKinds DEF TinyInv, None, Had, Site, Upto, Since, Careful, Moves, Gets,
       Leaves, Same
  <2> QED BY <2>2, TinyKinds, <2>3 DEF Stays, Moves, Gets, Leaves, Same
<1> QED BY <1>0, <1>1

LEMMA TinyAtPut ==
  ASSUME LoadTypeOK, TinyInv, NEW c, c = Block("put", <<Put("tiny_driver")>>, "out"),
         In("tiny_tty", c), Runs("tiny_tty", c)
  PROVE  TinyInv' /\ Stays("tiny_tty")
<1> DEFINE i == I("tiny_tty")
<1>0. Label("tiny_tty") = "put" /\ i = 1 /\ Line("tiny_tty") \in 1..1
      /\ status["tiny_tty"] \in {"loading", "unloading"} /\ NDevs \in Nat \ {0}
  BY NDevsAssumption DEF In, Running, Block, Loop, Again, TinyInv
<1>1. CASE Line("tiny_tty") = 1
  <2>1. /\ Now("tiny_tty", c) = Put("tiny_driver")
        /\ Target("tiny_tty", c, "next") = <<"out", i, 1>>
    BY <1>0, <1>1 DEF Now, Block, Loop, Again, Target, After
  <2>2. /\ held'["tiny_driver"] = held["tiny_driver"] \ {i}
        /\ Others({"tiny_driver"}) /\ stray' = stray \cup Strays("tiny_driver", i)
        /\ Moves("tiny_tty", <<"out", i, 1>>)
    BY <2>1, PutOne, TinyKinds DEF Frees
  <2>3. TinyInv'
    BY <1>0, <1>1, <2>2, TinyKinds DEF TinyInv, None, Had, Site, Upto, Since, Careful, Moves,
       Others, Strays
  <2>4. Careful => stray' = stray
    BY <1>0, <1>1, <2>2, TinyKinds DEF TinyInv, None, Had, Site, Upto, Since, Careful, Others,
       Strays
  <2> QED BY <2>2, TinyKinds, <2>3, <2>4 DEF Stays, Moves, Others, Strays
<1> QED BY <1>0, <1>1

LEMMA TinyAtExit ==
  ASSUME LoadTypeOK, TinyInv, NEW c, c = Loop(NDevs, "exit", <<Drop("tiny_device")>>, "unregister"),
         In("tiny_tty", c), Runs("tiny_tty", c)
  PROVE  TinyInv' /\ Stays("tiny_tty")
<1> DEFINE i == I("tiny_tty")
<1>0. Label("tiny_tty") = "exit" /\ i \in 1..NDevs /\ Line("tiny_tty") \in 1..1
      /\ status["tiny_tty"] \in {"loading", "unloading"} /\ NDevs \in Nat \ {0}
  BY NDevsAssumption DEF In, Running, Block, Loop, Again, TinyInv
<1>1. CASE Line("tiny_tty") = 1
  <2>1. /\ Now("tiny_tty", c) = Drop("tiny_device")
        /\ Target("tiny_tty", c, "next") = (IF i < NDevs THEN <<"exit", i + 1, 1>> ELSE <<"unregister", 1, 1>>)
    BY <1>0, <1>1 DEF Now, Block, Loop, Again, Target, After
  <2>2. /\ held'["tiny_device"] = held["tiny_device"] \ {i}
        /\ Others({"tiny_device"}) /\ stray' = stray
        /\ Moves("tiny_tty", (IF i < NDevs THEN <<"exit", i + 1, 1>> ELSE <<"unregister", 1, 1>>))
    BY <2>1, PutOne, TinyKinds DEF Frees
  <2>3. TinyInv'
    BY <1>0, <1>1, <2>2, TinyKinds DEF TinyInv, None, Had, Site, Upto, Since, Careful, Moves,
       Others, Strays
  <2> QED BY <2>2, TinyKinds, <2>3 DEF Stays, Moves, Others, Strays
<1> QED BY <1>0, <1>1

LEMMA TinyAtUnregister ==
  ASSUME LoadTypeOK, TinyInv, NEW c, c = Block("unregister", <<Put("tiny_reg")>>, "out"),
         In("tiny_tty", c), Runs("tiny_tty", c)
  PROVE  TinyInv' /\ Stays("tiny_tty")
<1> DEFINE i == I("tiny_tty")
<1>0. Label("tiny_tty") = "unregister" /\ i = 1 /\ Line("tiny_tty") \in 1..1
      /\ status["tiny_tty"] \in {"loading", "unloading"} /\ NDevs \in Nat \ {0}
  BY NDevsAssumption DEF In, Running, Block, Loop, Again, TinyInv
<1>1. CASE Line("tiny_tty") = 1
  <2>1. /\ Now("tiny_tty", c) = Put("tiny_reg")
        /\ Target("tiny_tty", c, "next") = <<"out", i, 1>>
    BY <1>0, <1>1 DEF Now, Block, Loop, Again, Target, After
  <2>2. /\ held'["tiny_reg"] = held["tiny_reg"] \ {i}
        /\ Others({"tiny_reg"}) /\ stray' = stray \cup Strays("tiny_reg", i)
        /\ Moves("tiny_tty", <<"out", i, 1>>)
    BY <2>1, PutOne, TinyKinds DEF Frees
  <2>3. TinyInv'
    BY <1>0, <1>1, <2>2, TinyKinds DEF TinyInv, None, Had, Site, Upto, Since, Careful, Moves,
       Others, Strays
  <2>4. Careful => stray' = stray
    BY <1>0, <1>1, <2>2, TinyKinds DEF TinyInv, None, Had, Site, Upto, Since, Careful, Others,
       Strays
  <2>5. status["tiny_tty"] = "loading" => held["tiny_reg"] = {}
    BY <1>0, <1>1, <2>2, TinyKinds DEF TinyInv, None, Had, Site, Upto, Since, Careful
  <2> QED BY <2>2, TinyKinds, <2>3, <2>4, <2>5 DEF Stays, Moves, Others, Strays
<1> QED BY <1>0, <1>1

LEMMA TinyRuns ==
  ASSUME LoadTypeOK, TinyInv, NEW c \in Code("tiny_tty"), In("tiny_tty", c), Runs("tiny_tty", c)
  PROVE  TinyInv' /\ Stays("tiny_tty")
<1>1. \/ c = Block("init", <<GetOr("tiny_driver", "out"), GetOr("tiny_reg", "put")>>, "devices")
      \/ c = Loop(NDevs, "devices", <<Get("tiny_device")>>, "live")
      \/ c = Block("put", <<Put("tiny_driver")>>, "out")
      \/ c = Loop(NDevs, "exit", <<Drop("tiny_device")>>, "unregister")
      \/ c = Block("unregister", <<Put("tiny_reg")>>, "out")
  BY DEF Code, TinyInit, TinyExit
<1> QED BY <1>1, TinyAtInit, TinyAtDevices, TinyAtPut, TinyAtExit, TinyAtUnregister

LEMMA TinyTurns ==
  ASSUME LoadTypeOK, TinyInv, Rests("tiny_tty") \/ Starts("tiny_tty") \/ Stops("tiny_tty") \/ Ends("tiny_tty")
  PROVE  TinyInv'
<1>1. NDevs \in Nat \ {0} /\ (~Running("tiny_tty") => Label("tiny_tty") = status["tiny_tty"])
  BY NDevsAssumption, TinyKinds DEF LoadTypeOK
<1>2. CASE Rests("tiny_tty")
  BY <1>1, <1>2, TinyKinds DEF Rests, Label, I, Line, TinyInv, None, Had, Site, Upto, Since, Careful
<1>3. CASE Starts("tiny_tty")
  BY <1>1, <1>3, TinyKinds DEF Starts, Running, Label, I, Line, TinyInv, None, Had, Site, Upto,
     Since, Careful
<1>4. CASE Stops("tiny_tty")
  BY <1>1, <1>4, TinyKinds DEF Stops, Running, Label, I, Line, TinyInv, None, Had, Site, Upto,
     Since, Careful
<1>5. CASE Ends("tiny_tty")
  BY <1>1, <1>5, TinyKinds DEF Ends, Running, Label, I, Line, TinyInv, None, Had, Site, Upto, Since,
     Careful
<1> QED BY <1>2, <1>3, <1>4, <1>5
-----------------------------------------------------------------------------
(* usb_skeleton *)

LEMMA SkelKinds ==
  /\ Kinds("usb_skeleton") = {"skel_driver"}
  /\ Kinds("usb_skeleton") \subseteq AllKinds /\ "usb_skeleton" \in Modules
  /\ Nodes("usb_skeleton") = {}
BY DEF Kinds, AllKinds, Modules, Nodes

LEMMA SkelAtInit ==
  ASSUME LoadTypeOK, SkelDriverInv, NEW c, c = Block("init", <<GetOr("skel_driver", "out")>>, "live"),
         In("usb_skeleton", c), Runs("usb_skeleton", c)
  PROVE  SkelDriverInv' /\ Stays("usb_skeleton")
<1> DEFINE i == I("usb_skeleton")
<1>0. Label("usb_skeleton") = "init" /\ i = 1 /\ Line("usb_skeleton") \in 1..1
      /\ status["usb_skeleton"] \in {"loading", "unloading"} /\ NDevs \in Nat \ {0}
  BY NDevsAssumption DEF In, Running, Block, Loop, Again, SkelDriverInv
<1>1. CASE Line("usb_skeleton") = 1
  <2>1. /\ Now("usb_skeleton", c) = GetOr("skel_driver", "out")
        /\ Target("usb_skeleton", c, "next") = <<"live", i, 1>>
        /\ Target("usb_skeleton", c, "out") = <<"out", i, 1>>
    BY <1>0, <1>1 DEF Now, Block, Loop, Again, Target, After
  <2>2. \/ Gets("skel_driver", i) /\ Moves("usb_skeleton", <<"live", i, 1>>)
        \/ "skel_driver" \in MayFail /\ Same /\ Moves("usb_skeleton", <<"out", i, 1>>)
    BY <2>1, GetOrStep, SkelKinds
  <2>3. CASE Gets("skel_driver", i) /\ Moves("usb_skeleton", <<"live", i, 1>>)
    <3>1. SkelDriverInv'
      BY <1>0, <1>1, <2>3, SkelKinds DEF SkelDriverInv, None, Had, Site, Upto, Since, Careful,
         Moves, Gets, Leaves
    <3> QED BY <2>3, SkelKinds, <3>1 DEF Stays, Moves, Gets, Leaves
  <2>4. CASE "skel_driver" \in MayFail /\ Same /\ Moves("usb_skeleton", <<"out", i, 1>>)
    <3>1. SkelDriverInv'
      BY <1>0, <1>1, <2>4, SkelKinds DEF SkelDriverInv, None, Had, Site, Upto, Since, Careful,
         Moves, Same
    <3> QED BY <2>4, SkelKinds, <3>1 DEF Stays, Moves, Same
  <2> QED BY <2>2, <2>3, <2>4
<1> QED BY <1>0, <1>1

LEMMA SkelAtExit ==
  ASSUME LoadTypeOK, SkelDriverInv, NEW c, c = Block("exit", <<Put("skel_driver")>>, "out"),
         In("usb_skeleton", c), Runs("usb_skeleton", c)
  PROVE  SkelDriverInv' /\ Stays("usb_skeleton")
<1> DEFINE i == I("usb_skeleton")
<1>0. Label("usb_skeleton") = "exit" /\ i = 1 /\ Line("usb_skeleton") \in 1..1
      /\ status["usb_skeleton"] \in {"loading", "unloading"} /\ NDevs \in Nat \ {0}
  BY NDevsAssumption DEF In, Running, Block, Loop, Again, SkelDriverInv
<1>1. CASE Line("usb_skeleton") = 1
  <2>1. /\ Now("usb_skeleton", c) = Put("skel_driver")
        /\ Target("usb_skeleton", c, "next") = <<"out", i, 1>>
    BY <1>0, <1>1 DEF Now, Block, Loop, Again, Target, After
  <2>2. /\ held'["skel_driver"] = held["skel_driver"] \ {i}
        /\ Others({"skel_driver"}) /\ stray' = stray \cup Strays("skel_driver", i)
        /\ Moves("usb_skeleton", <<"out", i, 1>>)
    BY <2>1, PutOne, SkelKinds DEF Frees
  <2>3. SkelDriverInv'
    BY <1>0, <1>1, <2>2, SkelKinds DEF SkelDriverInv, None, Had, Site, Upto, Since, Careful, Moves,
       Others, Strays
  <2>4. Careful => stray' = stray
    BY <1>0, <1>1, <2>2, SkelKinds DEF SkelDriverInv, None, Had, Site, Upto, Since, Careful, Others,
       Strays
  <2> QED BY <2>2, SkelKinds, <2>3, <2>4 DEF Stays, Moves, Others, Strays
<1> QED BY <1>0, <1>1

LEMMA SkelRuns ==
  ASSUME LoadTypeOK, SkelDriverInv, NEW c \in Code("usb_skeleton"), In("usb_skeleton", c), Runs("usb_skeleton", c)
  PROVE  SkelDriverInv' /\ Stays("usb_skeleton")
<1>1. \/ c = Block("init", <<GetOr("skel_driver", "out")>>, "live")
      \/ c = Block("exit", <<Put("skel_driver")>>, "out")
  BY DEF Code, UsbSkelInit, UsbSkelExit
<1> QED BY <1>1, SkelAtInit, SkelAtExit

LEMMA SkelTurns ==
  ASSUME LoadTypeOK, SkelDriverInv, Rests("usb_skeleton") \/ Starts("usb_skeleton") \/ Stops("usb_skeleton") \/ Ends("usb_skeleton")
  PROVE  SkelDriverInv'
<1>1. NDevs \in Nat \ {0} /\ (~Running("usb_skeleton") => Label("usb_skeleton") = status["usb_skeleton"])
  BY NDevsAssumption, SkelKinds DEF LoadTypeOK
<1>2. CASE Rests("usb_skeleton")
  BY <1>1, <1>2, SkelKinds DEF Rests, Label, I, Line, SkelDriverInv, None, Had, Site, Upto, Since,
     Careful
<1>3. CASE Starts("usb_skeleton")
  BY <1>1, <1>3, SkelKinds DEF Starts, Running, Label, I, Line, SkelDriverInv, None, Had, Site,
     Upto, Since, Careful
<1>4. CASE Stops("usb_skeleton")
  BY <1>1, <1>4, SkelKinds DEF Stops, Running, Label, I, Line, SkelDriverInv, None, Had, Site, Upto,
     Since, Careful
<1>5. CASE Ends("usb_skeleton")
  BY <1>1, <1>5, SkelKinds DEF Ends, Running, Label, I, Line, SkelDriverInv, None, Had, Site, Upto,
     Since, Careful
<1> QED BY <1>2, <1>3, <1>4, <1>5
-----------------------------------------------------------------------------
(* All modules together *)

\* No two modules have a kind of resource in common.
LEMMA KindsApart ==
  ASSUME NEW m \in Modules, NEW n \in Modules, m # n
  PROVE  Kinds(n) \subseteq AllKinds \ Kinds(m)
BY ScullKinds, LddKinds, SculldKinds, SbullKinds, SnullKinds, TinyKinds, SkelKinds DEF Modules

LEMMA NodesKinds ==
  ASSUME NEW m \in Modules
  PROVE  Nodes(m) \subseteq Kinds(m) /\ Kinds(m) \subseteq AllKinds
BY DEF Nodes, AllKinds

LEMMA ModuleRuns ==
  ASSUME LoadTypeOK, NEW m \in Modules, ModuleInv(m), NEW c \in Code(m), In(m, c), Runs(m, c)
  PROVE  ModuleInv(m)' /\ Stays(m)
BY ScullRuns, LddRuns, SculldRuns, SbullRuns, SnullRuns, TinyRuns, SkelRuns DEF Modules, ModuleInv

LEMMA ModuleTurns ==
  ASSUME LoadTypeOK, NEW m \in Modules, ModuleInv(m), Rests(m) \/ Starts(m) \/ Stops(m) \/ Ends(m)
  PROVE  ModuleInv(m)'
BY ScullTurns, LddTurns, SculldTurns, SbullTurns, SnullTurns, TinyTurns, SkelTurns
   DEF Modules, ModuleInv

\* At the end of its exit, or of an init that fails, a module has no device left.
LEMMA NoneToOpen ==
  ASSUME NEW m \in Modules, ModuleInv(m), Label(m) = "out", NEW k \in Nodes(m)
  PROVE  held[k] = {}
<1>1. CASE m = "scull"
  BY <1>1, ScullKinds DEF ModuleInv, ScullInv, ScullGone, ScullPGone, ScullAGone, ScullThere, Done,
     PDone, None, Had
<1>2. CASE m = "sculld"
  BY <1>2, SculldKinds DEF ModuleInv, SculldInv, SculldGone, None
<1>3. CASE m = "sbull"
  BY <1>3, SbullKinds DEF ModuleInv, SbullInv, SbullGone, None
<1>4. CASE m = "tiny_tty"
  BY <1>4, TinyKinds DEF ModuleInv, TinyInv, None
<1>5. CASE m \in {"lddbus", "snull", "usb_skeleton"}
  BY <1>5, LddKinds, SnullKinds, SkelKinds
<1> QED BY <1>1, <1>2, <1>3, <1>4, <1>5 DEF Modules

\* Calling a function of a module, and its return, change what LoadTypeOK says of it.
LEMMA Turned ==
  ASSUME LoadTypeOK, NEW m \in Modules, Starts(m) \/ Stops(m) \/ Ends(m),
         \A n \in Modules \ {m} : at'[n] = at[n] /\ status'[n] = status[n],
         DOMAIN at' = Modules, at' = [n \in DOMAIN at' |-> at'[n]],
         status' = [status EXCEPT ![m] = status'[m]]
  PROVE  /\ at' = [n \in Modules |-> <<Label(n)', I(n)', Line(n)'>>]
         /\ \A n \in Modules :
              I(n)' \in Nat /\ Line(n)' \in Nat /\ (~Running(n)' => Label(n)' = status'[n])
         /\ status' \in [Modules -> {"out", "loading", "live", "unloading"}]
<1>1. \A n \in Modules : at[n] = <<Label(n), I(n), Line(n)>>
  BY DEF LoadTypeOK
<1>2. \A n \in Modules \ {m} : at'[n] = <<Label(n), I(n), Line(n)>>
  BY <1>1
<1>3. \/ at'[m] = <<"init", 1, 1>> \/ at'[m] = <<"exit", 1, 1>>
      \/ at'[m] = <<Label(m), I(m), Line(m)>>
  BY <1>1 DEF Starts, Stops, Ends
<1>4. \A n \in Modules : at'[n] = <<Label(n)', I(n)', Line(n)'>> /\ I(n)' \in Nat /\ Line(n)' \in Nat
  BY <1>2, <1>3 DEF Label, I, Line, LoadTypeOK
<1>5. at' = [n \in Modules |-> <<Label(n)', I(n)', Line(n)'>>]
  BY <1>4
<1>6. \A n \in Modules : ~Running(n)' => Label(n)' = status'[n]
  <2>1. \A n \in Modules \ {m} : ~Running(n)' => Label(n)' = status'[n]
    BY DEF Running, Label, LoadTypeOK
  <2>2. ~Running(m)' => Label(m)' = status'[m]
    BY DEF Running, Label, Starts, Stops, Ends
  <2> QED BY <2>1, <2>2
<1>7. status' \in [Modules -> {"out", "loading", "live", "unloading"}]
  BY DEF LoadTypeOK, Starts, Stops, Ends
<1> QED BY <1>4, <1>5, <1>6, <1>7

LEMMA LoadInitInv == LoadInit => LoadInv
<1> SUFFICES ASSUME LoadInit PROVE LoadInv
  OBVIOUS
<1>1. LoadTypeOK
  <2>1. \A m \in Modules : at[m] = <<"out", 1, 1>>
    BY DEF LoadInit
  <2>2. \A m \in Modules : Label(m) = "out" /\ I(m) = 1 /\ Line(m) = 1
    BY <2>1 DEF Label, I, Line
  <2>3. at = [m \in Modules |-> <<Label(m), I(m), Line(m)>>]
    BY <2>2 DEF LoadInit
  <2> QED BY <2>2, <2>3 DEF LoadInit, LoadTypeOK, Running
<1>2. \A m \in Modules : Label(m) = "out" /\ I(m) = 1 /\ Line(m) = 1 /\ status[m] = "out"
  BY DEF LoadInit, Label, I, Line
<1>3. \A k \in AllKinds : held[k] = {} /\ pointer[k] = {}
  BY DEF LoadInit
<1>4. NDevs \in Nat \ {0}
  BY NDevsAssumption
<1>5. ScullInv
  BY <1>2, <1>3, <1>4, ScullKinds DEF ScullInv, ScullPlace, ScullRange, ScullGone, ScullPGone,
     ScullAGone, ScullThere, ScullOwned, PDone, Done, None, Had, Site, Upto, Since
<1>6. LddInv
  BY <1>2, <1>3, LddKinds DEF LddInv, LddPlace, LddThere, LddGone, None, Had, Site
<1>7. SculldInv
  BY <1>2, <1>3, <1>4, SculldKinds DEF SculldInv, SculldPlace, SculldGone, SculldThere, SculldOwned,
     None, Had, Site, Upto, Since
<1>8. SbullInv
  BY <1>2, <1>3, <1>4, SbullKinds DEF SbullInv, SbullPlace, SbullGone, SbullThere, SbullOwned, None,
     Had, Site, Upto, Since
<1>9. SnullInv
  BY <1>2, <1>3, SnullKinds DEF SnullInv, SnullPlace, SnullGone, SnullThere, SnullOwned, None, Had,
     Site, Upto, Since
<1>10. TinyInv /\ SkelDriverInv
  BY <1>2, <1>3, <1>4, TinyKinds, SkelKinds DEF TinyInv, SkelDriverInv, None, Had, Site
<1>11. \A m \in Modules : ModuleInv(m)
  BY <1>5, <1>6, <1>7, <1>8, <1>9, <1>10 DEF Modules, ModuleInv
<1>12. Busy /\ Planned /\ FilesOpen /\ stray = {}
  BY <1>2, SculldKinds DEF LoadInit, Busy, Planned, FilesOpen
<1> QED BY <1>1, <1>11, <1>12 DEF LoadInv

\* The parts of LoadInv that are about no one module, from what a step does to each.
LEMMA FilesKept ==
  ASSUME LoadInv, opened' = opened,
         \A m \in Modules : \A k \in Nodes(m) :
           status[m] \in {"loading", "live"} /\ (\E p \in Openers : opened[p] # NoNode /\ opened[p][1] = k) =>
             status'[m] \in {"loading", "live"} /\ held[k] \subseteq held'[k]
  PROVE  FilesOpen'
BY DEF LoadInv, FilesOpen

\* A step of a function.
LEMMA RunsInv ==
  ASSUME LoadInv, NEW m \in Modules, NEW c \in Code(m), In(m, c), Runs(m, c)
  PROVE  LoadInv'
<1>1. ModuleInv(m)' /\ Stays(m)
  BY ModuleRuns DEF LoadInv
<1>2. UNCHANGED <<plan, status, opened>> /\ \A n \in Modules \ {m} : at'[n] = at[n]
  BY Kept DEF LoadInv
<1>3. ASSUME NEW n \in Modules \ {m} PROVE Rests(n)
  BY <1>1, <1>2, KindsApart DEF Stays, Rests
<1>4. \A n \in Modules : ModuleInv(n)'
  BY <1>1, <1>3, ModuleTurns DEF LoadInv
<1>5. FilesOpen'
  <2>1. ASSUME NEW n \in Modules, NEW k \in Nodes(n), status[n] \in {"loading", "live"}
        PROVE  held[k] \subseteq held'[k]
    <3>1. CASE n = m
      BY <1>1, <2>1, <3>1 DEF Stays, In, Running
    <3>2. CASE n # m
      BY <1>3, <3>2, NodesKinds DEF Rests
    <3> QED BY <3>1, <3>2
  <2> QED BY <1>2, <2>1, FilesKept
<1>6. Busy' /\ Planned'
  BY <1>2 DEF LoadInv, Busy, Planned
<1> QED BY <1>1, <1>4, <1>5, <1>6 DEF LoadInv, Stays

\* insmod, rmmod and the return of a function.
LEMMA TurnsInv ==
  ASSUME LoadInv, NEW m \in Modules, Insmod(m) \/ Rmmod(m) \/ Returns(m)
  PROVE  LoadInv'
<1>1. LoadTypeOK /\ DOMAIN at = Modules /\ Kinds(m) \subseteq AllKinds /\ m \in Modules
  BY NodesKinds DEF LoadInv, LoadTypeOK
<1>2. UNCHANGED <<plan, stray, opened>>
  BY DEF Insmod, Rmmod, Returns
<1>3. /\ \/ Starts(m) /\ Insmod(m)
         \/ Stops(m) /\ Rmmod(m)
         \/ Ends(m) /\ Returns(m)
      /\ held' \in [AllKinds -> SUBSET Nat] /\ pointer' \in [AllKinds -> SUBSET Nat]
      /\ \A n \in Modules \ {m} :
           \A k \in Kinds(n) : held'[k] = held[k] /\ pointer'[k] = pointer[k]
  <2>1. CASE Insmod(m)
    BY <1>1, <2>1, NodesKinds, KindsApart DEF LoadTypeOK, Insmod, Starts
  <2>2. CASE Rmmod(m)
    BY <1>1, <2>2, NodesKinds, KindsApart DEF LoadTypeOK, Rmmod, Stops
  <2>3. CASE Returns(m)
    <3>1. "sculla_sem" \in Kinds("scull") /\ "scull" \in Modules
      BY ScullKinds
    <3>2. m # "scull" => "sculla_sem" \notin Kinds(m)
      BY <3>1, KindsApart
    <3>3. held' \in [AllKinds -> SUBSET Nat] /\ pointer' = pointer
      BY <1>1, <2>3 DEF LoadTypeOK, Returns
    <3>4. \A k \in AllKinds :
            held'[k] = IF k = "sculla_sem" /\ m = "scull" /\ Label(m) = "out" THEN {} ELSE held[k]
      BY <1>1, <2>3 DEF LoadTypeOK, Returns
    <3>5. Ends(m)
      BY <1>1, <2>3, <3>2, <3>3, <3>4 DEF LoadTypeOK, Returns, Ends
    <3>6. \A n \in Modules \ {m} : \A k \in Kinds(n) : held'[k] = held[k]
      BY <1>1, <3>1, <3>4, NodesKinds, KindsApart
    <3> QED BY <1>1, <2>3, <3>3, <3>5, <3>6 DEF LoadTypeOK
  <2> QED BY <2>1, <2>2, <2>3
<1>4. /\ \A n \in Modules \ {m} : at'[n] = at[n] /\ status'[n] = status[n]
      /\ DOMAIN at' = Modules /\ at' = [n \in DOMAIN at' |-> at'[n]]
      /\ status' = [status EXCEPT ![m] = status'[m]]
  BY <1>1 DEF Insmod, Rmmod, Returns, LoadTypeOK
<1>5. /\ at' = [n \in Modules |-> <<Label(n)', I(n)', Line(n)'>>]
      /\ \A n \in Modules :
           I(n)' \in Nat /\ Line(n)' \in Nat /\ (~Running(n)' => Label(n)' = status'[n])
      /\ status' \in [Modules -> {"out", "loading", "live", "unloading"}]
  BY <1>1, <1>3, <1>4, Turned
<1>6. LoadTypeOK'
  BY <1>1, <1>2, <1>3, <1>5 DEF LoadTypeOK
<1>7. \A n \in Modules : ModuleInv(n)'
  <2>1. \A n \in Modules \ {m} : Rests(n)
    BY <1>2, <1>3, <1>4 DEF Rests
  <2> QED BY <1>1, <1>3, <2>1, ModuleTurns DEF LoadInv
<1>8. FilesOpen'
  <2> SUFFICES ASSUME NEW n \in Modules, NEW k \in Nodes(n), status[n] \in {"loading", "live"},
                      NEW p \in Openers, opened[p] # NoNode, opened[p][1] = k
               PROVE  status'[n] \in {"loading", "live"} /\ held[k] \subseteq held'[k]
    BY <1>2, FilesKept
  <2>1. CASE n # m
    BY <1>3, <1>4, <2>1, NodesKinds
  <2>2. CASE n = m
    <3>1. CASE Starts(m)
      BY <2>2, <3>1 DEF Starts
    <3>2. CASE Stops(m) /\ Rmmod(m)
      BY <2>2, <3>2, NodesKinds DEF Rmmod
    <3>3. CASE Ends(m)
      <4>1. Label(m) = "live" \/ held[k] = {}
        BY <2>2, <3>3, NoneToOpen DEF LoadInv, Ends
      <4>2. held[k] # {}
        BY KindsApart, NodesKinds DEF LoadInv, FilesOpen
      <4> QED BY <2>2, <3>3, <4>1, <4>2, NodesKinds DEF Ends
    <3> QED BY <1>3, <3>1, <3>2, <3>3
  <2> QED BY <2>1, <2>2
<1>9. Busy'
  BY <1>1, <1>4 DEF LoadInv, Busy, Insmod, Rmmod, Returns, Running, LoadTypeOK, Modules
<1>10. Planned'
  BY <1>1, <1>2, <1>4 DEF LoadInv, Planned, Insmod, Rmmod, Returns, Running, LoadTypeOK
<1>11. Careful => stray' = {}
  BY <1>2 DEF LoadInv
<1> QED BY <1>6, <1>7, <1>8, <1>9, <1>10, <1>11 DEF LoadInv, Careful

\* open and close.
LEMMA OpenInv ==
  ASSUME LoadInv, NEW m \in Modules, NEW p \in Openers, Open(p, m)
  PROVE  LoadInv'
<1>1. UNCHANGED <<plan, status, at, held, pointer, stray>>
  BY DEF Open
<1>2. PICK k \in Nodes(m) : \E i \in held[k] : opened' = [opened EXCEPT ![p] = <<k, i>>]
  BY DEF Open
<1>3. PICK i \in held[k] : opened' = [opened EXCEPT ![p] = <<k, i>>]
  BY <1>2
<1>4. m \in plan \cap Modules
  BY DEF Open, LoadInv, Planned, LoadTypeOK
<1>5. LoadTypeOK'
  <2>1. i \in Nat
    BY NodesKinds DEF LoadInv, LoadTypeOK
  <2>2. <<k, i>> \in (UNION {Nodes(n) : n \in plan \cap Modules}) \X Nat
    BY <1>4, <2>1
  <2>3. opened' \in [Openers -> {NoNode} \cup ((UNION {Nodes(n) : n \in plan' \cap Modules}) \X Nat)]
    BY <1>1, <1>3, <2>2 DEF LoadInv, LoadTypeOK
  <2> QED BY <1>1, <2>3 DEF LoadInv, LoadTypeOK, Label, I, Line, Running
<1>6. \A n \in Modules : ModuleInv(n)'
  <2>1. \A n \in Modules : Rests(n)
    BY <1>1 DEF Rests
  <2> QED BY <2>1, ModuleTurns DEF LoadInv
<1>7. FilesOpen'
  <2>1. \A q \in Openers : opened'[q] = IF q = p THEN <<k, i>> ELSE opened[q]
    BY <1>3 DEF LoadInv, LoadTypeOK
  <2> QED BY <1>1, <2>1 DEF LoadInv, FilesOpen, Open
<1> QED BY <1>1, <1>5, <1>6, <1>7 DEF LoadInv, Busy, Planned

LEMMA CloseInv ==
  ASSUME LoadInv, NEW p \in Openers, Close(p)
  PROVE  LoadInv'
<1>1. UNCHANGED <<plan, status, at, held, pointer, stray>> /\ opened' = [opened EXCEPT ![p] = NoNode]
  BY DEF Close
<1>2. LoadTypeOK'
  <2>1. opened' \in [Openers -> {NoNode} \cup ((UNION {Nodes(n) : n \in plan' \cap Modules}) \X Nat)]
    BY <1>1 DEF LoadInv, LoadTypeOK
  <2> QED BY <1>1, <2>1 DEF LoadInv, LoadTypeOK, Label, I, Line, Running
<1>3. \A n \in Modules : ModuleInv(n)'
  <2>1. \A n \in Modules : Rests(n)
    BY <1>1 DEF Rests
  <2> QED BY <2>1, ModuleTurns DEF LoadInv
<1>4. FilesOpen'
  BY <1>1 DEF LoadInv, FilesOpen, LoadTypeOK
<1> QED BY <1>1, <1>2, <1>3, <1>4 DEF LoadInv, Busy, Planned

LEMMA LoadStepInv ==
  ASSUME LoadInv, [LoadNext]_loadVars
  PROVE  LoadInv'
<1>1. CASE UNCHANGED loadVars
  <2>1. \A n \in Modules : Rests(n)
    BY <1>1 DEF loadVars, Rests
  <2>2. \A n \in Modules : ModuleInv(n)'
    BY <2>1, ModuleTurns DEF LoadInv
  <2>3. LoadTypeOK'
    BY <1>1 DEF loadVars, LoadInv, LoadTypeOK, Label, I, Line, Running
  <2> QED BY <1>1, <2>2, <2>3 DEF loadVars, LoadInv, Busy, Planned, FilesOpen
<1>2. CASE LoadNext
  BY <1>2, TurnsInv, RunsInv, OpenInv, CloseInv DEF LoadNext
<1> QED BY <1>1, <1>2

THEOREM InvCorrect == LoadSpec => []LoadInv
<1>1. LoadInv /\ [LoadNext]_loadVars => LoadInv'
  BY LoadStepInv
<1> QED BY LoadInitInv, <1>1, PTL DEF LoadSpec

\* The parts of a module's invariant that are about what its devices need.
LEMMA ScullReady ==
  ASSUME LoadTypeOK, ScullInv, NEW k \in Kinds("scull"), NEW i \in held[k]
  PROVE  Ready(k, i)
BY ScullKinds DEF ScullInv, ScullThere, Had, Ready, Own, Shared

LEMMA SculldReady ==
  ASSUME DriverHad, LoadTypeOK, LddInv, SculldInv, Busy, NEW k \in Kinds("sculld"), NEW i \in held[k]
  PROVE  Ready(k, i)
<1>1. CASE k = "sculld_ldev"
  <2>1. Label("sculld") # "out"
    BY <1>1 DEF SculldInv, SculldGone, None
  <2>2. "sculld" \in Modules /\ "lddbus" \in Modules
    BY SculldKinds, LddKinds
  <2>3. Label("lddbus") = "live"
    BY <2>1, <2>2 DEF Busy, LoadTypeOK, Running
  <2> QED BY <1>1, <2>3 DEF LddInv, LddThere, SculldInv, SculldThere, Had, Ready, Own, Shared
<1>2. CASE k # "sculld_ldev"
  BY <1>2, SculldKinds DEF SculldInv, SculldThere, Had, Ready, Own, Shared
<1> QED BY <1>1, <1>2

LEMMA OtherReady ==
  ASSUME LoadTypeOK, LddInv, SbullInv, SnullInv, TinyInv, SkelDriverInv,
         NEW k \in Kinds("lddbus") \cup Kinds("sbull") \cup Kinds("snull") \cup Kinds("tiny_tty")
                   \cup Kinds("usb_skeleton"),
         NEW i \in held[k]
  PROVE  Ready(k, i)
BY LddKinds, SbullKinds, SnullKinds, TinyKinds, SkelKinds
   DEF SbullInv, SbullThere, SnullInv, SnullThere, TinyInv, Had, Ready, Own, Shared

\* Whoever can reach a device finds what it needs, whatever else cannot be had and
\* whoever opens it meanwhile: each is added last (main.c:571-575, sbull.c:312), and
\* sculld has its bus in while it is.
THEOREM DevicesReadyCorrect ==
  ASSUME DriverHad
  PROVE  LoadSpec => []DevicesReady
<1>1. LoadInv => DevicesReady
  <2> SUFFICES ASSUME LoadInv PROVE DevicesReady
    OBVIOUS
  <2>1. LoadTypeOK /\ ScullInv /\ LddInv /\ SculldInv /\ SbullInv /\ SnullInv /\ TinyInv /\ SkelDriverInv
    BY DEF LoadInv, ModuleInv, Modules
  <2>2. ASSUME NEW k \in AllKinds, NEW i \in held[k] PROVE Ready(k, i)
    <3>1. PICK m \in Modules : k \in Kinds(m)
      BY DEF AllKinds
    <3>2. \/ k \in Kinds("scull") \/ k \in Kinds("sculld")
          \/ k \in Kinds("lddbus") \cup Kinds("sbull") \cup Kinds("snull") \cup Kinds("tiny_tty")
                   \cup Kinds("usb_skeleton")
      BY <3>1 DEF Modules
    <3> QED BY <2>1, <3>2, ScullReady, SculldReady, OtherReady DEF LoadInv
  <2> QED BY <2>1, <2>2 DEF LoadInv, FilesOpen, DevicesReady
<1> QED BY <1>1, InvCorrect, PTL

\* No function gives back what it did not acquire, or twice, or uses it once it is
\* gone, however long its loops are (main.c:500-524).
THEOREM OnlyOwnReleasedCorrect ==
  ASSUME Careful
  PROVE  LoadSpec => []OnlyOwnReleased
<1>1. LoadInv => OnlyOwnReleased
  BY DEF LoadInv, OnlyOwnReleased
<1> QED BY <1>1, InvCorrect, PTL

\* A module that is out has left nothing, unloaded or because its init failed at some
\* step, whichever parameters were given, but for what Lost names: the tty driver's
\* memory (tiny_tty.c:552); the major that is given to sbull (sbull.c:324); and
\* scull's numbers when their major is found and scull_minor is given (main.c:550).
THEOREM NothingLeftCorrect ==
  ASSUME LeavesNot
  PROVE  LoadSpec => []NothingLeft
<1>1. LoadInv => NothingLeft
  <2> SUFFICES ASSUME LoadInv, NEW m \in Modules, status[m] = "out", NEW k \in Kinds(m) \ Lost
               PROVE  held[k] = {}
    BY DEF NothingLeft
  <2>1. Label(m) = "out" /\ ModuleInv(m)
    BY DEF LoadInv, LoadTypeOK, Running
  <2>2. CASE m = "scull"
    BY <2>1, <2>2, ScullKinds DEF ModuleInv, ScullInv, ScullGone, ScullPGone, ScullAGone, ScullThere,
       Done, PDone, None, Had, Lost
  <2>3. CASE m = "lddbus"
    BY <2>1, <2>3, LddKinds DEF ModuleInv, LddInv, LddGone, None, Had
  <2>4. CASE m = "sculld"
    BY <2>1, <2>4, SculldKinds DEF ModuleInv, SculldInv, SculldGone, None
  <2>5. CASE m = "sbull"
    BY <2>1, <2>5, SbullKinds DEF ModuleInv, SbullInv, SbullGone, None, Lost
  <2>6. CASE m = "snull"
    BY <2>1, <2>6, SnullKinds DEF ModuleInv, SnullInv, SnullGone, None
  <2>7. CASE m = "tiny_tty"
    BY <2>1, <2>7, TinyKinds DEF ModuleInv, TinyInv, None, Lost
  <2>8. CASE m = "usb_skeleton"
    BY <2>1, <2>8, SkelKinds DEF ModuleInv, SkelDriverInv, None
  <2> QED BY <2>2, <2>3, <2>4, <2>5, <2>6, <2>7, <2>8 DEF Modules
<1> QED BY <1>1, InvCorrect, PTL
-----------------------------------------------------------------------------
(* The life of a usb_skel: the kref counts its users, and who uses it finds *)
(* it there.                                                                *)

Core(s) == IF s \in {new, intfdata} THEN 1 ELSE 0

\* A process has a usb_skel from the time an open finds it until the release.
FilesHeld == \A p \in Procs : file[p] = NULL <=> pc[p] = "closed"

\* What skel_probe and skel_disconnect have done at each place.
CoreState ==
  /\ core = "unbound" => new = NULL /\ intfdata = NULL
  /\ core \in {"probing", "cleared", "putting"} => new # NULL /\ intfdata = NULL
  /\ core = "known" => new # NULL /\ intfdata = new
  /\ core = "bound" => new = NULL /\ intfdata # NULL
  /\ minor => core \in {"bound", "cleared"}

\* The big kernel lock keeps a disconnect away while an open has found a
\* usb_skel that it has not counted.
OpensLocked ==
  \A p \in Procs : pc[p] = "opening" => bkl = p /\ core = "bound" /\ file[p] = intfdata

UsbInv == SkelCounted /\ FilesHeld /\ CoreState /\ OpensLocked

LEMMA NullIsNone == NULL \notin Procs /\ NULL \notin Skels /\ NULL \notin Buffers
BY SetsAssumption

LEMMA UsersFinite ==
  ASSUME NEW s PROVE IsFiniteSet(Users(s)) /\ Cardinality(Users(s)) \in Nat
<1>1. Users(s) \in SUBSET Procs
  BY DEF Users
<1> QED BY <1>1, SetsAssumption, FS_Subset, FS_CardinalityType

\* The reference a user holds is counted.
LEMMA UserCounted ==
  ASSUME UsbInv, NEW s \in Skels, NEW p \in Users(s)
  PROVE  kref[s] >= 1 + Core(s)
<1>1. Cardinality(Users(s)) # 0
  BY UsersFinite, FS_EmptySet
<1> QED BY <1>1, UsersFinite DEF UsbInv, SkelCounted, KrefExact, Core

\* A put frees the usb_skel exactly if nobody else uses it.
LEMMA LastUser ==
  ASSUME UsbInv, NEW s \in Skels, NEW p \in Users(s), kref[s] = 1
  PROVE  Users(s) = {p} /\ Core(s) = 0
<1>1. Cardinality(Users(s)) = 1 /\ Core(s) = 0
  BY UserCounted, UsersFinite DEF UsbInv, SkelCounted, KrefExact, Core
<1>2. PICK q : Users(s) = {q}
  BY <1>1, UsersFinite, FS_Singleton
<1> QED BY <1>1, <1>2
-----------------------------------------------------------------------------
LEMMA UsbInitInv == Init => UsbInv
<1> SUFFICES ASSUME Init PROVE UsbInv
  OBVIOUS
<1>1. TypeOK
  <2>1. sent \in 0..Packets
    BY PacketsAssumption DEF Init
  <2>2. /\ mem \in [Skels -> {"unused", "live", "freed"}] /\ kref \in [Skels -> Nat]
        /\ bulk_in \in [Skels -> Nat]
        /\ memory \in [Buffers -> {"free", "used", "urb", "again"}]
    BY DEF Init
  <2>3. /\ pc \in [Procs -> Locations]
        /\ file \in [Procs -> Skels \cup {NULL}]
        /\ took \in [Procs -> Nat] /\ got \in [Procs -> Nat]
        /\ buf \in [Procs -> Buffers \cup {NULL}]
    BY DEF Init, Locations
  <2>4. /\ core = "unbound" /\ minor \in BOOLEAN
        /\ new = NULL /\ intfdata = NULL /\ bkl = NULL
    BY DEF Init
  <2> QED BY <2>1, <2>2, <2>3, <2>4 DEF TypeOK
<1>2. SkelAlive /\ FilesHeld /\ CoreState /\ OpensLocked
  BY DEF Init, SkelAlive, FilesHeld, CoreState, OpensLocked
<1>3. KrefExact
  <2> SUFFICES ASSUME NEW s \in Skels PROVE kref[s] = Cardinality(Users(s)) + Core(s)
    BY DEF KrefExact, Core
  <2>1. Users(s) = {}
    BY NullIsNone DEF Init, Users
  <2> QED BY <2>1, NullIsNone, FS_EmptySet DEF Init, Core
<1> QED BY <1>1, <1>2, <1>3 DEF UsbInv, SkelCounted

\* The steps of reads, writes and urbs, which count nothing.
LEMMA OtherSteps ==
  ASSUME UsbInv, TypeOK', UNCHANGED <<bus, bkl, skel, file>>,
         \A p \in Procs : \A l \in {"closed", "opening"} : pc'[p] = l <=> pc[p] = l
  PROVE  UsbInv'
<1>1. \A s : Users(s)' = Users(s)
  BY DEF Users
<1>2. KrefExact'
  BY <1>1 DEF UsbInv, SkelCounted, KrefExact, bus, skel
<1>3. SkelAlive' /\ FilesHeld' /\ CoreState' /\ OpensLocked'
  BY DEF UsbInv, SkelCounted, SkelAlive, FilesHeld, CoreState, OpensLocked, bus, skel
<1> QED BY <1>2, <1>3 DEF UsbInv, SkelCounted

LEMMA ReadsAndWrites ==
  ASSUME UsbInv, NEW p \in Procs,
         \/ ReadTransfer(p) \/ ReadCopy(p) \/ WriteAlloc(p) \/ WriteCopy(p)
         \/ WriteSubmit(p) \/ WriteErrorFree(p) \/ WriteErrorKfree(p)
  PROVE  UsbInv'
<1> USE DEF Goto, Locations, Freed, bus, skel, input
<1>1. UNCHANGED <<bus, bkl, skel, file>>
  BY DEF ReadTransfer, ReadCopy, WriteAlloc, WriteCopy, WriteSubmit, WriteErrorFree,
         WriteErrorKfree
<1>2. /\ pc[p] \notin {"closed", "opening"} /\ pc'[p] \notin {"closed", "opening"}
      /\ \A q \in Procs \ {p} : pc'[q] = pc[q]
  BY DEF UsbInv, SkelCounted, TypeOK, ReadTransfer, ReadCopy, WriteAlloc, WriteCopy,
         WriteSubmit, WriteErrorFree, WriteErrorKfree
<1>3. TypeOK'
  <2>1. CASE ReadTransfer(p)
    <3>1. sent' \in 0..Packets /\ sent' \in Nat
      BY <2>1, PacketsAssumption DEF UsbInv, SkelCounted, TypeOK, ReadTransfer
    <3>2. bulk_in' \in [Skels -> Nat] /\ took' \in [Procs -> Nat]
      BY <2>1, <3>1 DEF UsbInv, SkelCounted, TypeOK, ReadTransfer
    <3> QED BY <2>1, <3>1, <3>2 DEF UsbInv, SkelCounted, TypeOK, ReadTransfer
  <2>2. CASE ReadCopy(p)
    <3>1. file[p] \in Skels
      BY <2>2 DEF UsbInv, SkelCounted, TypeOK, FilesHeld, ReadCopy
    <3> QED BY <2>2, <3>1 DEF UsbInv, SkelCounted, TypeOK, ReadCopy
  <2>3. CASE WriteAlloc(p) \/ WriteCopy(p) \/ WriteSubmit(p)
    BY <2>3 DEF UsbInv, SkelCounted, TypeOK, WriteAlloc, WriteCopy, WriteSubmit
  <2>4. CASE WriteErrorFree(p) \/ WriteErrorKfree(p)
    BY <2>4 DEF UsbInv, SkelCounted, TypeOK, WriteErrorFree, WriteErrorKfree
  <2> QED BY <2>1, <2>2, <2>3, <2>4
<1> QED BY <1>1, <1>2, <1>3, OtherSteps DEF bus, skel

LEMMA CallbackStep == ASSUME UsbInv, NEW b \in Buffers, Callback(b) PROVE UsbInv'
<1>1. TypeOK'
  BY DEF UsbInv, SkelCounted, TypeOK, Callback, Freed, bus, skel, input
<1> QED BY <1>1, OtherSteps DEF Callback

\* A put keeps the types; what it frees is a usb_skel without other references.
LEMMA PutType ==
  ASSUME UsbInv, NEW s \in Skels, kref[s] >= 1, KrefPut(s)
  PROVE  /\ mem' \in [Skels -> {"unused", "live", "freed"}] /\ kref' \in [Skels -> Nat]
         /\ kref'[s] = kref[s] - 1
         /\ \A t \in Skels \ {s} : kref'[t] = kref[t] /\ mem'[t] = mem[t]
         /\ kref[s] # 1 => mem'[s] = mem[s]
BY DEF UsbInv, SkelCounted, TypeOK, KrefPut
-----------------------------------------------------------------------------
(* skel_probe and skel_disconnect *)

LEMMA CoreSteps ==
  ASSUME UsbInv, ProbeAlloc \/ ProbeData \/ ProbeRegister \/ ProbeFails
                \/ DisconnectLock \/ DisconnectDeregister \/ DisconnectPut
  PROVE  UsbInv'
<1> USE NullIsNone DEF CoreGoto
<1>1. UNCHANGED <<input, pc, file, buf, memory>>
  BY DEF ProbeAlloc, ProbeData, ProbeRegister, ProbeFails, DisconnectLock,
         DisconnectDeregister, DisconnectPut
<1>2. \A s : Users(s)' = Users(s)
  BY <1>1 DEF Users
<1>3. FilesHeld'
  BY <1>1 DEF UsbInv, FilesHeld
<1>4. CASE ProbeAlloc
  <2>1. PICK s \in Skels :
          /\ mem[s] = "unused" /\ new' = s /\ intfdata' = NULL
          /\ new = NULL /\ intfdata = NULL
          /\ mem' = [mem EXCEPT ![s] = "live"] /\ kref' = [kref EXCEPT ![s] = 1]
    BY <1>4 DEF ProbeAlloc, UsbInv, CoreState
  <2>2. Users(s) = {} /\ Cardinality(Users(s)) = 0
    <3>1. Users(s) = {}
      BY <2>1 DEF Users, UsbInv, SkelCounted, SkelAlive
    <3> QED BY <3>1, FS_EmptySet
  <2>3. TypeOK'
    BY <1>1, <1>4, <2>1 DEF ProbeAlloc, UsbInv, SkelCounted, TypeOK, input
  <2>4. SkelAlive'
    BY <1>1, <1>4, <2>1 DEF ProbeAlloc, UsbInv, SkelCounted, SkelAlive, TypeOK
  <2>5. KrefExact'
    <3> SUFFICES ASSUME NEW t \in Skels
                 PROVE  kref'[t] = Cardinality(Users(t)) + (IF t = s THEN 1 ELSE 0)
      BY <1>2, <2>1 DEF KrefExact
    <3>1. CASE t = s
      <4>1. kref'[s] = 1
        BY <2>1 DEF UsbInv, SkelCounted, TypeOK
      <4> QED BY <2>2, <3>1, <4>1
    <3>2. CASE t # s
      BY <2>1, <3>2, UsersFinite DEF UsbInv, SkelCounted, KrefExact, TypeOK
    <3> QED BY <3>1, <3>2
  <2>6. CoreState' /\ OpensLocked'
    BY <1>1, <1>4, <2>1 DEF ProbeAlloc, UsbInv, CoreState, OpensLocked
  <2> QED BY <1>3, <2>3, <2>4, <2>5, <2>6 DEF UsbInv, SkelCounted
<1>5. CASE ProbeData \/ ProbeRegister \/ DisconnectLock \/ DisconnectDeregister
  <2> USE DEF ProbeData, ProbeRegister, DisconnectLock, DisconnectDeregister
  <2>1. UNCHANGED skel
    BY <1>5
  <2>2. TypeOK'
    BY <1>1, <1>5 DEF UsbInv, SkelCounted, TypeOK, input, skel
  <2>3. {new, intfdata}' \ {NULL} = {new, intfdata} \ {NULL}
    BY <1>5 DEF UsbInv, CoreState
  <2>4. SkelAlive'
    BY <1>1, <2>1, <2>3 DEF UsbInv, SkelCounted, SkelAlive, skel
  <2>5. KrefExact'
    BY <1>2, <2>1, <2>3 DEF UsbInv, SkelCounted, KrefExact, skel
  <2>6. CoreState'
    BY <1>5 DEF UsbInv, CoreState
  <2>7. OpensLocked'
    BY <1>1, <1>5 DEF UsbInv, OpensLocked
  <2> QED BY <1>3, <2>2, <2>4, <2>5, <2>6, <2>7 DEF UsbInv, SkelCounted
<1>6. CASE ProbeFails \/ DisconnectPut
  <2>1. /\ new \in Skels /\ new' = NULL /\ intfdata' = NULL /\ core' = "unbound"
        /\ intfdata \in {new, NULL} /\ core # "bound" /\ KrefPut(new)
        /\ minor' = minor /\ ~minor /\ bkl' = bkl
    BY <1>6 DEF ProbeFails, DisconnectPut, UsbInv, SkelCounted, TypeOK, CoreState
  <2>2. kref[new] = Cardinality(Users(new)) + 1 /\ kref[new] >= 1
    BY <2>1, UsersFinite DEF UsbInv, SkelCounted, KrefExact
  <2>3. TypeOK'
    BY <1>1, <2>1, <2>2, PutType DEF UsbInv, SkelCounted, TypeOK, input
  <2>4. KrefExact'
    <3> SUFFICES ASSUME NEW s \in Skels PROVE kref'[s] = Cardinality(Users(s)) + 0
      BY <1>2, <2>1 DEF KrefExact
    <3> QED BY <2>1, <2>2, PutType, UsersFinite DEF UsbInv, SkelCounted, KrefExact
  <2>5. SkelAlive'
    <3> SUFFICES ASSUME NEW p \in Procs, file[p] # NULL PROVE mem'[file[p]] = "live"
      BY <1>1, <2>1 DEF SkelAlive
    <3>1. file[p] \in Skels /\ mem[file[p]] = "live"
      BY DEF UsbInv, SkelCounted, TypeOK, SkelAlive
    <3>2. ASSUME file[p] = new PROVE kref[new] # 1
      <4>1. p \in Users(new)
        BY <2>1, <3>2 DEF Users, UsbInv, OpensLocked
      <4> QED BY <2>1, <4>1, UserCounted DEF Core, UsbInv, SkelCounted, TypeOK
    <3> QED BY <2>1, <2>2, <3>1, <3>2, PutType
  <2>6. CoreState' /\ OpensLocked'
    BY <1>1, <2>1 DEF UsbInv, CoreState, OpensLocked
  <2> QED BY <1>3, <2>3, <2>4, <2>5, <2>6 DEF UsbInv, SkelCounted
<1> QED BY <1>4, <1>5, <1>6
-----------------------------------------------------------------------------
(* skel_open and skel_release *)

\* An open finds the usb_skel of a device that is bound, and counts it later.
LEMMA OpenFindStep == ASSUME UsbInv, NEW p \in Procs, OpenFind(p) PROVE UsbInv'
<1> USE NullIsNone DEF OpenFind, Goto
<1>1. /\ intfdata \in Skels /\ core = "bound" /\ mem[intfdata] = "live"
      /\ file[p] = NULL /\ UNCHANGED <<bus, skel>>
  BY DEF UsbInv, SkelCounted, TypeOK, SkelAlive, FilesHeld, CoreState
<1>2. TypeOK'
  BY <1>1 DEF UsbInv, SkelCounted, TypeOK, Locations, bus, skel, input
<1>3. \A s \in Skels : Users(s)' = Users(s)
  BY <1>1 DEF Users, UsbInv, SkelCounted, TypeOK
<1>4. KrefExact'
  BY <1>1, <1>3 DEF UsbInv, SkelCounted, KrefExact, bus, skel
<1>5. SkelAlive' /\ FilesHeld'
  BY <1>1 DEF UsbInv, SkelCounted, TypeOK, SkelAlive, FilesHeld, bus, skel
<1>6. CoreState' /\ OpensLocked'
  BY <1>1 DEF UsbInv, SkelCounted, TypeOK, CoreState, OpensLocked, bus
<1> QED BY <1>2, <1>4, <1>5, <1>6 DEF UsbInv, SkelCounted

LEMMA OpenGetStep == ASSUME UsbInv, NEW p \in Procs, OpenGet(p) PROVE UsbInv'
<1> USE NullIsNone DEF OpenGet, Goto
<1> DEFINE s == file[p]
<1>1. s \in Skels /\ UNCHANGED <<bus, mem, file>>
  BY DEF UsbInv, SkelCounted, TypeOK, FilesHeld
<1>2. TypeOK'
  BY <1>1 DEF UsbInv, SkelCounted, TypeOK, Locations, bus, input
<1>3. /\ Users(s)' = Users(s) \cup {p} /\ p \notin Users(s)
      /\ \A t \in Skels \ {s} : Users(t)' = Users(t)
  BY <1>1 DEF Users, UsbInv, SkelCounted, TypeOK
<1>4. Cardinality(Users(s)') = Cardinality(Users(s)) + 1
  <2>1. IsFiniteSet(Users(s))
    BY UsersFinite
  <2>2. PICK U : U = Users(s) /\ IsFiniteSet(U) /\ p \notin U /\ Users(s)' = U \cup {p}
    BY <1>3, <2>1
  <2>3. Cardinality(U \cup {p}) = Cardinality(U) + 1
    BY <2>2, FS_AddElement
  <2> QED BY <2>2, <2>3
<1>5. KrefExact'
  <2> SUFFICES ASSUME NEW t \in Skels PROVE kref'[t] = Cardinality(Users(t)') + Core(t)
    BY <1>1 DEF KrefExact, Core, bus
  <2>1. kref[t] = Cardinality(Users(t)) + Core(t) /\ Core(t) \in Nat
    BY DEF UsbInv, SkelCounted, KrefExact, Core
  <2>2. kref'[t] = IF t = s THEN kref[t] + 1 ELSE kref[t]
    BY <1>1 DEF UsbInv, SkelCounted, TypeOK
  <2> QED BY <1>3, <1>4, <2>1, <2>2, UsersFinite
<1>6. SkelAlive' /\ FilesHeld' /\ CoreState'
  BY <1>1 DEF UsbInv, SkelCounted, TypeOK, SkelAlive, FilesHeld, CoreState, bus
<1>7. OpensLocked'
  BY <1>1 DEF UsbInv, SkelCounted, TypeOK, OpensLocked, bus
<1> QED BY <1>2, <1>5, <1>6, <1>7 DEF UsbInv, SkelCounted

LEMMA ReleaseStep == ASSUME UsbInv, NEW p \in Procs, Release(p) PROVE UsbInv'
<1> USE NullIsNone DEF Release, Goto
<1> PICK s \in Skels : s = file[p]
  BY DEF UsbInv, SkelCounted, TypeOK, FilesHeld
<1>1. /\ p \in Users(s) /\ KrefPut(s) /\ UNCHANGED <<bus, bkl>>
      /\ kref[s] >= 1
  <2>1. p \in Users(s)
    BY DEF UsbInv, SkelCounted, TypeOK, FilesHeld, Users
  <2> QED BY <2>1, UserCounted DEF Core, UsbInv, SkelCounted, TypeOK
<1>2. TypeOK'
  BY <1>1, PutType DEF UsbInv, SkelCounted, TypeOK, Locations, bus, input
<1>3. /\ Users(s)' = Users(s) \ {p}
      /\ \A t \in Skels \ {s} : Users(t)' = Users(t)
  BY <1>1 DEF Users, UsbInv, SkelCounted, TypeOK
<1>4. Cardinality(Users(s)') = Cardinality(Users(s)) - 1
  <2>1. IsFiniteSet(Users(s))
    BY UsersFinite
  <2>2. PICK U : U = Users(s) /\ IsFiniteSet(U) /\ p \in U /\ Users(s)' = U \ {p}
    BY <1>1, <1>3, <2>1
  <2>3. Cardinality(U \ {p}) = Cardinality(U) - 1
    BY <2>2, FS_RemoveElement
  <2> QED BY <2>2, <2>3
<1>5. KrefExact'
  <2> SUFFICES ASSUME NEW t \in Skels PROVE kref'[t] = Cardinality(Users(t)') + Core(t)
    BY <1>1 DEF KrefExact, Core, bus
  <2>1. kref[t] = Cardinality(Users(t)) + Core(t) /\ Core(t) \in Nat
    BY DEF UsbInv, SkelCounted, KrefExact, Core
  <2>2. CASE t = s
    BY <1>1, <1>4, <2>1, <2>2, PutType, UsersFinite
  <2>3. CASE t # s
    BY <1>1, <1>3, <2>1, <2>3, PutType
  <2> QED BY <2>2, <2>3
<1>6. SkelAlive'
  <2>1. ASSUME NEW t \in Skels, mem[t] = "live",
               t = s => Users(s) # {p} \/ Core(s) # 0
        PROVE  mem'[t] = "live"
    BY <1>1, <2>1, PutType, LastUser
  <2>2. ASSUME NEW q \in Procs, file'[q] # NULL PROVE mem'[file'[q]] = "live"
    <3>1. q # p /\ file'[q] = file[q] /\ file[q] \in Skels /\ mem[file[q]] = "live"
      BY <2>2 DEF UsbInv, SkelCounted, TypeOK, SkelAlive
    <3>2. q \in Users(file[q]) \/ file[q] = intfdata
      BY <3>1 DEF Users, UsbInv, OpensLocked
    <3> QED BY <2>1, <3>1, <3>2 DEF Core
  <2>3. ASSUME NEW t \in Skels, t \in {new, intfdata} PROVE mem'[t] = "live"
    BY <2>1, <2>3 DEF Core, UsbInv, SkelCounted, SkelAlive
  <2> QED BY <1>1, <2>2, <2>3 DEF SkelAlive, bus, UsbInv, SkelCounted, TypeOK
<1>7. FilesHeld' /\ CoreState' /\ OpensLocked'
  BY <1>1 DEF UsbInv, SkelCounted, TypeOK, FilesHeld, CoreState, OpensLocked, bus
<1> QED BY <1>2, <1>5, <1>6, <1>7 DEF UsbInv, SkelCounted
-----------------------------------------------------------------------------
LEMMA UsbStepInv == UsbInv /\ [Next]_vars => UsbInv'
<1> SUFFICES ASSUME UsbInv, [Next]_vars PROVE UsbInv'
  OBVIOUS
<1>1. CASE ProbeAlloc \/ Probe \/ DisconnectLock \/ Disconnect
  BY <1>1, CoreSteps DEF Probe, Disconnect
<1>2. ASSUME NEW p \in Procs, Kernel(p) \/ Calls(p) \/ Release(p) PROVE UsbInv'
  BY <1>2, OpenFindStep, OpenGetStep, ReleaseStep, ReadsAndWrites DEF Kernel, Calls
<1>3. ASSUME NEW b \in Buffers, Callback(b) PROVE UsbInv'
  BY <1>3, CallbackStep
<1>4. CASE UNCHANGED vars
  BY <1>4, OtherSteps DEF vars, UsbInv, SkelCounted, TypeOK, bus, skel, input
<1> QED BY <1>1, <1>2, <1>3, <1>4 DEF Next

\* Whatever the order of plugging, opening, closing and failing, the kref is the
\* number of those who use a usb_skel, so that skel_delete (line 76) runs when
\* the last of them lets go, and nobody reaches one that has been freed.
THEOREM SkelCountedCorrect == Spec => []SkelCounted
<1>1. UsbInv => SkelCounted
  BY DEF UsbInv
<1> QED BY <1>1, UsbInitInv, UsbStepInv, PTL DEF Spec
-----------------------------------------------------------------------------
(* What the readers share *)

\* Packets come in order, and what is in the shared buffer is as late as what
\* any read under way has brought.
Fresh ==
  /\ \A s \in Skels : bulk_in[s] <= sent
  /\ \A p \in Procs : pc[p] = "rd_copy" => took[p] <= bulk_in[file[p]]

\* The steps of the others leave the buffers and the reads under way alone.
LEMMA ReadersLeftAlone ==
  ASSUME UsbInv, Next, \A p \in Procs : ~ReadTransfer(p)
  PROVE  /\ UNCHANGED <<bulk_in, sent, took>>
         /\ \A q \in Procs : pc'[q] = "rd_copy" => pc[q] = "rd_copy" /\ file'[q] = file[q]
<1>1. pc \in [Procs -> Locations] /\ file \in [Procs -> Skels \cup {NULL}]
  BY DEF UsbInv, SkelCounted, TypeOK
<1>2. CASE ProbeAlloc \/ Probe \/ DisconnectLock \/ Disconnect
  BY <1>2 DEF Probe, Disconnect, ProbeAlloc, ProbeData, ProbeRegister, ProbeFails,
              DisconnectLock, DisconnectDeregister, DisconnectPut, input
<1>3. ASSUME NEW p \in Procs, OpenFind(p) \/ OpenGet(p) \/ Release(p)
      PROVE  /\ UNCHANGED <<bulk_in, sent, took>>
             /\ \A q \in Procs : pc'[q] = "rd_copy" => pc[q] = "rd_copy" /\ file'[q] = file[q]
  BY <1>1, <1>3 DEF OpenFind, OpenGet, Release, Goto, input
<1>4. ASSUME NEW p \in Procs,
             \/ ReadCopy(p) \/ WriteAlloc(p) \/ WriteCopy(p) \/ WriteSubmit(p)
             \/ WriteErrorFree(p) \/ WriteErrorKfree(p)
      PROVE  /\ UNCHANGED <<bulk_in, sent, took>>
             /\ \A q \in Procs : pc'[q] = "rd_copy" => pc[q] = "rd_copy" /\ file'[q] = file[q]
  BY <1>1, <1>4 DEF ReadCopy, WriteAlloc, WriteCopy, WriteSubmit, WriteErrorFree,
                    WriteErrorKfree, Goto, input
<1>5. ASSUME NEW b \in Buffers, Callback(b)
      PROVE  UNCHANGED <<bulk_in, sent, took, pc, file>>
  BY <1>5 DEF Callback, input
<1> QED BY <1>2, <1>3, <1>4, <1>5 DEF Next, Kernel, Calls

LEMMA FreshStep == ASSUME UsbInv, Fresh, [Next]_vars PROVE Fresh'
<1>1. CASE UNCHANGED vars
  BY <1>1 DEF Fresh, vars, input
<1>2. CASE Next /\ \A p \in Procs : ~ReadTransfer(p)
  BY <1>2, ReadersLeftAlone DEF Fresh
<1>3. ASSUME NEW p \in Procs, ReadTransfer(p) PROVE Fresh'
  <2>1. /\ pc \in [Procs -> Locations] /\ bulk_in \in [Skels -> Nat] /\ sent \in Nat
        /\ file \in [Procs -> Skels \cup {NULL}] /\ took \in [Procs -> Nat]
    BY PacketsAssumption DEF UsbInv, SkelCounted, TypeOK
  <2>2. file[p] \in Skels /\ file' = file /\ sent' = sent + 1
    BY <1>3, <2>1 DEF ReadTransfer, Goto, UsbInv, FilesHeld
  <2>3. ASSUME NEW s \in Skels
        PROVE  /\ bulk_in'[s] = IF s = file[p] THEN sent + 1 ELSE bulk_in[s]
               /\ bulk_in[s] <= bulk_in'[s] /\ bulk_in'[s] <= sent'
    BY <1>3, <2>1, <2>2 DEF ReadTransfer, Fresh
  <2>4. ASSUME NEW q \in Procs, pc'[q] = "rd_copy" PROVE took'[q] <= bulk_in'[file'[q]]
    <3>1. CASE q = p
      BY <1>3, <2>1, <2>2, <2>3, <3>1 DEF ReadTransfer
    <3>2. CASE q # p
      <4>1. pc[q] = "rd_copy" /\ took'[q] = took[q] /\ took[q] \in Nat
        BY <1>3, <2>1, <2>4, <3>2 DEF ReadTransfer, Goto
      <4>2. file[q] \in Skels
        BY <2>1, <4>1 DEF UsbInv, FilesHeld
      <4> QED BY <2>1, <2>2, <2>3, <4>1, <4>2 DEF Fresh
    <3> QED BY <3>1, <3>2
  <2> QED BY <2>3, <2>4 DEF Fresh
<1> QED BY <1>1, <1>2, <1>3

\* A read that is back has nothing older than its own transfer brought, however
\* many read into the one buffer between its transfer and its copy.
THEOREM ReadsFresh == Spec => ReadNotStale
<1>1. Init => Fresh
  BY DEF Init, Fresh
<1>2. ASSUME UsbInv, Fresh, [Next]_vars, NEW p \in Procs, pc[p] = "rd_copy", pc'[p] = "idle"
      PROVE  got'[p] >= took[p]
  <2>1. pc \in [Procs -> Locations] /\ got \in [Procs -> Nat]
    BY <1>2 DEF UsbInv, SkelCounted, TypeOK
  <2>2. file[p] \in Skels
    BY <1>2 DEF UsbInv, SkelCounted, TypeOK, FilesHeld
  <2>3. got'[p] = bulk_in[file[p]]
    <3>1. ReadCopy(p)
      <4>1. ~(UNCHANGED pc)
        BY <1>2
      <4>2. CASE ProbeAlloc \/ Probe \/ DisconnectLock \/ Disconnect \/ UNCHANGED vars
        BY <4>1, <4>2 DEF Probe, Disconnect, ProbeAlloc, ProbeData, ProbeRegister,
             ProbeFails, DisconnectLock, DisconnectDeregister, DisconnectPut, vars
      <4>3. ASSUME NEW b \in Buffers, Callback(b) PROVE FALSE
        BY <4>1, <4>3 DEF Callback
      <4>4. ASSUME NEW q \in Procs, Kernel(q) \/ Calls(q) \/ Release(q) PROVE ReadCopy(p)
        BY <1>2, <2>1, <4>4 DEF Kernel, Calls, Goto, OpenFind, OpenGet, Release,
             ReadTransfer, ReadCopy, WriteAlloc, WriteCopy, WriteSubmit, WriteErrorFree,
             WriteErrorKfree
      <4> QED BY <1>2, <4>2, <4>3, <4>4 DEF Next
    <3> QED BY <2>1, <3>1 DEF ReadCopy
  <2>4. took[p] \in Nat /\ bulk_in[file[p]] \in Nat /\ took[p] <= bulk_in[file[p]]
    BY <1>2, <2>2 DEF UsbInv, SkelCounted, TypeOK, Fresh
  <2> QED BY <2>3, <2>4
<1>3. UsbInv /\ Fresh /\ [Next]_vars
      => [\A p \in Procs : pc[p] = "rd_copy" /\ pc'[p] = "idle" => got'[p] >= took[p]]_vars
  BY <1>2
<1>4. UsbInv /\ Fresh /\ [Next]_vars => Fresh'
  BY FreshStep
<1> QED BY <1>1, <1>3, <1>4, UsbInitInv, UsbStepInv, PTL DEF Spec, ReadNotStale
=============================================================================
