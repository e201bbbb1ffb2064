------------------------------- MODULE UsbSkel -------------------------------
(***************************************************************************)
(* The USB driver of src/usb/usb-skeleton.c.  The usb core binds it to a   *)
(* device that is plugged in (skel_probe) and unbinds it when the device   *)
(* goes (skel_disconnect), while processes open, read, write and close its *)
(* node.  The struct usb_skel, which all share, is counted by a kref; the  *)
(* big kernel lock, with which the kernel calls every open, keeps an open  *)
(* out of a disconnect.                                                    *)
(***************************************************************************)
EXTENDS Integers, FiniteSets

CONSTANTS Procs,
          Skels,    \* the structs usb_skel; one for each time it is plugged in
          Buffers,  \* the memory usb_buffer_alloc hands out
          Packets,  \* bound: how many packets the device sends
          NULL

ASSUME SetsAssumption ==
  IsFiniteSet(Procs) /\ NULL \notin Procs \cup Skels \cup Buffers
ASSUME PacketsAssumption == Packets \in Nat

VARIABLES
  core,      \* where the usb core is in skel_probe and skel_disconnect
  new,       \* the usb_skel it works on
  intfdata,  \* usb_get_intfdata(interface)
  minor,     \* whether the node is registered
  bkl,       \* who holds the big kernel lock, or NULL
  mem,       \* of each usb_skel: unused, live or freed
  kref,
  bulk_in,   \* the packet in dev->bulk_in_buffer
  sent,      \* the packets the device has sent
  pc,
  file,      \* file->private_data
  took,      \* the packet that a read's transfer has brought
  got,       \* history: the packet that a read has returned
  buf,       \* the buffer of a process's write
  memory     \* of each buffer: free, used, in an urb, or freed again

bus   == <<core, new, intfdata, minor>>
skel  == <<mem, kref>>
input == <<bulk_in, sent, took, got>>
vars  == <<bus, bkl, skel, input, pc, file, buf, memory>>

Locations == {"closed", "opening", "idle", "rd_copy", "wr_copy", "wr_submit",
              "wr_error", "wr_kfree"}

Init ==
  /\ core = "unbound" /\ new = NULL /\ intfdata = NULL /\ minor = FALSE
  /\ bkl = NULL
  /\ mem = [s \in Skels |-> "unused"]
  /\ kref = [s \in Skels |-> 0]
  /\ bulk_in = [s \in Skels |-> 0] /\ sent = 0
  /\ pc = [p \in Procs |-> "closed"]
  /\ file = [p \in Procs |-> NULL]
  /\ took = [p \in Procs |-> 0] /\ got = [p \in Procs |-> 0]
  /\ buf = [p \in Procs |-> NULL]
  /\ memory = [b \in Buffers |-> "free"]

Goto(p, from, to) == pc[p] = from /\ pc' = [pc EXCEPT ![p] = to]
CoreGoto(from, to) == core = from /\ core' = to

\* Mutation: the last reference frees nothing.
KrefPutLeaks(s) == kref' = [kref EXCEPT ![s] = @ - 1] /\ UNCHANGED mem

\* kref_put(&dev->kref, skel_delete)
KrefPut(s) ==
  /\ kref' = [kref EXCEPT ![s] = @ - 1]
  /\ mem' = IF kref[s] = 1 THEN [mem EXCEPT ![s] = "freed"] ELSE mem
-----------------------------------------------------------------------------
(* skel_probe and skel_disconnect, which the core calls one after the other *)

\* With no memory for the struct, nothing has happened.
ProbeAlloc ==
  /\ CoreGoto("unbound", "probing")
  /\ \E s \in Skels : /\ mem[s] = "unused"
                      /\ new' = s
                      /\ mem' = [mem EXCEPT ![s] = "live"]
                      /\ kref' = [kref EXCEPT ![s] = 1]
  /\ UNCHANGED <<intfdata, minor, bkl, input, pc, file, buf, memory>>

\* Mutation: the error path gives back a reference that it has not.
ProbeFailsTwice ==
  /\ core \in {"probing", "known"}
  /\ core' = "unbound"
  /\ intfdata' = NULL /\ new' = NULL
  /\ kref' = [kref EXCEPT ![new] = @ - 2]
  /\ mem' = [mem EXCEPT ![new] = "freed"]
  /\ UNCHANGED <<minor, bkl, input, pc, file, buf, memory>>

\* No bulk endpoint in each direction, or no memory for bulk_in_buffer; after
\* usb_set_intfdata, no minor.
ProbeFails ==
  /\ core \in {"probing", "known"}
  /\ core' = "unbound"
  /\ intfdata' = NULL /\ new' = NULL
  /\ KrefPut(new)
  /\ UNCHANGED <<minor, bkl, input, pc, file, buf, memory>>

ProbeData ==
  /\ CoreGoto("probing", "known")
  /\ intfdata' = new
  /\ UNCHANGED <<new, minor, bkl, skel, input, pc, file, buf, memory>>

ProbeRegister ==
  /\ CoreGoto("known", "bound")
  /\ minor' = TRUE /\ new' = NULL
  /\ UNCHANGED <<intfdata, bkl, skel, input, pc, file, buf, memory>>

\* Mutation: the big kernel lock is not taken.
DisconnectUnlocked ==
  /\ CoreGoto("bound", "cleared")
  /\ new' = intfdata /\ intfdata' = NULL
  /\ UNCHANGED <<minor, bkl, skel, input, pc, file, buf, memory>>

DisconnectLock ==
  /\ CoreGoto("bound", "cleared")
  /\ bkl = NULL /\ bkl' = "core"
  /\ new' = intfdata /\ intfdata' = NULL
  /\ UNCHANGED <<minor, skel, input, pc, file, buf, memory>>

DisconnectDeregister ==
  /\ CoreGoto("cleared", "putting")
  /\ minor' = FALSE
  /\ bkl' = NULL
  /\ UNCHANGED <<new, intfdata, skel, input, pc, file, buf, memory>>

DisconnectPut ==
  /\ CoreGoto("putting", "unbound")
  /\ new' = NULL
  /\ KrefPut(new)
  /\ UNCHANGED <<intfdata, minor, bkl, input, pc, file, buf, memory>>
-----------------------------------------------------------------------------
(* skel_open and skel_release *)

\* usb_find_interface and usb_get_intfdata, if the node is there.
OpenFind(p) ==
  /\ minor /\ bkl = NULL
  /\ intfdata # NULL
  /\ Goto(p, "closed", "opening")
  /\ bkl' = p
  /\ file' = [file EXCEPT ![p] = intfdata]
  /\ UNCHANGED <<bus, skel, input, buf, memory>>

\* Mutation: the open takes no reference.
OpenGetNone(p) ==
  /\ Goto(p, "opening", "idle")
  /\ bkl' = NULL
  /\ UNCHANGED <<bus, skel, input, file, buf, memory>>

OpenGet(p) ==
  /\ Goto(p, "opening", "idle")
  /\ kref' = [kref EXCEPT ![file[p]] = @ + 1]
  /\ bkl' = NULL
  /\ UNCHANGED <<bus, mem, input, file, buf, memory>>

Release(p) ==
  /\ Goto(p, "idle", "closed")
  /\ KrefPut(file[p])
  /\ file' = [file EXCEPT ![p] = NULL]
  /\ UNCHANGED <<bus, bkl, input, buf, memory>>
-----------------------------------------------------------------------------
(* skel_read *)

\* The device of a usb_skel answers until skel_disconnect is over.
Present(s) == s \in {new, intfdata}

\* Mutation: the copy is made though the transfer has failed.
ReadTransferFailed(p) ==
  /\ Present(file[p]) /\ sent < Packets
  /\ Goto(p, "idle", "rd_copy")
  /\ sent' = sent + 1
  /\ took' = [took EXCEPT ![p] = sent']
  /\ UNCHANGED <<bus, bkl, skel, bulk_in, got, file, buf, memory>>

\* usb_bulk_msg brings the next packet of the device, or fails (a timeout, or
\* the device is gone), which changes nothing.
ReadTransfer(p) ==
  /\ Present(file[p]) /\ sent < Packets
  /\ Goto(p, "idle", "rd_copy")
  /\ sent' = sent + 1
  /\ bulk_in' = [bulk_in EXCEPT ![file[p]] = sent']
  /\ took' = [took EXCEPT ![p] = sent']
  /\ UNCHANGED <<bus, bkl, skel, got, file, buf, memory>>

\* copy_to_user, from the buffer that all the readers share.
ReadCopy(p) ==
  /\ Goto(p, "rd_copy", "idle")
  /\ got' = [got EXCEPT ![p] = bulk_in[file[p]]]
  /\ UNCHANGED <<bus, bkl, skel, bulk_in, sent, took, file, buf, memory>>
-----------------------------------------------------------------------------
(* skel_write and the completion of its urb *)

\* usb_alloc_urb and usb_buffer_alloc.  Without memory for the urb line 205
\* dereferences NULL; without memory for the buffer the write returns ENOMEM.
WriteAlloc(p) ==
  /\ Goto(p, "idle", "wr_copy")
  /\ \E b \in Buffers : /\ memory[b] = "free"
                        /\ memory' = [memory EXCEPT ![b] = "used"]
                        /\ buf' = [buf EXCEPT ![p] = b]
  /\ UNCHANGED <<bus, bkl, skel, input, file>>

WriteCopy(p) ==
  /\ \/ Goto(p, "wr_copy", "wr_submit")
     \/ Goto(p, "wr_copy", "wr_error")    \* -EFAULT
  /\ UNCHANGED <<bus, bkl, skel, input, file, buf, memory>>

\* The core refuses the urb, or takes it: the buffer is then the callback's.
WriteSubmit(p) ==
  /\ \/ /\ core # "unbound"
        /\ Goto(p, "wr_submit", "idle")
        /\ memory' = [memory EXCEPT ![buf[p]] = "urb"]
        /\ buf' = [buf EXCEPT ![p] = NULL]
     \/ Goto(p, "wr_submit", "wr_error") /\ UNCHANGED <<buf, memory>>
  /\ UNCHANGED <<bus, bkl, skel, input, file>>

\* What a free makes of a buffer.
Freed(s) == IF s \in {"used", "urb"} THEN "free" ELSE "again"

\* usb_buffer_free, and then kfree of the same address.
WriteErrorFree(p) ==
  /\ Goto(p, "wr_error", "wr_kfree")
  /\ memory' = [memory EXCEPT ![buf[p]] = Freed(@)]
  /\ UNCHANGED <<bus, bkl, skel, input, file, buf>>

WriteErrorKfree(p) ==
  /\ Goto(p, "wr_kfree", "idle")
  /\ memory' = [memory EXCEPT ![buf[p]] = Freed(@)]
  /\ buf' = [buf EXCEPT ![p] = NULL]
  /\ UNCHANGED <<bus, bkl, skel, input, file>>

\* skel_write_bulk_callback, whatever the status of the urb.
Callback(b) ==
  /\ memory[b] = "urb"
  /\ memory' = [memory EXCEPT ![b] = Freed(@)]
  /\ UNCHANGED <<bus, bkl, skel, input, pc, file, buf>>
-----------------------------------------------------------------------------
Probe == ProbeData \/ ProbeRegister \/ ProbeFails
Disconnect == DisconnectDeregister \/ DisconnectPut
Kernel(p) ==
  \/ OpenGet(p) \/ ReadCopy(p) \/ WriteCopy(p) \/ WriteSubmit(p)
  \/ WriteErrorFree(p) \/ WriteErrorKfree(p)
Calls(p) == OpenFind(p) \/ ReadTransfer(p) \/ WriteAlloc(p)

Next ==
  \/ ProbeAlloc \/ Probe \/ DisconnectLock \/ Disconnect
  \/ \E p \in Procs : Kernel(p) \/ Calls(p) \/ Release(p)
  \/ \E b \in Buffers : Callback(b)
Spec == Init /\ [][Next]_vars

\* Code in the kernel runs on, the core completes every urb, and a process
\* closes its files, if only when it exits.  Nobody has to plug or to open.
Fairness ==
  /\ WF_vars(Probe) /\ WF_vars(Disconnect)
  /\ \A p \in Procs : WF_vars(Kernel(p)) /\ SF_vars(Release(p))
  /\ \A b \in Buffers : WF_vars(Callback(b))
FairSpec == Spec /\ Fairness
-----------------------------------------------------------------------------
(* Properties *)

TypeOK ==
  /\ core \in {"unbound", "probing", "known", "bound", "cleared", "putting"}
  /\ new \in Skels \cup {NULL} /\ intfdata \in Skels \cup {NULL}
  /\ minor \in BOOLEAN
  /\ bkl \in Procs \cup {"core", NULL}
  /\ mem \in [Skels -> {"unused", "live", "freed"}]
  /\ kref \in [Skels -> Nat]
  /\ bulk_in \in [Skels -> Nat] /\ sent \in 0..Packets
  /\ pc \in [Procs -> Locations]
  /\ file \in [Procs -> Skels \cup {NULL}]
  /\ took \in [Procs -> Nat] /\ got \in [Procs -> Nat]
  /\ buf \in [Procs -> Buffers \cup {NULL}]
  /\ memory \in [Buffers -> {"free", "used", "urb", "again"}]

\* Nobody uses a usb_skel that has been freed: not an open file, nor an open
\* that has found it and not yet counted itself (line 312), nor the core.
SkelAlive ==
  /\ \A p \in Procs : file[p] # NULL => mem[file[p]] = "live"
  /\ intfdata # NULL => mem[intfdata] = "live"
  /\ new # NULL => mem[new] = "live"

\* The kref counts exactly the files and the core, so that the last of them to
\* let go, in whatever order they do, frees the structure.
Users(s) == {p \in Procs : file[p] = s /\ pc[p] # "opening"}
KrefExact ==
  \A s \in Skels :
    kref[s] = Cardinality(Users(s)) + (IF s \in {new, intfdata} THEN 1 ELSE 0)

\* Whoever uses a usb_skel finds it there, and is counted.
SkelCounted == TypeOK /\ SkelAlive /\ KrefExact

\* A usb_skel that is unplugged is freed when its users are gone.
SkelFreed == \A s \in Skels : (mem[s] = "live" /\ s \notin {intfdata, new}) ~> (mem[s] = "freed")

\* The callback frees every buffer that was submitted, unplugged or not.
UrbsComplete == \A b \in Buffers : (memory[b] = "urb") ~> (memory[b] # "urb")

\* What the driver has allocated it gives back.
NothingLeaks == SkelFreed /\ UrbsComplete

\* The readers share bulk_in_buffer, and a read may return what the transfer of
\* another has brought, but nothing older than its own (lines 120-132).
ReadNotStale ==
  [][\A p \in Procs : pc[p] = "rd_copy" /\ pc'[p] = "idle" => got'[p] >= took[p]]_vars
=============================================================================
