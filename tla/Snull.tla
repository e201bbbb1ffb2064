-------------------------------- MODULE Snull --------------------------------
(***************************************************************************)
(* The pair of network interfaces of src/snull/snull.c: what one transmits *)
(* the other receives.  The kernel serialises the transmissions of a       *)
(* device and its watchdog (the transmit lock), which are one thread here, *)
(* <<"tx", d>>; with use_napi its polls are another, <<"poll", d>>.  The   *)
(* "interrupts" are calls that a transmitting thread makes for both        *)
(* devices.  A section under priv->lock is one step; every access outside  *)
(* it, like `priv->status |= ...', is a load and a store of its own.       *)
(***************************************************************************)
EXTENDS Integers, FiniteSets

CONSTANTS Devs,          \* snull_devs
          First,         \* snull_devs[0]
          Environments,  \* of which every behaviour has one
          NULL

\* pool: the packets snull_setup_pool could allocate; napi: use_napi; lockup:
\* 0, or the period of the lost transmit interrupts; watched: the interfaces
\* whose watchdog may expire; closers: those that are taken down and up again;
\* smp: two threads can run at the same time; rmmod: never, once both interfaces
\* are down as in snull_unload.sh, or whenever.
ASSUME EnvironmentsAssumption ==
  Environments \subseteq [pool : Nat \ {0}, napi : BOOLEAN, lockup : Nat,
                          watched : SUBSET Devs, closers : SUBSET Devs, smp : BOOLEAN,
                          rmmod : {"never", "down", "whenever"}]
ASSUME DevsAssumption == IsFiniteSet(Devs) /\ Cardinality(Devs) = 2 /\ First \in Devs
ASSUME NullAssumption == NULL \notin Devs \X Nat

VARIABLES
  env,               \* the environment of this behaviour; it never changes
  ppool, rx_queue,   \* the heads of each device's lists
  next,              \* pkt->next
  status, rx_int_enabled,
  memory,            \* of each net_device: registered, unregistered, drained, freed
  kfreed,            \* the packets that have been freed
  skb,               \* what has become of priv->skb
  tx_packets,        \* stats.tx_packets, modulo lockup
  running, stopped,  \* the kernel's: the interface is up, its queue is stopped
  scheduled,         \* the kernel's: the device is on a poll list
  enabling,          \* devices whose poll has yet to do its snull_rx_ints(dev, 1)
  npackets,          \* what the current poll of each device has received
  pc,
  held,              \* the packet a thread has in hand
  word,              \* the status word it has loaded
  call               \* what a tx thread makes an interrupt for

Other(d) == CHOOSE e \in Devs : e # d      \* line 412
Threads  == {"tx", "poll"} \X Devs
Packets  == Devs \X (1..env.pool)          \* pkt[1] is pkt->dev

weight   == 2                              \* dev->weight

module == <<env, memory, kfreed>>
lists == <<ppool, rx_queue, next>>
priv  == <<status, rx_int_enabled, skb, tx_packets>>
net   == <<module, running, stopped, scheduled>>
poll  == <<enabling, npackets>>
local == <<held, word, call>>
vars  == <<lists, priv, net, poll, pc, local>>

Locations == {"idle", "get", "enqueue", "notify", "store", "interrupt",
              "push", "test", "wake", "own", "finish", "poll", "check"}

\* snull_init and snull_setup_pool, and the first snull_open of both.
Init ==
  /\ env \in Environments
  /\ memory = [d \in Devs |-> "registered"] /\ kfreed = {}
  /\ ppool = [d \in Devs |-> <<d, env.pool>>]
  /\ rx_queue = [d \in Devs |-> NULL]
  /\ next = [p \in Packets |-> IF p[2] = 1 THEN NULL ELSE <<p[1], p[2] - 1>>]
  /\ status = [d \in Devs |-> {}]
  /\ rx_int_enabled = [d \in Devs |-> TRUE]
  /\ skb = [d \in Devs |-> "none"]
  /\ tx_packets = [d \in Devs |-> 0]
  /\ running = [d \in Devs |-> TRUE]
  /\ stopped = [d \in Devs |-> FALSE]
  /\ scheduled = [d \in Devs |-> FALSE]
  /\ enabling = {}
  /\ npackets = [d \in Devs |-> 0]
  /\ pc = [t \in Threads |-> "idle"]
  /\ held = [t \in Threads |-> NULL]
  /\ word = [t \in Threads |-> {}]
  /\ call = [d \in Devs |-> "rx"]
-----------------------------------------------------------------------------
(* Threads, and what they do to the lists *)

Tx(d)   == <<"tx", d>>
Poll(d) == <<"poll", d>>

\* With one CPU transmissions, polls and the watchdog run one after the other.
Runs(t) == env.smp \/ (enabling = {} /\ \A u \in Threads : u # t => pc[u] = "idle")

Goto(t, from, to) == Runs(t) /\ pc[t] = from /\ pc' = [pc EXCEPT ![t] = to]

\* The device the interrupt of Tx(d)'s call is for.
Target(d) == IF call[d] = "rx" THEN Other(d) ELSE d

\* Where the thread goes on after its interrupt, or its release of a buffer.
Resume(t) ==
  IF t[1] = "poll" THEN "poll"
  ELSE CASE call[t[2]] = "rx" -> "own"
         [] call[t[2]] = "tx" -> "idle"
         [] OTHER -> "finish"

\* Mutation: the queue is only stopped when there was no packet to take.
StopLate(d) == ppool[d] = NULL

\* Line 118: the packet that is taken is the last of the pool.
StopsQueue(d) == next[ppool[d]] = NULL

\* dev_kfree_skb(priv->skb)
Freed(s) == IF s = "driver" THEN "freed" ELSE "again"
-----------------------------------------------------------------------------
(* snull_tx, snull_hw_tx and snull_tx_timeout: the thread Tx(d) *)

\* A frame shorter than ETH_ZLEN is padded, so that none is too short for
\* snull_hw_tx.
Transmit(d) ==
  /\ running[d] /\ ~stopped[d]
  /\ Goto(Tx(d), "idle", "get")
  /\ skb' = [skb EXCEPT ![d] = "driver"]
  /\ call' = [call EXCEPT ![d] = "rx"]
  /\ UNCHANGED <<lists, status, rx_int_enabled, tx_packets, net, poll, held, word>>

\* snull_get_tx_buffer.  With an empty pool line 117 dereferences NULL: the
\* thread goes no further.
GetTxBuffer(d) ==
  /\ ppool[d] # NULL
  /\ Goto(Tx(d), "get", "enqueue")
  /\ held' = [held EXCEPT ![Tx(d)] = ppool[d]]
  /\ stopped' = [stopped EXCEPT ![d] = @ \/ StopsQueue(d)]
  /\ ppool' = [ppool EXCEPT ![d] = next[@]]
  /\ UNCHANGED <<module, rx_queue, next, priv, running, scheduled, poll, word, call>>

\* snull_enqueue_buf: at the head.
EnqueueBuf(d) ==
  /\ Goto(Tx(d), "enqueue", "notify")
  /\ next' = [next EXCEPT ![held[Tx(d)]] = rx_queue[Other(d)]]
  /\ rx_queue' = [rx_queue EXCEPT ![Other(d)] = held[Tx(d)]]
  /\ held' = [held EXCEPT ![Tx(d)] = NULL]
  /\ UNCHANGED <<ppool, priv, net, poll, word, call>>

\* Lines 418-419: the receiver's interrupts are off, or its status is loaded.
NotifyNot(d) ==
  /\ ~rx_int_enabled[Other(d)]
  /\ Goto(Tx(d), "notify", "own")
  /\ UNCHANGED <<lists, priv, net, poll, local>>

Notify(d) ==
  /\ rx_int_enabled[Other(d)]
  /\ Goto(Tx(d), "notify", "store")
  /\ word' = [word EXCEPT ![Tx(d)] = status[Other(d)] \cup {"RX"}]
  /\ UNCHANGED <<lists, priv, net, poll, held, call>>

StoreStatus(d) ==
  LET silent == call[d] = "tx" /\ env.lockup # 0 /\ (tx_packets[d] + 1) % env.lockup = 0
  IN  /\ Goto(Tx(d), "store", IF silent THEN "idle" ELSE "interrupt")
      /\ status' = [status EXCEPT ![Target(d)] = word[Tx(d)]]
      /\ stopped' = [stopped EXCEPT ![d] = @ \/ silent]
      /\ UNCHANGED <<module, lists, rx_int_enabled, skb, tx_packets, running, scheduled, poll, local>>

\* Mutation: the sender's own interrupt, too, is subject to rx_int_enabled.
OwnStatusEnabled(d) ==
  /\ Goto(Tx(d), "own", IF rx_int_enabled[d] THEN "store" ELSE "idle")
  /\ call' = [call EXCEPT ![d] = "tx"]
  /\ word' = [word EXCEPT ![Tx(d)] = status[d] \cup {"TX"}]
  /\ UNCHANGED <<lists, priv, net, poll, held>>

\* Lines 423-426, for the sender's own interrupt.
OwnStatus(d) ==
  /\ Goto(Tx(d), "own", "store")
  /\ call' = [call EXCEPT ![d] = "tx"]
  /\ word' = [word EXCEPT ![Tx(d)] = status[d] \cup {"TX"}]
  /\ UNCHANGED <<lists, priv, net, poll, held>>

\* snull_tx_timeout, which the watchdog calls when the queue stays stopped.
TxTimeout(d) ==
  /\ d \in env.watched /\ running[d] /\ stopped[d]
  /\ Goto(Tx(d), "idle", "interrupt")
  /\ status' = [status EXCEPT ![d] = {"TX"}]
  /\ call' = [call EXCEPT ![d] = "timeout"]
  /\ UNCHANGED <<lists, rx_int_enabled, skb, tx_packets, net, poll, held, word>>

TimeoutWake(d) ==
  /\ Goto(Tx(d), "finish", "idle")
  /\ stopped' = [stopped EXCEPT ![d] = FALSE]
  /\ UNCHANGED <<module, lists, priv, running, scheduled, poll, local>>
-----------------------------------------------------------------------------
(* The interrupt handlers, which Tx(d) calls for Target(d) *)

\* Lines 321-325 and 354-358: e's transmission is over.
TxDone(e) ==
  LET done == "TX" \in status[e]
  IN  /\ skb' = IF done THEN [skb EXCEPT ![e] = Freed(@)] ELSE skb
      /\ tx_packets' = IF done /\ env.lockup # 0
                         THEN [tx_packets EXCEPT ![e] = (@ + 1) % env.lockup] ELSE tx_packets

\* snull_regular_interrupt takes one packet, and hands it to snull_rx, which
\* leaves the packet alone whether or not it finds memory for the skb.
RegularInterrupt(d) ==
  LET e    == Target(d)
      pkt  == IF "RX" \in status[e] THEN rx_queue[e] ELSE NULL
  IN  /\ ~env.napi
      /\ Goto(Tx(d), "interrupt", IF pkt # NULL THEN "push" ELSE Resume(Tx(d)))
      /\ status' = [status EXCEPT ![e] = {}]
      /\ rx_queue' = IF pkt # NULL THEN [rx_queue EXCEPT ![e] = next[pkt]] ELSE rx_queue
      /\ held' = [held EXCEPT ![Tx(d)] = pkt]
      /\ TxDone(e)
      /\ UNCHANGED <<ppool, next, rx_int_enabled, net, poll, word, call>>

\* Mutations: the device is not put on the poll list; the status is not cleared.
NapiInterruptLost(d) ==
  LET e  == Target(d)
      rx == "RX" \in status[e]
  IN  /\ env.napi
      /\ Goto(Tx(d), "interrupt", Resume(Tx(d)))
      /\ status' = [status EXCEPT ![e] = {}]
      /\ rx_int_enabled' = [rx_int_enabled EXCEPT ![e] = @ /\ ~rx]
      /\ TxDone(e)
      /\ UNCHANGED <<lists, net, poll, local>>
NapiInterruptKeeps(d) ==
  LET e  == Target(d)
      rx == "RX" \in status[e]
  IN  /\ env.napi
      /\ Goto(Tx(d), "interrupt", Resume(Tx(d)))
      /\ rx_int_enabled' = [rx_int_enabled EXCEPT ![e] = @ /\ ~rx]
      /\ scheduled' = [scheduled EXCEPT ![e] = @ \/ (rx /\ running[e])]
      /\ TxDone(e)
      /\ UNCHANGED <<module, lists, status, running, stopped, poll, local>>

\* snull_napi_interrupt.  netif_rx_schedule does nothing when e is down.
NapiInterrupt(d) ==
  LET e  == Target(d)
      rx == "RX" \in status[e]
  IN  /\ env.napi
      /\ Goto(Tx(d), "interrupt", Resume(Tx(d)))
      /\ status' = [status EXCEPT ![e] = {}]
      /\ rx_int_enabled' = [rx_int_enabled EXCEPT ![e] = @ /\ ~rx]
      /\ scheduled' = [scheduled EXCEPT ![e] = @ \/ (rx /\ running[e])]
      /\ TxDone(e)
      /\ UNCHANGED <<module, lists, running, stopped, poll, local>>
-----------------------------------------------------------------------------
(* snull_release_buffer, for an interrupt or a poll *)

\* Mutation: the packet goes to the pool of the device that received it.
ReleasePushWrong(t) ==
  LET d == Other(held[t][1])
  IN  /\ Goto(t, "push", "test")
      /\ next' = [next EXCEPT ![held[t]] = ppool[d]]
      /\ ppool' = [ppool EXCEPT ![d] = held[t]]
      /\ UNCHANGED <<rx_queue, priv, net, poll, local>>

ReleasePush(t) ==
  LET d == held[t][1]
  IN  /\ Goto(t, "push", "test")
      /\ next' = [next EXCEPT ![held[t]] = ppool[d]]
      /\ ppool' = [ppool EXCEPT ![d] = held[t]]
      /\ UNCHANGED <<rx_queue, priv, net, poll, local>>

\* Line 140, without the lock: the queue's state is loaded, then pkt->next.
ReleaseTest(t) ==
  LET stop == stopped[held[t][1]]
  IN  /\ Goto(t, "test", IF stop THEN "wake" ELSE Resume(t))
      /\ held' = [held EXCEPT ![t] = IF stop THEN @ ELSE NULL]
      /\ UNCHANGED <<lists, priv, net, poll, word, call>>

ReleaseWake(t) ==
  /\ Goto(t, "wake", Resume(t))
  /\ stopped' = [stopped EXCEPT ![held[t][1]] = @ /\ next[held[t]] # NULL]
  /\ held' = [held EXCEPT ![t] = NULL]
  /\ UNCHANGED <<module, lists, priv, running, scheduled, poll, word, call>>
-----------------------------------------------------------------------------
(* snull_poll: the thread Poll(d) *)

PollStart(d) ==
  /\ scheduled[d]
  /\ Goto(Poll(d), "idle", "poll")
  /\ npackets' = [npackets EXCEPT ![d] = 0]
  /\ UNCHANGED <<lists, priv, net, enabling, local>>

\* snull_dequeue_buf.  A packet dropped for want of memory does not count.
PollTake(d) ==
  /\ rx_queue[d] # NULL /\ npackets[d] < weight
  /\ Goto(Poll(d), "poll", "push")
  /\ held' = [held EXCEPT ![Poll(d)] = rx_queue[d]]
  /\ rx_queue' = [rx_queue EXCEPT ![d] = next[@]]
  /\ \E counts \in {0, 1} : npackets' = [npackets EXCEPT ![d] = @ + counts]
  /\ UNCHANGED <<ppool, next, priv, net, enabling, word, call>>

\* Mutation: snull_init does not set dev->weight, and the quota is 0.
PollEndWeightless(d) ==
  /\ Goto(Poll(d), "poll", "check")
  /\ UNCHANGED <<lists, priv, net, poll, local>>

\* The loop ends: nothing is left, or the quota, which is at most weight, is
\* used up.
PollEnd(d) ==
  /\ rx_queue[d] = NULL \/ npackets[d] > 0
  /\ Goto(Poll(d), "poll", "check")
  /\ UNCHANGED <<lists, priv, net, poll, local>>

\* Lines 284-285: netif_rx_complete, and from then on d may be scheduled again.
PollCheck(d) ==
  /\ d \notin enabling
  /\ Goto(Poll(d), "check", "idle")
  /\ scheduled' = [scheduled EXCEPT ![d] = rx_queue[d] # NULL]
  /\ enabling' = IF rx_queue[d] = NULL THEN enabling \cup {d} ELSE enabling
  /\ UNCHANGED <<module, lists, priv, running, stopped, npackets, local>>

\* snull_rx_ints(dev, 1)
PollEnable(d) ==
  /\ d \in enabling
  /\ enabling' = enabling \ {d}
  /\ rx_int_enabled' = [rx_int_enabled EXCEPT ![d] = TRUE]
  /\ UNCHANGED <<lists, status, skb, tx_packets, net, npackets, pc, local>>
-----------------------------------------------------------------------------
(* Taking an interface down and up again, and snull_cleanup *)

Going == \E d \in Devs : memory[d] # "registered"

\* dev_close waits for the transmission and the poll of d to be over, and makes
\* d's queue one that is stopped.
Closed(d) ==
  /\ running[d] => ~scheduled[d] /\ pc[Tx(d)] = "idle" /\ pc[Poll(d)] = "idle"
  /\ running' = [running EXCEPT ![d] = FALSE]
  /\ stopped' = [stopped EXCEPT ![d] = TRUE]
  /\ UNCHANGED <<lists, priv, scheduled, poll, pc, local>>

Release(d) ==
  /\ d \in env.closers \/ env.rmmod = "down"
  /\ running[d] /\ Runs(Tx(d)) /\ Closed(d)
  /\ UNCHANGED module

Open(d) ==
  /\ d \in env.closers /\ ~running[d] /\ Runs(Tx(d))
  /\ memory[d] = "registered" /\ (env.rmmod = "down" => ~Going)
  /\ running' = [running EXCEPT ![d] = TRUE]
  /\ stopped' = [stopped EXCEPT ![d] = FALSE]
  /\ UNCHANGED <<module, lists, priv, scheduled, poll, pc, local>>

\* A step of rmmod: snull_devs[0] is gone before snull_devs[1] is touched.
Cleanup(d, from, to) ==
  /\ Runs(<<"rmmod", d>>)
  /\ d = First \/ memory[First] = "freed"
  /\ memory[d] = from /\ memory' = [memory EXCEPT ![d] = to]
  /\ UNCHANGED env

\* unregister_netdev, which takes the interface down.
CleanupUnregister(d) ==
  /\ env.rmmod # "never"
  /\ env.rmmod = "down" => \A e \in Devs : ~running[e]
  /\ Cleanup(d, "registered", "unregistered") /\ Closed(d)
  /\ UNCHANGED kfreed

\* The i-th packet of the list that begins with h.
Walk(h) ==
  LET w[i \in 1..Cardinality(Packets) + 1] ==
        IF i = 1 THEN h ELSE IF w[i - 1] = NULL THEN NULL ELSE next[w[i - 1]]
  IN  w
Listed(h) == {Walk(h)[i] : i \in DOMAIN Walk(h)} \ {NULL}

\* Mutation: only the first packet is freed.
PoolOnce(d) == {ppool[d]} \ {NULL}
Pool(d) == Listed(ppool[d])

\* snull_teardown_pool frees what is in the pool.
CleanupTeardown(d) ==
  /\ Cleanup(d, "unregistered", "drained")
  /\ kfreed' = kfreed \cup Pool(d)
  /\ ppool' = [ppool EXCEPT ![d] = NULL]
  /\ UNCHANGED <<rx_queue, next, priv, running, stopped, scheduled, poll, pc, local>>

\* free_netdev
CleanupFree(d) ==
  /\ Cleanup(d, "drained", "freed")
  /\ UNCHANGED <<lists, kfreed, priv, running, stopped, scheduled, poll, pc, local>>
-----------------------------------------------------------------------------
Releasing(t) == ReleasePush(t) \/ ReleaseTest(t) \/ ReleaseWake(t)
HardwareTx(d) ==
  \/ GetTxBuffer(d) \/ EnqueueBuf(d) \/ NotifyNot(d) \/ Notify(d) \/ StoreStatus(d)
  \/ RegularInterrupt(d) \/ NapiInterrupt(d) \/ OwnStatus(d) \/ TimeoutWake(d)
  \/ Releasing(Tx(d))
Polling(d) ==
  PollStart(d) \/ PollTake(d) \/ PollEnd(d) \/ PollCheck(d) \/ Releasing(Poll(d))

Next == \E d \in Devs : Transmit(d) \/ TxTimeout(d) \/ HardwareTx(d) \/ Polling(d)
                          \/ PollEnable(d) \/ Release(d) \/ Open(d)
                          \/ CleanupUnregister(d) \/ CleanupTeardown(d) \/ CleanupFree(d)
Spec == Init /\ [][Next]_vars

\* A thread runs on; a softirq that was raised runs when the transmission that
\* raised it ends, however many follow; a watchdog that is due expires.  Nobody
\* has to send, and nobody has to touch the interfaces.
Fairness ==
  \A d \in Devs : /\ WF_vars(HardwareTx(d)) /\ SF_vars(Polling(d))
                  /\ WF_vars(PollEnable(d)) /\ SF_vars(TxTimeout(d))
FairSpec == Spec /\ Fairness
-----------------------------------------------------------------------------
(* Properties *)

TypeOK ==
  /\ env \in Environments
  /\ memory \in [Devs -> {"registered", "unregistered", "drained", "freed"}]
  /\ kfreed \subseteq Packets
  /\ ppool \in [Devs -> Packets \cup {NULL}]
  /\ rx_queue \in [Devs -> Packets \cup {NULL}]
  /\ next \in [Packets -> Packets \cup {NULL}]
  /\ status \in [Devs -> SUBSET {"RX", "TX"}]
  /\ rx_int_enabled \in [Devs -> BOOLEAN]
  /\ skb \in [Devs -> {"none", "driver", "freed", "again"}]
  /\ tx_packets \in [Devs -> Nat]
  /\ running \in [Devs -> BOOLEAN] /\ stopped \in [Devs -> BOOLEAN]
  /\ scheduled \in [Devs -> BOOLEAN]
  /\ enabling \subseteq Devs
  /\ npackets \in [Devs -> 0..weight]
  /\ pc \in [Threads -> Locations]
  /\ held \in [Threads -> Packets \cup {NULL}]
  /\ word \in [Threads -> SUBSET {"RX", "TX"}]
  /\ call \in [Devs -> {"rx", "tx", "timeout"}]

\* One processor, interfaces that stay up, no watchdog and no lost interrupt.
Plain == ~env.smp /\ env.lockup = 0 /\ env.watched \cup env.closers = {} /\ env.rmmod = "never"

Ends(h)   == \E i \in DOMAIN Walk(h) : Walk(h)[i] = NULL

\* The packets a thread has taken from one list and not yet put on another.
InHand(t) == IF pc[t] \in {"enqueue", "push"} THEN {held[t]} ELSE {}

\* Every packet is in one place: in the pool of its device, in the receive
\* queue of the other, in the hand of one thread, or freed; and the lists end.
PacketsConserved ==
  /\ \A d \in Devs : Ends(ppool[d]) /\ Ends(rx_queue[d])
  /\ \A p \in Packets :
       LET d == p[1]
           places == {<<"pool", e>> : e \in {f \in Devs : p \in Listed(ppool[f])}}
             \cup {<<"queue", e>> : e \in {f \in Devs : p \in Listed(rx_queue[f])}}
             \cup {t \in Threads : p \in InHand(t)}
             \cup {<<"kfree", d>> : q \in kfreed \cap {p}}
       IN  /\ Cardinality(places) = 1
           /\ places \subseteq {<<"pool", d>>, <<"queue", Other(d)>>, <<"kfree", d>>} \cup Threads

\* snull_tx never fails (line 458): the queue of a device whose pool is empty is
\* stopped, so that the kernel hands it no packet (lines 118-121 and 140).
TransmitNeverFails == Plain => \A d \in Devs : pc[Tx(d)] = "get" => ppool[d] # NULL

\* An skb is freed by the transmit interrupt, once (lines 324 and 453).
SkbFreedOnce == TypeOK /\ (Plain => \A d \in Devs : skb[d] # "again")

\* No transmission replaces priv->skb before its skb has been freed.
SkbNotLost == [][\A d \in Devs : Plain /\ pc[Tx(d)] = "idle" /\ pc'[Tx(d)] = "get"
                                   => skb[d] # "driver"]_vars

\* A packet waits in a receive queue only while somebody is at work who will
\* take it out, or a poll is due (lines 410-420 and 284-286).
Attended(d) == \/ scheduled[d] \/ pc[Poll(d)] # "idle"
               \/ \E e \in Devs : pc[Tx(e)] # "idle"
ReceiverNotified == \A d \in Devs : rx_queue[d] # NULL => Attended(d)

\* Interrupts are off only while the device is being polled (lines 284-286, 351).
InterruptsComeBack ==
  \A d \in Devs : ~rx_int_enabled[d] =>
    scheduled[d] \/ pc[Poll(d)] # "idle" \/ d \in enabling

\* The receiver of a packet is told of it, and stays able to be told.
ReceiverServed == Plain => ReceiverNotified /\ InterruptsComeBack

\* Packets in the queue of an interface that is down, which NAPI does not poll,
\* do not come back to the pool they were taken from.
Wakes == ~env.smp /\ (env.napi => Plain)

\* A stopped queue of an interface that is up is woken again (lines 140, 473).
QueueWoken ==
  \A d \in Devs : (Wakes /\ stopped[d] /\ running[d]) ~> (~stopped[d] \/ ~running[d])

\* The structures a thread works on.
Uses(t) == IF pc[t] = "idle" THEN {}
           ELSE IF t[1] = "tx" THEN Devs
           ELSE {t[2]} \cup {held[t][1] : p \in {held[t]} \ {NULL}}

\* Nobody works on a net_device that has been freed, or on the packets of one,
\* and no packet is left when both are gone (snull_unload.sh:3-5, line 567).
\* With NAPI packets stay behind in the queue of the interface that is down.
UnloadClean ==
  /\ \A t \in Threads : \A d \in Uses(t) : memory[d] # "freed"
  /\ \A d \in Devs : scheduled[d] => memory[d] = "registered"
  /\ ~env.napi /\ (\A d \in Devs : memory[d] = "freed") => kfreed = Packets
=============================================================================
