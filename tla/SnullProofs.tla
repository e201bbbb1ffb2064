----------------------------- MODULE SnullProofs -----------------------------
(***************************************************************************)
(* Theorems about the two network interfaces of snull.                     *)
(***************************************************************************)
EXTENDS Snull, FiniteSetTheorems, TLAPS

(* Linked lists.  ListOf(nx, h, S): from h the pointers nx lead through every *)
(* element of S, once, and end.                                              *)

Linked(nx, h, S, n, s) ==
  /\ h = IF n = 0 THEN NULL ELSE s[1]
  /\ \A i \in 1..n : nx[s[i]] = IF i < n THEN s[i + 1] ELSE NULL
  /\ \A i, j \in 1..n : s[i] = s[j] => i = j
  /\ \A q \in S : \E i \in 1..n : s[i] = q

ListOf(nx, h, S) == \E n \in Nat : \E s \in [1..n -> S] : Linked(nx, h, S, n, s)

LEMMA ListNil == ASSUME NEW nx PROVE ListOf(nx, NULL, {})
<1>1. [i \in 1..0 |-> 0] \in [1..0 -> {}]  OBVIOUS
<1>. QED  BY <1>1 DEF ListOf, Linked

LEMMA ListHead ==
  ASSUME NEW nx, NEW h, NEW S, NULL \notin S, ListOf(nx, h, S)
  PROVE  /\ h = NULL => S = {}
         /\ h # NULL => h \in S
BY DEF ListOf, Linked

\* Pushing and popping at the head, and changes elsewhere.
LEMMA ListPush ==
  ASSUME NEW D, NEW R, NEW nx \in [D -> R], NEW h, NEW S \in SUBSET D, NEW p \in D \ S,
         ListOf(nx, h, S)
  PROVE  ListOf([nx EXCEPT ![p] = h], p, S \cup {p})
<1>1. PICK n \in Nat : \E s \in [1..n -> S] : Linked(nx, h, S, n, s)
  BY DEF ListOf
<1>0. PICK s \in [1..n -> S] : Linked(nx, h, S, n, s)
  BY <1>1
<1>2. /\ h = IF n = 0 THEN NULL ELSE s[1]
      /\ \A i \in 1..n : nx[s[i]] = IF i < n THEN s[i + 1] ELSE NULL
      /\ \A i, j \in 1..n : s[i] = s[j] => i = j
      /\ \A q \in S : \E i \in 1..n : s[i] = q
  BY <1>0 DEF Linked
<1> DEFINE t == [i \in 1..n + 1 |-> IF i = 1 THEN p ELSE s[i - 1]]
           ny == [nx EXCEPT ![p] = h]
<1>3. t \in [1..n + 1 -> S \cup {p}]
  BY <1>2
<1>4. /\ t[1] = p
      /\ \A i \in 1..n : t[i + 1] = s[i]
  BY <1>2
<1>5. \A i \in 1..n + 1 : i = 1 \/ \E j \in 1..n : i = j + 1
  <2>1. ASSUME NEW i \in 1..n + 1, i # 1 PROVE i - 1 \in 1..n /\ i = (i - 1) + 1
    BY <2>1
  <2>. QED  BY <2>1
<1>6. ny[p] = h /\ \A q \in S : ny[q] = nx[q]
  OBVIOUS
<1> HIDE DEF t, ny
<1>7. ASSUME NEW i \in 1..n + 1
      PROVE  ny[t[i]] = IF i < n + 1 THEN t[i + 1] ELSE NULL
  <2>1. CASE i = 1
    BY <1>2, <1>4, <1>6, <2>1
  <2>2. ASSUME NEW j \in 1..n, i = j + 1 PROVE ny[t[i]] = IF i < n + 1 THEN t[i + 1] ELSE NULL
    <3>1. ny[t[i]] = nx[s[j]]  BY <1>2, <1>4, <1>6, <2>2
    <3>2. j < n => j + 1 \in 1..n /\ t[i + 1] = s[j + 1]  BY <1>4, <2>2
    <3>. QED  BY <1>2, <2>2, <3>1, <3>2
  <2>. QED  BY <1>5, <2>1, <2>2
<1>8. \A i, j \in 1..n + 1 : t[i] = t[j] => i = j
  <2>0. \A i \in 1..n : s[i] \in S  OBVIOUS
  <2>1. ASSUME NEW i \in 1..n PROVE t[i + 1] # p  BY <1>4, <2>0
  <2>2. ASSUME NEW i \in 1..n, NEW j \in 1..n, t[i + 1] = t[j + 1] PROVE i = j
    <3>1. s[i] = s[j]  BY <1>4, <2>2
    <3>. QED  BY <1>2, <3>1
  <2>3. ASSUME NEW i \in 1..n + 1, NEW j \in 1..n + 1, t[i] = t[j] PROVE i = j
    <3>1. CASE i = 1 \/ j = 1  BY <1>4, <1>5, <2>1, <2>3, <3>1
    <3>2. ASSUME NEW k \in 1..n, i = k + 1, NEW l \in 1..n, j = l + 1 PROVE i = j
      <4>1. k = l  BY <2>2, <2>3, <3>2
      <4>. QED  BY <3>2, <4>1
    <3>. QED  BY <1>5, <3>1, <3>2
  <2>. QED  BY <2>3
<1>9. \A q \in S \cup {p} : \E i \in 1..n + 1 : t[i] = q
  <2>1. 1 \in 1..n + 1 /\ \A i \in 1..n : i + 1 \in 1..n + 1  OBVIOUS
  <2>. QED  BY <1>2, <1>4, <2>1
<1>10. n + 1 \in Nat /\ p = IF n + 1 = 0 THEN NULL ELSE t[1]  BY <1>4
<1>11. Linked(ny, p, S \cup {p}, n + 1, t)
  BY <1>7, <1>8, <1>9, <1>10 DEF Linked
<1>. QED  BY <1>3, <1>10, <1>11 DEF ListOf, ny

LEMMA ListPop ==
  ASSUME NEW nx, NEW h, NEW S, NULL \notin S, h # NULL, ListOf(nx, h, S)
  PROVE  ListOf(nx, nx[h], S \ {h})
<1>1. PICK n \in Nat : \E s \in [1..n -> S] : Linked(nx, h, S, n, s)
  BY DEF ListOf
<1>0. PICK s \in [1..n -> S] : Linked(nx, h, S, n, s)
  BY <1>1
<1>2. /\ h = IF n = 0 THEN NULL ELSE s[1]
      /\ \A i \in 1..n : nx[s[i]] = IF i < n THEN s[i + 1] ELSE NULL
      /\ \A i, j \in 1..n : s[i] = s[j] => i = j
      /\ \A q \in S : \E i \in 1..n : s[i] = q
  BY <1>0 DEF Linked
<1>3. n # 0 /\ h = s[1]  BY <1>2
<1>4. PICK m \in Nat : n = m + 1
  <2>1. n - 1 \in Nat /\ n = (n - 1) + 1  BY <1>3
  <2>. QED  BY <2>1
<1> DEFINE t == [i \in 1..m |-> s[i + 1]]
<1>5. \A i \in 1..m : i + 1 \in 1..n /\ 1 \in 1..n /\ i + 1 # 1  BY <1>4
<1>6. t \in [1..m -> S \ {h}]  BY <1>2, <1>3, <1>5
<1>7. \A i \in 1..m : t[i] = s[i + 1]  OBVIOUS
<1> HIDE DEF t
<1>8. nx[h] = IF m = 0 THEN NULL ELSE t[1]
  <2>1. 1 \in 1..n  BY <1>4
  <2>2. m # 0 => 1 < n /\ 1 \in 1..m  BY <1>4
  <2>3. m = 0 => ~(1 < n)  BY <1>4
  <2>. QED  BY <1>2, <1>3, <1>7, <2>1, <2>2, <2>3
<1>9. ASSUME NEW i \in 1..m PROVE nx[t[i]] = IF i < m THEN t[i + 1] ELSE NULL
  <2>1. i < m <=> i + 1 < n  BY <1>4
  <2>2. i < m => i + 1 \in 1..m  OBVIOUS
  <2>3. nx[s[i + 1]] = IF i + 1 < n THEN s[(i + 1) + 1] ELSE NULL  BY <1>2, <1>5
  <2>. QED  BY <1>7, <2>1, <2>2, <2>3
<1>10. \A i, j \in 1..m : t[i] = t[j] => i = j
  <2>1. ASSUME NEW i \in 1..m, NEW j \in 1..m, t[i] = t[j] PROVE i = j
    <3>1. i + 1 = j + 1  BY <1>2, <1>5, <1>7, <2>1
    <3>. QED  BY <3>1
  <2>. QED  BY <2>1
<1>11. ASSUME NEW q \in S \ {h} PROVE \E i \in 1..m : t[i] = q
  <2>1. PICK i \in 1..n : s[i] = q  BY <1>2
  <2>2. i # 1  BY <1>3, <2>1
  <2>3. i - 1 \in 1..m /\ (i - 1) + 1 = i  BY <1>4, <2>2
  <2>. QED  BY <1>7, <2>1, <2>3
<1>12. Linked(nx, nx[h], S \ {h}, m, t)
  BY <1>8, <1>9, <1>10, <1>11 DEF Linked
<1>. QED  BY <1>6, <1>12 DEF ListOf

LEMMA ListKept ==
  ASSUME NEW D, NEW R, NEW nx \in [D -> R], NEW h, NEW S \in SUBSET D, NEW p, p \notin S,
         NEW v, ListOf(nx, h, S)
  PROVE  ListOf([nx EXCEPT ![p] = v], h, S)
<1>1. \A q \in S : [nx EXCEPT ![p] = v][q] = nx[q]  OBVIOUS
<1>. QED  BY <1>1 DEF ListOf, Linked

\* Induction, for what Walk computes: a set of naturals has a least element.
LEMMA LeastElement ==
  ASSUME NEW T, T \subseteq Nat, T # {}
  PROVE  \E x \in T : \A y \in T : x <= y
<1> DEFINE less == {ss \in Nat \X Nat : ss[1] < ss[2]}
<1>1. IsWellFoundedOn(less, Nat)  BY NatLessThanWellFounded DEF OpToRel
<1>2. PICK x \in T : \A y \in T : ~(<<y, x>> \in less)
  <2> HIDE DEF less
  <2>. QED  BY <1>1, WFMin
<1>3. ASSUME NEW y \in T PROVE x <= y
  <2>1. ~(y < x)  BY <1>2
  <2>. QED  BY <2>1
<1>. QED  BY <1>3

LEMMA ListWalk ==
  ASSUME IsFiniteSet(Packets), NULL \notin Packets, NEW S \in SUBSET Packets, NEW h,
         ListOf(next, h, S)
  PROVE  Listed(h) = S /\ Ends(h)
<1>1. PICK n \in Nat : \E s \in [1..n -> S] : Linked(next, h, S, n, s)
  BY DEF ListOf
<1>2. PICK s \in [1..n -> S] : Linked(next, h, S, n, s)
  BY <1>1
<1>3. PICK N \in Nat : N = Cardinality(Packets)
  BY FS_CardinalityType
<1>4. n <= N
  <2>1. s \in Injection(1..n, Packets)
    BY <1>2 DEF Linked, Injection, IsInjective
  <2>2. Cardinality(1..n) <= Cardinality(Packets)  BY <2>1, FS_Injection
  <2>3. Cardinality(1..n) = n  BY FS_Interval
  <2>. QED  BY <1>3, <2>2, <2>3
<1> DEFINE f == [i \in 1..N + 1 |-> IF i <= n THEN s[i] ELSE NULL]
           eq(w) == w = [i \in 1..N + 1 |-> IF i = 1 THEN h
                             ELSE IF w[i - 1] = NULL THEN NULL ELSE next[w[i - 1]]]
<1>5. \A i \in 1..N + 1 : f[i] = IF i <= n THEN s[i] ELSE NULL
  OBVIOUS
<1>6. ASSUME NEW i \in 1..N + 1
      PROVE  f[i] = IF i = 1 THEN h ELSE IF f[i - 1] = NULL THEN NULL ELSE next[f[i - 1]]
  <2> HIDE DEF f
  <2>1. CASE i = 1
    <3>1. f[i] = IF 1 <= n THEN s[1] ELSE NULL  BY <1>5, <2>1
    <3>2. 1 <= n <=> n # 0  OBVIOUS
    <3>. QED  BY <1>2, <2>1, <3>1, <3>2 DEF Linked
  <2>2. CASE i # 1
    <3>1. PICK j \in 1..N : i = j + 1
      <4>1. i - 1 \in 1..N /\ i = (i - 1) + 1  BY <2>2
      <4>. QED  BY <4>1
    <3>2. j \in 1..N + 1 /\ i - 1 = j /\ (i <= n <=> j < n)  BY <3>1
    <3>3. f[j] = (IF j <= n THEN s[j] ELSE NULL) /\ f[i] = IF j < n THEN s[j + 1] ELSE NULL
      BY <1>5, <3>1, <3>2
    <3>4. CASE j <= n
      <4>1. j \in 1..n  BY <3>4
      <4>2. s[j] # NULL /\ next[s[j]] = IF j < n THEN s[j + 1] ELSE NULL
        BY <1>2, <4>1 DEF Linked
      <4>. QED  BY <2>2, <3>2, <3>3, <3>4, <4>2
    <3>5. CASE ~(j <= n)
      <4>1. ~(j < n)  BY <3>5
      <4>. QED  BY <2>2, <3>2, <3>3, <3>5, <4>1
    <3>. QED  BY <3>4, <3>5
  <2>. QED  BY <2>1, <2>2
<1>7. eq(f)
  <2>1. f = [i \in 1..N + 1 |-> f[i]]  OBVIOUS
  <2> HIDE DEF f
  <2>. QED  BY <1>6, <2>1
<1>8. Walk(h) = CHOOSE w : eq(w)
  BY <1>3 DEF Walk
<1> HIDE DEF f
<1>9. PICK w : w = Walk(h) /\ eq(w)
  <2> HIDE DEF eq
  <2>. QED  BY <1>7, <1>8
<1>10. \A i \in 1..N + 1 : w[i] = f[i]
  <2> DEFINE T == {i \in 1..N + 1 : w[i] # f[i]}
  <2>1. SUFFICES ASSUME T # {} PROVE FALSE
    OBVIOUS
  <2>2. PICK k \in T : \A y \in T : k <= y
    <3>1. T \subseteq Nat  OBVIOUS
    <3> HIDE DEF T
    <3>. QED  BY <2>1, <3>1, LeastElement
  <2>3. k # 1 => k - 1 \in 1..N + 1 /\ w[k - 1] = f[k - 1]
    <3>1. ASSUME k # 1 PROVE k - 1 \in 1..N + 1 /\ ~(k <= k - 1)  BY <3>1
    <3>. QED  BY <2>2, <3>1
  <2>4. w[k] = IF k = 1 THEN h ELSE IF w[k - 1] = NULL THEN NULL ELSE next[w[k - 1]]
    BY <1>9, <2>2
  <2>. QED  BY <1>6, <2>2, <2>3, <2>4
<1>11. DOMAIN w = 1..N + 1
  BY <1>9
<1>12. \A i \in 1..n : i \in 1..N + 1 /\ w[i] = s[i] /\ s[i] # NULL
  BY <1>4, <1>5, <1>10
<1>13. \A i \in 1..N + 1 : w[i] = NULL \/ (i \in 1..n /\ w[i] \in S)
  BY <1>5, <1>10
<1>14. N + 1 \in 1..N + 1 /\ w[N + 1] = NULL
  BY <1>4, <1>5, <1>10
<1>15. Listed(h) = {w[i] : i \in 1..N + 1} \ {NULL}
  BY <1>9, <1>11 DEF Listed
<1>16. \A q \in S : \E i \in 1..n : w[i] = q
  BY <1>2, <1>12 DEF Linked
<1>17. {w[i] : i \in 1..N + 1} \ {NULL} = S
  <2>1. ASSUME NEW q \in S PROVE q # NULL /\ \E i \in 1..N + 1 : w[i] = q
    BY <1>12, <1>16
  <2>. QED  BY <1>13, <2>1
<1>18. Ends(h)
  BY <1>9, <1>11, <1>14 DEF Ends
<1>. QED  BY <1>15, <1>17, <1>18
-----------------------------------------------------------------------------
(* The two devices, their threads and their packets *)

LEMMA TwoDevices ==
  ASSUME NEW d \in Devs
  PROVE  /\ Other(d) \in Devs /\ Other(d) # d /\ Other(Other(d)) = d
         /\ \A e \in Devs : e = d \/ e = Other(d)
<1>1. ASSUME NEW x \in Devs PROVE \E y : y # x /\ Devs = {x, y}
  <2>1. IsFiniteSet(Devs \ {x}) /\ Cardinality(Devs \ {x}) = 1
    BY DevsAssumption, FS_RemoveElement
  <2>2. PICK y : Devs \ {x} = {y}  BY <2>1, FS_Singleton
  <2>. QED  BY <2>2
<1>2. PICK y : y # d /\ Devs = {d, y}  BY <1>1
<1>3. Other(d) = y /\ Other(y) = d  BY <1>2 DEF Other
<1>. QED  BY <1>2, <1>3

LEMMA ThreadsOf ==
  ASSUME NEW d \in Devs
  PROVE  /\ Tx(d) \in Threads /\ Tx(d)[1] = "tx" /\ Tx(d)[2] = d
         /\ Poll(d) \in Threads /\ Poll(d)[1] = "poll" /\ Poll(d)[2] = d
BY DEF Threads, Tx, Poll

LEMMA EachThread ==
  ASSUME NEW t \in Threads PROVE \E d \in Devs : t = Tx(d) \/ t = Poll(d)
BY DEF Threads, Tx, Poll

LEMMA PacketsOf ==
  ASSUME env \in Environments
  PROVE  /\ IsFiniteSet(Packets) /\ NULL \notin Packets
         /\ \A p \in Packets : p[1] \in Devs
         /\ env.pool \in Nat \ {0} /\ env.lockup \in Nat
<1>1. env.pool \in Nat \ {0} /\ env.lockup \in Nat  BY EnvironmentsAssumption
<1>2. IsFiniteSet(1..env.pool)  BY <1>1, FS_Interval
<1>3. IsFiniteSet(Packets)  BY <1>2, DevsAssumption, FS_Product DEF Packets
<1>. QED  BY <1>1, <1>3, NullAssumption DEF Packets

LEMMA TypesInit == Init => TypeOK
<1>1. SUFFICES ASSUME Init PROVE TypeOK  OBVIOUS
<1>2. env.pool \in Nat \ {0}  BY <1>1, PacketsOf DEF Init
<1>3. \A d \in Devs : <<d, env.pool>> \in Packets  BY <1>2 DEF Packets
<1>4. ASSUME NEW p \in Packets, p[2] # 1 PROVE <<p[1], p[2] - 1>> \in Packets
  BY <1>2, <1>4 DEF Packets
<1>5. next \in [Packets -> Packets \cup {NULL}]  BY <1>1, <1>4 DEF Init
<1>. QED  BY <1>1, <1>3, <1>5, DevsAssumption DEF Init, TypeOK, Locations, weight

\* The steps, by what they work on.
Sending(d) == Transmit(d) \/ GetTxBuffer(d) \/ EnqueueBuf(d) \/ NotifyNot(d) \/ Notify(d)
Signalling(d) == StoreStatus(d) \/ OwnStatus(d) \/ TxTimeout(d) \/ TimeoutWake(d)
Handling(d) == RegularInterrupt(d) \/ NapiInterrupt(d)
PollSteps(d) == PollStart(d) \/ PollTake(d) \/ PollEnd(d) \/ PollCheck(d) \/ PollEnable(d)
UpAndDown(d) == Release(d) \/ Open(d) \/ CleanupUnregister(d) \/ CleanupTeardown(d) \/ CleanupFree(d)

LEMMA StepKinds ==
  ASSUME Next
  PROVE  \E d \in Devs : \/ Sending(d) \/ Signalling(d) \/ Handling(d) \/ PollSteps(d)
                         \/ UpAndDown(d) \/ Releasing(Tx(d)) \/ Releasing(Poll(d))
BY DEF Next, HardwareTx, Polling, Sending, Signalling, Handling, PollSteps, UpAndDown

LEMMA TargetOf == ASSUME NEW d \in Devs PROVE Target(d) \in Devs
BY TwoDevices DEF Target

LEMMA ResumesAt ==
  ASSUME NEW d \in Devs
  PROVE  Resume(Tx(d)) \in {"own", "idle", "finish"} /\ Resume(Poll(d)) = "poll"
BY ThreadsOf DEF Resume

LEMMA SendTypes == ASSUME TypeOK, NEW d \in Devs, Sending(d) PROVE TypeOK'
<1> USE ThreadsOf, TwoDevices DEF TypeOK, Goto, Locations, lists, priv, net, poll, local, module,
      Packets
<1>1. CASE Transmit(d)  BY <1>1 DEF Transmit
<1>2. CASE GetTxBuffer(d)
  <2>1. stopped' \in [Devs -> BOOLEAN]  BY <1>2 DEF GetTxBuffer
  <2>2. ppool' \in [Devs -> Packets \cup {NULL}]  BY <1>2 DEF GetTxBuffer
  <2>. QED  BY <1>2, <2>1, <2>2 DEF GetTxBuffer
<1>3. CASE EnqueueBuf(d)
  <2>1. next' \in [Packets -> Packets \cup {NULL}]
    <3>1. rx_queue[Other(d)] \in Packets \cup {NULL}  OBVIOUS
    <3>2. next' = [next EXCEPT ![held[Tx(d)]] = rx_queue[Other(d)]]  BY <1>3 DEF EnqueueBuf
    <3>3. next \in [Packets -> Packets \cup {NULL}]  OBVIOUS
    <3> HIDE DEF Packets
    <3>. QED  BY ONLY <3>1, <3>2, <3>3
  <2>2. rx_queue' \in [Devs -> Packets \cup {NULL}]  BY <1>3 DEF EnqueueBuf
  <2>3. held' \in [Threads -> Packets \cup {NULL}]  BY <1>3 DEF EnqueueBuf
  <2>. QED  BY <1>3, <2>1, <2>2, <2>3 DEF EnqueueBuf
<1>4. CASE NotifyNot(d)  BY <1>4 DEF NotifyNot
<1>5. CASE Notify(d)  BY <1>5 DEF Notify
<1>. QED  BY <1>1, <1>2, <1>3, <1>4, <1>5 DEF Sending

LEMMA SignalTypes == ASSUME TypeOK, NEW d \in Devs, Signalling(d) PROVE TypeOK'
<1> USE ThreadsOf, TargetOf DEF TypeOK, Goto, Locations, vars, lists, priv, net, poll, local,
      module, Packets
<1>1. CASE StoreStatus(d)
  <2>1. stopped' \in [Devs -> BOOLEAN]  BY <1>1 DEF StoreStatus
  <2>2. pc' \in [Threads -> Locations]  BY <1>1 DEF StoreStatus
  <2>3. status' \in [Devs -> SUBSET {"RX", "TX"}]  BY <1>1 DEF StoreStatus
  <2>. QED  BY <1>1, <2>1, <2>2, <2>3 DEF StoreStatus
<1>2. CASE OwnStatus(d)  BY <1>2 DEF OwnStatus
<1>3. CASE TxTimeout(d)  BY <1>3 DEF TxTimeout
<1>4. CASE TimeoutWake(d)  BY <1>4 DEF TimeoutWake
<1>. QED  BY <1>1, <1>2, <1>3, <1>4 DEF Signalling

LEMMA DoneTypes ==
  ASSUME TypeOK, NEW e \in Devs, TxDone(e)
  PROVE  /\ skb' \in [Devs -> {"none", "driver", "freed", "again"}]
         /\ tx_packets' \in [Devs -> Nat]
<1>1. \A n \in Nat : env.lockup # 0 => (n + 1) % env.lockup \in Nat
  BY PacketsOf, Z3 DEF TypeOK
<1>2. skb' \in [Devs -> {"none", "driver", "freed", "again"}]  BY DEF TypeOK, TxDone, Freed
<1>3. tx_packets[e] \in Nat  BY DEF TypeOK
<1>4. tx_packets' \in [Devs -> Nat]
  <2>1. PICK n \in Nat : n = (tx_packets[e] + 1) % env.lockup \/ env.lockup = 0  BY <1>1, <1>3
  <2>. QED  BY <2>1 DEF TypeOK, TxDone
<1>. QED  BY <1>2, <1>4

LEMMA HandleTypes == ASSUME TypeOK, NEW d \in Devs, Handling(d) PROVE TypeOK'
<1> USE ThreadsOf, TargetOf, ResumesAt
<1>1. CASE RegularInterrupt(d)
  <2>1. TxDone(Target(d))  BY <1>1 DEF RegularInterrupt
  <2>. QED  BY <1>1, <2>1, DoneTypes DEF RegularInterrupt, TypeOK, Goto, Locations, lists, net,
              poll, module, Packets
<1>2. CASE NapiInterrupt(d)
  <2>1. TxDone(Target(d))  BY <1>2 DEF NapiInterrupt
  <2>2. rx_int_enabled' \in [Devs -> BOOLEAN] /\ scheduled' \in [Devs -> BOOLEAN]
    BY <1>2 DEF NapiInterrupt, TypeOK
  <2>. QED  BY <1>2, <2>1, <2>2, DoneTypes DEF NapiInterrupt, TypeOK, Goto, Locations, lists,
              poll, local, module, Packets
<1>. QED  BY <1>1, <1>2 DEF Handling

LEMMA ReleaseTypes == ASSUME TypeOK, NEW t \in Threads, Releasing(t) PROVE TypeOK'
<1>1. Resume(t) \in Locations  BY ResumesAt, EachThread DEF Locations
<1> USE <1>1 DEF TypeOK, Goto, Locations, lists, priv, net, poll, local, module, Packets
<1>2. CASE ReleasePush(t)  BY <1>2 DEF ReleasePush
<1>3. CASE ReleaseTest(t)  BY <1>3 DEF ReleaseTest
<1>4. CASE ReleaseWake(t)
  <2>1. stopped' \in [Devs -> BOOLEAN]  BY <1>4 DEF ReleaseWake
  <2>. QED  BY <1>4, <2>1 DEF ReleaseWake
<1>. QED  BY <1>2, <1>3, <1>4 DEF Releasing

LEMMA PollTypes == ASSUME TypeOK, NEW d \in Devs, PollSteps(d) PROVE TypeOK'
<1> USE ThreadsOf DEF TypeOK, Goto, Locations, lists, priv, net, poll, local, module, Packets, weight
<1>1. CASE PollStart(d)  BY <1>1 DEF PollStart
<1>2. CASE PollTake(d)
  <2>1. npackets' \in [Devs -> 0..weight]
    <3>1. PICK k \in {0, 1} : npackets' = [npackets EXCEPT ![d] = @ + k]  BY <1>2 DEF PollTake
    <3>2. npackets[d] \in 0..2 /\ npackets[d] < 2  BY <1>2 DEF PollTake
    <3>3. npackets[d] + k \in 0..2  BY <3>2
    <3>. QED  BY <3>1, <3>3
  <2>. QED  BY <1>2, <2>1 DEF PollTake
<1>3. CASE PollEnd(d)  BY <1>3 DEF PollEnd
<1>4. CASE PollCheck(d)
  <2>1. scheduled' \in [Devs -> BOOLEAN]  BY <1>4 DEF PollCheck
  <2>. QED  BY <1>4, <2>1 DEF PollCheck
<1>5. CASE PollEnable(d)  BY <1>5 DEF PollEnable
<1>. QED  BY <1>1, <1>2, <1>3, <1>4, <1>5 DEF PollSteps

LEMMA UpDownTypes ==
  ASSUME TypeOK, NEW d \in Devs, UpAndDown(d), Pool(d) \subseteq Packets PROVE TypeOK'
<1> USE DEF TypeOK, Closed, Cleanup, lists, priv, poll, local, module, Packets
<1>1. CASE Release(d)  BY <1>1 DEF Release
<1>2. CASE Open(d)  BY <1>2 DEF Open
<1>3. CASE CleanupUnregister(d)  BY <1>3 DEF CleanupUnregister
<1>4. CASE CleanupTeardown(d)  BY <1>4 DEF CleanupTeardown
<1>5. CASE CleanupFree(d)  BY <1>5 DEF CleanupFree
<1>. QED  BY <1>1, <1>2, <1>3, <1>4, <1>5 DEF UpAndDown
-----------------------------------------------------------------------------
(* Where every packet is: loc[p] is a list, a thread, or the freed memory.   *)

InPool(d)  == <<"pool", d>>
InQueue(d) == <<"queue", d>>
Gone(d)    == <<"kfree", d>>
Places     == {"pool", "queue", "tx", "poll", "kfree"} \X Devs

At(loc, x) == {p \in Packets : loc[p] = x}

Allowed(p) == {InPool(p[1]), InQueue(Other(p[1])), Gone(p[1])} \cup Threads

PlacedBy(loc) ==
  /\ loc \in [Packets -> Places]
  /\ \A p \in Packets : loc[p] \in Allowed(p)
  /\ \A d \in Devs : ListOf(next, ppool[d], At(loc, InPool(d)))
  /\ \A d \in Devs : ListOf(next, rx_queue[d], At(loc, InQueue(d)))
  /\ \A t \in Threads : At(loc, t) = InHand(t)
  /\ \A p \in Packets : p \in kfreed <=> loc[p] = Gone(p[1])

OwnInHand == \A d \in Devs : pc[Tx(d)] = "enqueue" => held[Tx(d)][1] = d

Placement == \E loc : PlacedBy(loc)
Placed    == OwnInHand /\ Placement

LEMMA ListsDiffer ==
  ASSUME NEW d \in Devs, NEW e \in Devs
  PROVE  /\ InPool(d) \in Places /\ InQueue(d) \in Places /\ Gone(d) \in Places
         /\ InPool(d) # InQueue(e) /\ InPool(d) # Gone(e) /\ InQueue(d) # Gone(e)
         /\ d # e => InPool(d) # InPool(e)
         /\ \A t \in Threads : InPool(d) # t
BY DEF Places, InPool, InQueue, Gone, Threads

LEMMA PlacesDiffer ==
  ASSUME NEW d \in Devs, NEW e \in Devs, NEW t \in Threads
  PROVE  /\ InPool(d) \in Places /\ InQueue(d) \in Places /\ Gone(d) \in Places /\ t \in Places
         /\ InPool(d) # InQueue(e) /\ InPool(d) # Gone(e) /\ InPool(d) # t
         /\ InQueue(d) # Gone(e) /\ InQueue(d) # t /\ Gone(d) # t
         /\ d # e => InPool(d) # InPool(e) /\ InQueue(d) # InQueue(e) /\ Gone(d) # Gone(e)
BY DEF Places, InPool, InQueue, Gone, Threads

LEMMA AtOne == ASSUME NEW loc, NEW x, NEW y, x # y, NEW p, p \in At(loc, x) PROVE p \notin At(loc, y)
BY DEF At

\* Nothing is moved.
LEMMA PlacesKept ==
  ASSUME NEW loc, PlacedBy(loc), env' = env, UNCHANGED <<lists, kfreed>>,
         \A t \in Threads : InHand(t)' = InHand(t)
  PROVE  PlacedBy(loc)'
<1>1. Packets' = Packets /\ \A x : At(loc, x)' = At(loc, x)  BY DEF Packets, At
<1>. QED  BY <1>1 DEF PlacedBy, lists, Allowed

\* A thread takes the first packet of a pool or of a queue.
Takes(t, d, p) ==
  /\ p # NULL /\ env' = env /\ kfreed' = kfreed /\ next' = next
  /\ InHand(t) = {} /\ InHand(t)' = {p}
  /\ \A u \in Threads \ {t} : InHand(u)' = InHand(u)
  /\ \/ p = ppool[d] /\ ppool' = [ppool EXCEPT ![d] = next[p]] /\ rx_queue' = rx_queue
     \/ p = rx_queue[d] /\ rx_queue' = [rx_queue EXCEPT ![d] = next[p]] /\ ppool' = ppool

LEMMA PacketTaken ==
  ASSUME TypeOK, Placement, NEW t \in Threads, NEW d \in Devs, NEW p, Takes(t, d, p)
  PROVE  Placement'
<1>0. PICK loc : PlacedBy(loc)  BY DEF Placement
<1> USE <1>0 DEF Takes
<1> DEFINE moved == [loc EXCEPT ![p] = t]
<1>1. Packets' = Packets /\ \A l, x : At(l, x)' = At(l, x)  BY DEF Packets, At
<1>2. NULL \notin Packets  BY PacketsOf DEF TypeOK
<1>3. \A x : NULL \notin At(loc, x)  BY <1>2 DEF At
<1>4. PICK x : /\ \/ x = InPool(d) /\ p = ppool[d] /\ ppool' = [ppool EXCEPT ![d] = next[p]]
                     /\ rx_queue' = rx_queue
                  \/ x = InQueue(d) /\ p = rx_queue[d] /\ ppool' = ppool
                     /\ rx_queue' = [rx_queue EXCEPT ![d] = next[p]]
  OBVIOUS
<1>5. ListOf(next, p, At(loc, x))  BY <1>4 DEF PlacedBy
<1>6. p \in At(loc, x) /\ ListOf(next, next[p], At(loc, x) \ {p})  BY <1>3, <1>5, ListHead, ListPop
<1>7. p \in Packets /\ loc[p] = x  BY <1>6 DEF At
<1>8. x # t  BY <1>4, PlacesDiffer
<1>9. \A z : At(moved, z) = IF z = t THEN At(loc, z) \cup {p} ELSE At(loc, z) \ {p}
  <2>1. loc \in [Packets -> Places]  BY DEF PlacedBy
  <2>. QED  BY <1>7, <2>1 DEF At
<1>10. \A z : z # x /\ z # t => At(moved, z) = At(loc, z)
  <2>1. ASSUME NEW z, z # x, z # t PROVE At(moved, z) = At(loc, z)
    <3>1. p \notin At(loc, z)  BY <1>6, <2>1, AtOne
    <3>. QED  BY <1>9, <2>1, <3>1
  <2>. QED  BY <2>1
<1>11. At(moved, x) = At(loc, x) \ {p} /\ At(moved, t) = At(loc, t) \cup {p}
  BY <1>8, <1>9
<1>12. moved \in [Packets -> Places] /\ \A q \in Packets : moved[q] = IF q = p THEN t ELSE loc[q]
  BY <1>7, PlacesDiffer DEF PlacedBy
<1> HIDE DEF moved
<1>13. \A q \in Packets : moved[q] \in Allowed(q)
  BY <1>12 DEF PlacedBy, Allowed
<1>14. ASSUME NEW e \in Devs PROVE ListOf(next, ppool'[e], At(moved, InPool(e)))
  <2>0. InPool(e) # t /\ (e # d => InPool(e) # InPool(d)) /\ InPool(e) # InQueue(d)
    BY PlacesDiffer
  <2>1. CASE InPool(e) = x
    <3>1. e = d /\ x = InPool(d)  BY <1>4, <2>0, <2>1
    <3>2. p = ppool[d] /\ ppool' = [ppool EXCEPT ![d] = next[p]]  BY <1>4, <2>0, <2>1, <3>1
    <3>3. ppool'[e] = next[p]  BY <3>1, <3>2 DEF TypeOK
    <3>. QED  BY <1>6, <1>11, <2>1, <3>3
  <2>2. CASE InPool(e) # x
    <3>1. ppool'[e] = ppool[e]  BY <1>4, <2>2 DEF TypeOK
    <3>2. At(moved, InPool(e)) = At(loc, InPool(e))  BY <1>10, <2>0, <2>2
    <3>. QED  BY <3>1, <3>2 DEF PlacedBy
  <2>. QED  BY <2>1, <2>2
<1>15. ASSUME NEW e \in Devs PROVE ListOf(next, rx_queue'[e], At(moved, InQueue(e)))
  <2>0. InQueue(e) # t /\ (e # d => InQueue(e) # InQueue(d)) /\ InQueue(e) # InPool(d)
    BY PlacesDiffer
  <2>1. CASE InQueue(e) = x
    <3>1. e = d /\ x = InQueue(d)  BY <1>4, <2>0, <2>1
    <3>2. p = rx_queue[d] /\ rx_queue' = [rx_queue EXCEPT ![d] = next[p]]
      BY <1>4, <2>0, <2>1, <3>1
    <3>3. rx_queue'[e] = next[p]  BY <3>1, <3>2 DEF TypeOK
    <3>. QED  BY <1>6, <1>11, <2>1, <3>3
  <2>2. CASE InQueue(e) # x
    <3>1. rx_queue'[e] = rx_queue[e]  BY <1>4, <2>2 DEF TypeOK
    <3>2. At(moved, InQueue(e)) = At(loc, InQueue(e))  BY <1>10, <2>0, <2>2
    <3>. QED  BY <3>1, <3>2 DEF PlacedBy
  <2>. QED  BY <2>1, <2>2
<1>16. ASSUME NEW u \in Threads PROVE At(moved, u) = InHand(u)'
  <2>1. u # x  BY <1>4, PlacesDiffer
  <2>2. CASE u = t
    <3>1. At(moved, t) = {p}  BY <1>11 DEF PlacedBy
    <3>. QED  BY <2>2, <3>1 DEF InHand
  <2>3. CASE u # t  BY <1>10, <2>1, <2>3 DEF PlacedBy
  <2>. QED  BY <2>2, <2>3
<1>17. \A q \in Packets : q \in kfreed <=> moved[q] = Gone(q[1])
  <2>1. p[1] \in Devs  BY <1>7, PacketsOf DEF TypeOK
  <2>2. loc[p] # Gone(p[1]) /\ t # Gone(p[1])  BY <1>4, <1>7, <2>1, PlacesDiffer
  <2>. QED  BY <1>7, <1>12, <2>2 DEF PlacedBy
<1>18. \A q : Allowed(q)' = Allowed(q)  BY DEF Allowed
<1>19. PlacedBy(moved)'
  BY <1>1, <1>12, <1>13, <1>14, <1>15, <1>16, <1>17, <1>18 DEF PlacedBy
<1>. QED  BY <1>19 DEF Placement

\* A thread gives its packet to a pool or to a queue.
Gives(t, d, p) ==
  /\ env' = env /\ kfreed' = kfreed
  /\ InHand(t) = {p} /\ InHand(t)' = {}
  /\ \A u \in Threads \ {t} : InHand(u)' = InHand(u)
  /\ \/ /\ d = p[1] /\ next' = [next EXCEPT ![p] = ppool[d]]
        /\ ppool' = [ppool EXCEPT ![d] = p] /\ rx_queue' = rx_queue
     \/ /\ d = Other(p[1]) /\ next' = [next EXCEPT ![p] = rx_queue[d]]
        /\ rx_queue' = [rx_queue EXCEPT ![d] = p] /\ ppool' = ppool

LEMMA PacketGiven ==
  ASSUME TypeOK, Placement, NEW t \in Threads, NEW d \in Devs, NEW p, Gives(t, d, p)
  PROVE  Placement'
<1>0. PICK loc : PlacedBy(loc)  BY DEF Placement
<1> USE <1>0 DEF Gives
<1>1. Packets' = Packets /\ \A l, x : At(l, x)' = At(l, x)  BY DEF Packets, At
<1>2. PICK y, h : /\ next' = [next EXCEPT ![p] = h]
                  /\ \/ y = InPool(d) /\ d = p[1] /\ h = ppool[d]
                        /\ ppool' = [ppool EXCEPT ![d] = p] /\ rx_queue' = rx_queue
                     \/ y = InQueue(d) /\ d = Other(p[1]) /\ h = rx_queue[d] /\ ppool' = ppool
                        /\ rx_queue' = [rx_queue EXCEPT ![d] = p]
  OBVIOUS
<1>3. p \in At(loc, t)  BY DEF PlacedBy
<1>4. p \in Packets /\ loc[p] = t /\ p[1] \in Devs  BY <1>3, PacketsOf DEF At, TypeOK
<1>5. y # t  BY <1>2, PlacesDiffer
<1>6. p \notin At(loc, y) /\ At(loc, y) \subseteq Packets  BY <1>4, <1>5 DEF At
<1>7. ListOf(next, h, At(loc, y))  BY <1>2 DEF PlacedBy
<1>8. next \in [Packets -> Packets \cup {NULL}]  BY DEF TypeOK
<1>9. ListOf(next', p, At(loc, y) \cup {p})
  <2>1. ListOf([next EXCEPT ![p] = h], p, At(loc, y) \cup {p})
    <3> DEFINE S == At(loc, y)
    <3>1. S \in SUBSET Packets /\ p \in Packets \ S /\ ListOf(next, h, S)  BY <1>4, <1>6, <1>7
    <3> HIDE DEF S
    <3>2. ListOf([next EXCEPT ![p] = h], p, S \cup {p})  BY <1>8, <3>1, ListPush
    <3>. QED  BY <3>2 DEF S
  <2>. QED  BY <1>2, <2>1
<1> DEFINE moved == [loc EXCEPT ![p] = y]
<1>10. moved \in [Packets -> Places] /\ \A q \in Packets : moved[q] = IF q = p THEN y ELSE loc[q]
  BY <1>2, <1>4, PlacesDiffer DEF PlacedBy
<1> HIDE DEF moved
<1>11. At(moved, y) = At(loc, y) \cup {p} /\ At(moved, t) = {}
  <2>1. At(loc, t) = {p}  BY DEF PlacedBy
  <2>. QED  BY <1>4, <1>5, <1>10, <2>1 DEF At
<1>12. \A z : z # y /\ z # t => At(moved, z) = At(loc, z)
  BY <1>4, <1>10 DEF At
<1>13. \A q \in Packets : moved[q] \in Allowed(q)
  <2>1. y \in Allowed(p)  BY <1>2 DEF Allowed
  <2>. QED  BY <1>10, <2>1 DEF PlacedBy
<1>14. ASSUME NEW z, z # y, z # t, NEW g, ListOf(next, g, At(loc, z))
       PROVE  ListOf(next', g, At(moved, z))
  <2>1. p \notin At(loc, z) /\ At(loc, z) \in SUBSET Packets  BY <1>4, <1>14 DEF At
  <2>2. ListOf([next EXCEPT ![p] = h], g, At(loc, z))
    <3> DEFINE S == At(loc, z)
    <3>1. S \in SUBSET Packets /\ p \notin S /\ ListOf(next, g, S)  BY <1>14, <2>1
    <3> HIDE DEF S
    <3>2. ListOf([next EXCEPT ![p] = h], g, S)  BY <1>8, <3>1, ListKept
    <3>. QED  BY <3>2 DEF S
  <2>. QED  BY <1>2, <1>12, <1>14, <2>2
<1>15. ASSUME NEW e \in Devs PROVE ListOf(next', ppool'[e], At(moved, InPool(e)))
  <2>0. InPool(e) # t /\ (e # d => InPool(e) # InPool(d)) /\ InPool(e) # InQueue(d)
    BY PlacesDiffer
  <2>1. CASE InPool(e) = y
    <3>1. e = d /\ y = InPool(d)  BY <1>2, <2>0, <2>1
    <3>2. ppool' = [ppool EXCEPT ![d] = p]  BY <1>2, <2>0, <2>1, <3>1
    <3>3. ppool'[e] = p  BY <3>1, <3>2 DEF TypeOK
    <3>. QED  BY <1>9, <1>11, <2>1, <3>3
  <2>2. CASE InPool(e) # y
    <3>1. ppool'[e] = ppool[e]  BY <1>2, <2>2 DEF TypeOK
    <3>2. ListOf(next, ppool[e], At(loc, InPool(e)))  BY DEF PlacedBy
    <3>. QED  BY <1>14, <2>0, <2>2, <3>1, <3>2
  <2>. QED  BY <2>1, <2>2
<1>16. ASSUME NEW e \in Devs PROVE ListOf(next', rx_queue'[e], At(moved, InQueue(e)))
  <2>0. InQueue(e) # t /\ (e # d => InQueue(e) # InQueue(d)) /\ InQueue(e) # InPool(d)
    BY PlacesDiffer
  <2>1. CASE InQueue(e) = y
    <3>1. e = d /\ y = InQueue(d)  BY <1>2, <2>0, <2>1
    <3>2. rx_queue' = [rx_queue EXCEPT ![d] = p]  BY <1>2, <2>0, <2>1, <3>1
    <3>3. rx_queue'[e] = p  BY <3>1, <3>2 DEF TypeOK
    <3>. QED  BY <1>9, <1>11, <2>1, <3>3
  <2>2. CASE InQueue(e) # y
    <3>1. rx_queue'[e] = rx_queue[e]  BY <1>2, <2>2 DEF TypeOK
    <3>2. ListOf(next, rx_queue[e], At(loc, InQueue(e)))  BY DEF PlacedBy
    <3>. QED  BY <1>14, <2>0, <2>2, <3>1, <3>2
  <2>. QED  BY <2>1, <2>2
<1>17. ASSUME NEW u \in Threads PROVE At(moved, u) = InHand(u)'
  <2>1. u # y  BY <1>2, PlacesDiffer
  <2>2. CASE u = t
    <3>1. At(moved, t) = {}  BY <1>11
    <3>. QED  BY <2>2, <3>1 DEF InHand
  <2>3. CASE u # t  BY <1>12, <2>1, <2>3 DEF PlacedBy
  <2>. QED  BY <2>2, <2>3
<1>18. \A q \in Packets : q \in kfreed <=> moved[q] = Gone(q[1])
  <2>2. loc[p] # Gone(p[1]) /\ y # Gone(p[1])  BY <1>2, <1>4, PlacesDiffer
  <2>. QED  BY <1>4, <1>10, <2>2 DEF PlacedBy
<1>19. \A q : Allowed(q)' = Allowed(q)  BY DEF Allowed
<1>20. PlacedBy(moved)'
  BY <1>1, <1>10, <1>13, <1>15, <1>16, <1>17, <1>18, <1>19 DEF PlacedBy
<1>. QED  BY <1>20 DEF Placement

\* A pool is freed.
LEMMA PoolFreed ==
  ASSUME TypeOK, NEW loc, PlacedBy(loc), NEW d \in Devs,
         env' = env, kfreed' = kfreed \cup Pool(d), next' = next, rx_queue' = rx_queue,
         ppool' = [ppool EXCEPT ![d] = NULL], \A t \in Threads : InHand(t)' = InHand(t)
  PROVE  Pool(d) \subseteq Packets /\ Placement'
<1>1. Packets' = Packets /\ \A l, x : At(l, x)' = At(l, x)  BY DEF Packets, At
<1>2. Pool(d) = At(loc, InPool(d)) /\ Pool(d) \subseteq Packets
  <2>1. IsFiniteSet(Packets) /\ NULL \notin Packets  BY PacketsOf DEF TypeOK
  <2>2. At(loc, InPool(d)) \in SUBSET Packets /\ ListOf(next, ppool[d], At(loc, InPool(d)))
    BY DEF At, PlacedBy
  <2>3. Listed(ppool[d]) = At(loc, InPool(d))  BY <2>1, <2>2, ListWalk
  <2>. QED  BY <2>2, <2>3 DEF Pool
<1>3. PICK l : l = [q \in Packets |-> IF loc[q] = InPool(d) THEN Gone(d) ELSE loc[q]]  OBVIOUS
<1>4. /\ l \in [Packets -> Places]
      /\ \A q \in Packets : l[q] = IF loc[q] = InPool(d) THEN Gone(d) ELSE loc[q]
  BY <1>3, ListsDiffer DEF PlacedBy
<1>5. \A q \in Packets : loc[q] = InPool(d) => q[1] = d
  <2>1. ASSUME NEW q \in Packets, loc[q] = InPool(d) PROVE q[1] = d
    <3>1. q[1] \in Devs /\ Other(q[1]) \in Devs  BY PacketsOf, TwoDevices DEF TypeOK
    <3>2. loc[q] \in Allowed(q)  BY DEF PlacedBy
    <3>. QED  BY <2>1, <3>1, <3>2, ListsDiffer DEF Allowed
  <2>. QED  BY <2>1
<1>6. \A q \in Packets : l[q] \in Allowed(q)
  BY <1>4, <1>5 DEF PlacedBy, Allowed
<1>7. At(l, InPool(d)) = {}
  BY <1>4, ListsDiffer DEF At
<1>8. \A z : z # InPool(d) /\ z # Gone(d) => At(l, z) = At(loc, z)
  BY <1>4 DEF At
<1>9. ASSUME NEW e \in Devs PROVE ListOf(next, ppool'[e], At(l, InPool(e)))
  <2>1. CASE e = d
    <3>1. ppool'[e] = NULL  BY <2>1 DEF TypeOK
    <3>. QED  BY <1>7, <2>1, <3>1, ListNil
  <2>2. CASE e # d
    <3>1. ppool'[e] = ppool[e]  BY <2>2 DEF TypeOK
    <3>2. At(l, InPool(e)) = At(loc, InPool(e))  BY <1>8, <2>2, ListsDiffer
    <3>. QED  BY <3>1, <3>2 DEF PlacedBy
  <2>. QED  BY <2>1, <2>2
<1>10. ASSUME NEW e \in Devs PROVE ListOf(next, rx_queue[e], At(l, InQueue(e)))
  <2>1. At(l, InQueue(e)) = At(loc, InQueue(e))  BY <1>8, ListsDiffer
  <2>. QED  BY <2>1 DEF PlacedBy
<1>11. ASSUME NEW u \in Threads PROVE At(l, u) = InHand(u)'
  <2>1. u # InPool(d) /\ u # Gone(d)  BY PlacesDiffer
  <2>. QED  BY <1>8, <2>1 DEF PlacedBy
<1>12. \A q \in Packets : q \in kfreed' <=> l[q] = Gone(q[1])
  <2>1. \A q \in Packets : q \in Pool(d) <=> loc[q] = InPool(d)  BY <1>2 DEF At
  <2>2. \A q \in Packets : q[1] \in Devs  BY PacketsOf DEF TypeOK
  <2>. QED  BY <1>4, <1>5, <2>1, <2>2, ListsDiffer DEF PlacedBy
<1>13. \A q : Allowed(q)' = Allowed(q)  BY DEF Allowed
<1>14. PlacedBy(l)'
  BY <1>1, <1>4, <1>6, <1>9, <1>10, <1>11, <1>12, <1>13 DEF PlacedBy
<1>. QED  BY <1>2, <1>14 DEF Placement

\* Who has a packet in hand.
Handling_(l) == l \in {"enqueue", "push"}

LEMMA OthersKeep ==
  ASSUME TypeOK, NEW t \in Threads, NEW x, pc' = [pc EXCEPT ![t] = x],
         held' = [held EXCEPT ![t] = held'[t]]
  PROVE  /\ pc'[t] = x
         /\ \A u \in Threads \ {t} : pc'[u] = pc[u] /\ held'[u] = held[u] /\ InHand(u)' = InHand(u)
BY DEF TypeOK, InHand

LEMMA StillPlaced ==
  ASSUME TypeOK, Placed, env' = env, UNCHANGED <<lists, kfreed>>,
         NEW t \in Threads, NEW x, pc' = [pc EXCEPT ![t] = x], held' = [held EXCEPT ![t] = held'[t]],
         ~Handling_(pc[t]), ~Handling_(x)
  PROVE  Placed'
<1>1. PICK loc : PlacedBy(loc)  BY DEF Placed, Placement
<1>2. InHand(t) = {} /\ InHand(t)' = {}  BY OthersKeep DEF InHand, Handling_
<1>3. \A u \in Threads : InHand(u)' = InHand(u)
  <2>1. ASSUME NEW u \in Threads PROVE InHand(u)' = InHand(u)
    <3>1. CASE u = t  BY <1>2, <3>1 DEF InHand
    <3>2. CASE u # t  BY <3>2, OthersKeep
    <3>. QED  BY <3>1, <3>2
  <2>. QED  BY <2>1
<1>4. PlacedBy(loc)'  BY <1>1, <1>3, PlacesKept
<1>5. OwnInHand'
  <2>1. ASSUME NEW d \in Devs, pc'[Tx(d)] = "enqueue" PROVE held'[Tx(d)][1] = d
    <3>1. Tx(d) # t  BY <2>1, OthersKeep DEF Handling_
    <3>0. Tx(d) \in Threads \ {t}  BY <3>1, ThreadsOf
    <3>2. pc'[Tx(d)] = pc[Tx(d)] /\ held'[Tx(d)] = held[Tx(d)]  BY <3>0, OthersKeep
    <3>. QED  BY <2>1, <3>2 DEF Placed, OwnInHand
  <2>. QED  BY <2>1 DEF OwnInHand
<1>. QED  BY <1>4, <1>5 DEF Placed, Placement

LEMMA IdlePlaced ==
  ASSUME Placed, env' = env, UNCHANGED <<lists, kfreed, pc, held>>
  PROVE  Placed'
<1>1. PICK loc : PlacedBy(loc)  BY DEF Placed, Placement
<1>2. \A u \in Threads : InHand(u)' = InHand(u)  BY DEF InHand
<1>3. PlacedBy(loc)'  BY <1>1, <1>2, PlacesKept
<1>4. OwnInHand'  BY DEF Placed, OwnInHand
<1>. QED  BY <1>3, <1>4 DEF Placed, Placement

\* A step of t that leaves what Tx(d) has taken from its own pool.
LEMMA OwnKept ==
  ASSUME TypeOK, Placed, NEW t \in Threads, NEW x, pc' = [pc EXCEPT ![t] = x],
         held' = [held EXCEPT ![t] = held'[t]], x # "enqueue"
  PROVE  OwnInHand'
<1>1. ASSUME NEW d \in Devs, pc'[Tx(d)] = "enqueue" PROVE held'[Tx(d)][1] = d
  <2>1. Tx(d) # t  BY <1>1, OthersKeep
  <2>0. Tx(d) \in Threads \ {t}  BY <2>1, ThreadsOf
  <2>2. pc'[Tx(d)] = pc[Tx(d)] /\ held'[Tx(d)] = held[Tx(d)]  BY <2>0, OthersKeep
  <2>. QED  BY <1>1, <2>2 DEF Placed, OwnInHand
<1>. QED  BY <1>1 DEF OwnInHand

LEMMA HeldKept == ASSUME TypeOK, held' = held, NEW t \in Threads PROVE held' = [held EXCEPT ![t] = held'[t]]
BY DEF TypeOK

LEMMA SendPlaced == ASSUME TypeOK, Placed, NEW d \in Devs, Sending(d) PROVE Placed'
<1>0. Tx(d) \in Threads /\ Other(d) \in Devs  BY ThreadsOf, TwoDevices
<1>1. PICK loc : PlacedBy(loc)  BY DEF Placed, Placement
<1>2. CASE Transmit(d) \/ NotifyNot(d) \/ Notify(d)
  <2>1. /\ env' = env /\ UNCHANGED <<lists, kfreed>> /\ held' = held
        /\ \E x \in {"get", "own", "store"} : pc' = [pc EXCEPT ![Tx(d)] = x]
        /\ pc[Tx(d)] \in {"idle", "notify"}
    BY <1>2 DEF Transmit, NotifyNot, Notify, Goto, net, module, local
  <2>. QED  BY <1>0, <2>1, HeldKept, StillPlaced DEF Handling_
<1>3. CASE GetTxBuffer(d)
  <2>1. /\ ppool[d] # NULL /\ env' = env /\ kfreed' = kfreed /\ next' = next /\ rx_queue' = rx_queue
        /\ ppool' = [ppool EXCEPT ![d] = next[ppool[d]]]
        /\ pc[Tx(d)] = "get" /\ pc' = [pc EXCEPT ![Tx(d)] = "enqueue"]
        /\ held' = [held EXCEPT ![Tx(d)] = ppool[d]]
    BY <1>3 DEF GetTxBuffer, Goto, module
  <2>2. held'[Tx(d)] = ppool[d] /\ pc'[Tx(d)] = "enqueue"  BY <1>0, <2>1 DEF TypeOK
  <2>3. InHand(Tx(d)) = {} /\ InHand(Tx(d))' = {ppool[d]}  BY <2>1, <2>2 DEF InHand
  <2>4. /\ \A u \in Threads \ {Tx(d)} : InHand(u)' = InHand(u)
        /\ \A u \in Threads \ {Tx(d)} : pc'[u] = pc[u] /\ held'[u] = held[u]
    BY <1>0, <2>1, <2>2, OthersKeep
  <2>5. Placement'
    <3>1. Takes(Tx(d), d, ppool[d])  BY <2>1, <2>3, <2>4 DEF Takes
    <3>. QED  BY <1>0, <3>1, PacketTaken DEF Placed
  <2>6. ppool[d][1] = d
    <3>1. ListOf(next, ppool[d], At(loc, InPool(d)))  BY <1>1 DEF PlacedBy
    <3>2. NULL \notin At(loc, InPool(d))  BY PacketsOf DEF At, TypeOK
    <3>3. ppool[d] \in Packets /\ loc[ppool[d]] = InPool(d)  BY <2>1, <3>1, <3>2, ListHead DEF At
    <3>4. InPool(d) \in Allowed(ppool[d]) /\ ppool[d][1] \in Devs /\ Other(ppool[d][1]) \in Devs
      BY <1>1, <3>3, PacketsOf, TwoDevices DEF PlacedBy, TypeOK
    <3>. QED  BY <3>4, ListsDiffer DEF Allowed
  <2>7. OwnInHand'
    <3>1. ASSUME NEW e \in Devs, pc'[Tx(e)] = "enqueue" PROVE held'[Tx(e)][1] = e
      <4>1. CASE e = d  BY <2>2, <2>6, <4>1
      <4>2. CASE e # d
        <5>1. Tx(e) \in Threads \ {Tx(d)}  BY <4>2, ThreadsOf
        <5>2. pc[Tx(e)] = "enqueue" /\ held'[Tx(e)] = held[Tx(e)]  BY <2>4, <3>1, <5>1
        <5>. QED  BY <5>2 DEF Placed, OwnInHand
      <4>. QED  BY <4>1, <4>2
    <3>. QED  BY <3>1 DEF OwnInHand
  <2>. QED  BY <2>5, <2>7 DEF Placed
<1>4. CASE EnqueueBuf(d)
  <2> DEFINE p == held[Tx(d)]
  <2>1. /\ env' = env /\ kfreed' = kfreed /\ ppool' = ppool
        /\ next' = [next EXCEPT ![p] = rx_queue[Other(d)]]
        /\ rx_queue' = [rx_queue EXCEPT ![Other(d)] = p]
        /\ pc[Tx(d)] = "enqueue" /\ pc' = [pc EXCEPT ![Tx(d)] = "notify"]
        /\ held' = [held EXCEPT ![Tx(d)] = NULL]
    BY <1>4 DEF EnqueueBuf, Goto, module, net
  <2>2. held' = [held EXCEPT ![Tx(d)] = held'[Tx(d)]] /\ pc'[Tx(d)] = "notify"
    BY <1>0, <2>1 DEF TypeOK
  <2>3. InHand(Tx(d)) = {p} /\ InHand(Tx(d))' = {}  BY <2>1, <2>2 DEF InHand
  <2>4. \A u \in Threads \ {Tx(d)} : InHand(u)' = InHand(u)  BY <1>0, <2>1, <2>2, OthersKeep
  <2>5. Other(d) = Other(p[1])  BY <2>1 DEF Placed, OwnInHand
  <2>6. Placement'
    <3> HIDE DEF p
    <3>1. Gives(Tx(d), Other(d), p)  BY <2>1, <2>3, <2>4, <2>5 DEF Gives
    <3>. QED  BY <1>0, <3>1, PacketGiven DEF Placed
  <2>7. OwnInHand'  BY <1>0, <2>1, <2>2, OwnKept
  <2>. QED  BY <2>6, <2>7 DEF Placed
<1>. QED  BY <1>2, <1>3, <1>4 DEF Sending

LEMMA SignalPlaced == ASSUME TypeOK, Placed, NEW d \in Devs, Signalling(d) PROVE Placed'
<1>0. Tx(d) \in Threads  BY ThreadsOf
<1>1. /\ env' = env /\ UNCHANGED <<lists, kfreed>> /\ held' = held
      /\ \E x \in {"idle", "interrupt", "store"} : pc' = [pc EXCEPT ![Tx(d)] = x]
      /\ pc[Tx(d)] \in {"store", "own", "idle", "finish"}
  BY DEF Signalling, StoreStatus, OwnStatus, TxTimeout, TimeoutWake, Goto, net, module, local
<1>. QED  BY <1>0, <1>1, HeldKept, StillPlaced DEF Handling_

LEMMA HandlePlaced == ASSUME TypeOK, Placed, NEW d \in Devs, Handling(d) PROVE Placed'
<1>0. /\ Tx(d) \in Threads /\ Target(d) \in Devs
      /\ Resume(Tx(d)) \in {"own", "idle", "finish"}
  BY ThreadsOf, TargetOf, ResumesAt
<1>1. PICK loc : PlacedBy(loc)  BY DEF Placed, Placement
<1>2. CASE NapiInterrupt(d)
  <2>1. /\ env' = env /\ UNCHANGED <<lists, kfreed>> /\ held' = held
        /\ pc' = [pc EXCEPT ![Tx(d)] = Resume(Tx(d))] /\ pc[Tx(d)] = "interrupt"
    BY <1>2 DEF NapiInterrupt, Goto, module, local
  <2>. QED  BY <1>0, <2>1, HeldKept, StillPlaced DEF Handling_
<1>3. CASE RegularInterrupt(d)
  <2> DEFINE e == Target(d)
             pkt == IF "RX" \in status[e] THEN rx_queue[e] ELSE NULL
  <2>1. /\ env' = env /\ kfreed' = kfreed /\ next' = next /\ ppool' = ppool
        /\ pc[Tx(d)] = "interrupt" /\ held' = [held EXCEPT ![Tx(d)] = pkt]
        /\ pc' = [pc EXCEPT ![Tx(d)] = IF pkt # NULL THEN "push" ELSE Resume(Tx(d))]
        /\ rx_queue' = IF pkt # NULL THEN [rx_queue EXCEPT ![e] = next[pkt]] ELSE rx_queue
    BY <1>3 DEF RegularInterrupt, Goto, module, net
  <2>2. held' = [held EXCEPT ![Tx(d)] = held'[Tx(d)]] /\ held'[Tx(d)] = pkt
    BY <1>0, <2>1 DEF TypeOK
  <2>3. CASE pkt = NULL
    <3>1. UNCHANGED <<lists, kfreed>> /\ pc' = [pc EXCEPT ![Tx(d)] = Resume(Tx(d))]
      BY <2>1, <2>3 DEF lists
    <3>. QED  BY <1>0, <2>1, <2>2, <3>1, StillPlaced DEF Handling_
  <2>4. CASE pkt # NULL
    <3>1. pkt = rx_queue[e] /\ rx_queue' = [rx_queue EXCEPT ![e] = next[pkt]]
          /\ pc' = [pc EXCEPT ![Tx(d)] = "push"]
      BY <2>1, <2>4
    <3> HIDE DEF pkt, e
    <3>2. e \in Devs  BY <1>0 DEF e
    <3>3. pc'[Tx(d)] = "push"  BY <1>0, <3>1 DEF TypeOK
    <3>4. InHand(Tx(d)) = {} /\ InHand(Tx(d))' = {pkt}  BY <2>1, <2>2, <3>3 DEF InHand
    <3>5. \A u \in Threads \ {Tx(d)} : InHand(u)' = InHand(u)  BY <1>0, <2>2, <3>1, OthersKeep
    <3>6. Placement'
      <4>1. Takes(Tx(d), e, pkt)  BY <2>1, <2>4, <3>1, <3>4, <3>5 DEF Takes
      <4>. QED  BY <1>0, <3>2, <4>1, PacketTaken DEF Placed
    <3>7. OwnInHand'  BY <1>0, <2>2, <3>1, OwnKept
    <3>. QED  BY <3>6, <3>7 DEF Placed
  <2>. QED  BY <2>3, <2>4
<1>. QED  BY <1>2, <1>3 DEF Handling

LEMMA PollPlaced == ASSUME TypeOK, Placed, NEW d \in Devs, PollSteps(d) PROVE Placed'
<1>0. Poll(d) \in Threads  BY ThreadsOf
<1>1. CASE PollEnable(d)
  <2>1. env' = env /\ UNCHANGED <<lists, kfreed, pc, held>>
    BY <1>1 DEF PollEnable, net, module, local
  <2>. QED  BY <2>1, IdlePlaced
<1>2. CASE PollStart(d) \/ PollEnd(d) \/ PollCheck(d)
  <2>1. /\ env' = env /\ UNCHANGED <<lists, kfreed>> /\ held' = held
        /\ \E x \in {"idle", "poll", "check"} : pc' = [pc EXCEPT ![Poll(d)] = x]
        /\ pc[Poll(d)] \in {"idle", "poll", "check"}
    BY <1>2 DEF PollStart, PollEnd, PollCheck, Goto, net, module, local
  <2>. QED  BY <1>0, <2>1, HeldKept, StillPlaced DEF Handling_
<1>3. CASE PollTake(d)
  <2> DEFINE p == rx_queue[d]
  <2>1. /\ p # NULL /\ env' = env /\ kfreed' = kfreed /\ next' = next /\ ppool' = ppool
        /\ rx_queue' = [rx_queue EXCEPT ![d] = next[p]]
        /\ pc[Poll(d)] = "poll" /\ pc' = [pc EXCEPT ![Poll(d)] = "push"]
        /\ held' = [held EXCEPT ![Poll(d)] = p]
    BY <1>3 DEF PollTake, Goto, module, net
  <2>2. held' = [held EXCEPT ![Poll(d)] = held'[Poll(d)]] /\ held'[Poll(d)] = p
        /\ pc'[Poll(d)] = "push"
    BY <1>0, <2>1 DEF TypeOK
  <2>3. InHand(Poll(d)) = {} /\ InHand(Poll(d))' = {p}  BY <2>1, <2>2 DEF InHand
  <2>4. \A u \in Threads \ {Poll(d)} : InHand(u)' = InHand(u)  BY <1>0, <2>1, <2>2, OthersKeep
  <2>5. Takes(Poll(d), d, p)  BY <2>1, <2>3, <2>4 DEF Takes
  <2>6. Placement'
    <3> HIDE DEF p
    <3>. QED  BY <1>0, <2>5, PacketTaken DEF Placed
  <2>7. OwnInHand'  BY <1>0, <2>1, <2>2, OwnKept
  <2>. QED  BY <2>6, <2>7 DEF Placed
<1>. QED  BY <1>1, <1>2, <1>3 DEF PollSteps

LEMMA ReleasePlaced == ASSUME TypeOK, Placed, NEW t \in Threads, Releasing(t) PROVE Placed'
<1>1. PICK loc : PlacedBy(loc)  BY DEF Placed, Placement
<1>2. CASE ReleaseTest(t) \/ ReleaseWake(t)
  <2>1. Resume(t) \in {"own", "idle", "finish", "poll"}  BY ResumesAt, EachThread
  <2>2. /\ env' = env /\ UNCHANGED <<lists, kfreed>>
        /\ \E v : held' = [held EXCEPT ![t] = v]
        /\ \E x \in {"wake", Resume(t)} : pc' = [pc EXCEPT ![t] = x]
        /\ pc[t] \in {"test", "wake"}
    <3>1. CASE ReleaseTest(t)  BY <3>1 DEF ReleaseTest, Goto, net, module
    <3>2. CASE ReleaseWake(t)  BY <3>2 DEF ReleaseWake, Goto, module
    <3>. QED  BY <1>2, <3>1, <3>2
  <2>3. held' = [held EXCEPT ![t] = held'[t]]  BY <2>2 DEF TypeOK
  <2>. QED  BY <2>1, <2>2, <2>3, StillPlaced DEF Handling_
<1>3. CASE ReleasePush(t)
  <2> DEFINE p == held[t]
             d == p[1]
  <2>1. /\ env' = env /\ kfreed' = kfreed /\ rx_queue' = rx_queue /\ held' = held
        /\ next' = [next EXCEPT ![p] = ppool[d]]
        /\ ppool' = [ppool EXCEPT ![d] = p]
        /\ pc[t] = "push" /\ pc' = [pc EXCEPT ![t] = "test"]
    BY <1>3 DEF ReleasePush, Goto, module, net, local
  <2>2. pc'[t] = "test" /\ held' = [held EXCEPT ![t] = held'[t]]  BY <2>1 DEF TypeOK
  <2>3. InHand(t) = {p} /\ InHand(t)' = {}  BY <2>1, <2>2 DEF InHand
  <2>4. \A u \in Threads \ {t} : InHand(u)' = InHand(u)  BY <2>1, <2>2, OthersKeep
  <2>5. p \in Packets  BY <1>1, <2>3 DEF PlacedBy, At
  <2>6. d \in Devs  BY <2>5, PacketsOf DEF TypeOK
  <2>7. Gives(t, d, p)  BY <2>1, <2>3, <2>4 DEF Gives
  <2>8. Placement'
    <3> HIDE DEF p, d
    <3>. QED  BY <2>6, <2>7, PacketGiven DEF Placed
  <2>9. OwnInHand'  BY <2>1, <2>2, OwnKept
  <2>. QED  BY <2>8, <2>9 DEF Placed
<1>. QED  BY <1>2, <1>3 DEF Releasing

LEMMA UpDownPlaced ==
  ASSUME TypeOK, Placed, NEW d \in Devs, UpAndDown(d)
  PROVE  Placed' /\ Pool(d) \subseteq Packets
<1>1. PICK loc : PlacedBy(loc)  BY DEF Placed, Placement
<1>0. Pool(d) \subseteq Packets
  <2>1. IsFiniteSet(Packets) /\ NULL \notin Packets  BY PacketsOf DEF TypeOK
  <2>2. At(loc, InPool(d)) \in SUBSET Packets /\ ListOf(next, ppool[d], At(loc, InPool(d)))
    BY <1>1 DEF At, PlacedBy
  <2>3. Listed(ppool[d]) = At(loc, InPool(d))  BY <2>1, <2>2, ListWalk
  <2>. QED  BY <2>2, <2>3 DEF Pool
<1>2. CASE Release(d) \/ Open(d) \/ CleanupUnregister(d) \/ CleanupFree(d)
  <2>1. env' = env /\ UNCHANGED <<lists, kfreed, pc, held>>
    BY <1>2 DEF Release, Open, CleanupUnregister, CleanupFree, Closed, Cleanup, module, local
  <2>. QED  BY <1>0, <2>1, IdlePlaced
<1>3. CASE CleanupTeardown(d)
  <2>1. /\ env' = env /\ kfreed' = kfreed \cup Pool(d) /\ next' = next /\ rx_queue' = rx_queue
        /\ ppool' = [ppool EXCEPT ![d] = NULL] /\ pc' = pc /\ held' = held
    BY <1>3 DEF CleanupTeardown, Cleanup, local
  <2>2. \A t \in Threads : InHand(t)' = InHand(t)  BY <2>1 DEF InHand
  <2>3. Placement'  BY <1>1, <2>1, <2>2, PoolFreed
  <2>4. OwnInHand'  BY <2>1 DEF Placed, OwnInHand
  <2>. QED  BY <1>0, <2>3, <2>4 DEF Placed
<1>. QED  BY <1>2, <1>3 DEF UpAndDown

LEMMA PlacedInit == Init => Placed
<1>1. SUFFICES ASSUME Init PROVE Placed  OBVIOUS
<1>2. env.pool \in Nat \ {0} /\ \A p \in Packets : p[1] \in Devs  BY <1>1, PacketsOf DEF Init
<1>3. PICK loc : loc = [p \in Packets |-> InPool(p[1])]  OBVIOUS
<1>4. \A p \in Packets : loc[p] = InPool(p[1])  BY <1>3
<1>5. loc \in [Packets -> Places] /\ \A p \in Packets : loc[p] \in Allowed(p)
  BY <1>2, <1>3, <1>4, ListsDiffer DEF Allowed
<1>6. ASSUME NEW d \in Devs PROVE ListOf(next, ppool[d], At(loc, InPool(d)))
  <2>1. PICK n \in Nat \ {0} : n = env.pool  BY <1>2
  <2> DEFINE s == [i \in 1..n |-> <<d, n + 1 - i>>]
             S == At(loc, InPool(d))
  <2>2. S = {p \in Packets : p[1] = d}  BY <1>2, <1>4, ListsDiffer DEF At
  <2>3. Packets = Devs \X (1..n)  BY <2>1 DEF Packets
  <2>4. \A i \in 1..n : s[i] = <<d, n + 1 - i>> /\ n + 1 - i \in 1..n  OBVIOUS
  <2> HIDE DEF s, S
  <2>5. ASSUME NEW i \in 1..n PROVE s[i] \in S
    <3>1. PICK k \in 1..n : s[i] = <<d, k>>  BY <2>4
    <3>2. <<d, k>> \in Packets /\ <<d, k>>[1] = d  BY <2>3
    <3>. QED  BY <2>2, <3>1, <3>2
  <2>6. s \in [1..n -> S]  BY <2>5 DEF s
  <2>7. ppool[d] = s[1]
    <3>1. 1 \in 1..n /\ n + 1 - 1 = n  OBVIOUS
    <3>. QED  BY <1>1, <2>1, <2>4, <3>1 DEF Init
  <2>8. ASSUME NEW i \in 1..n PROVE next[s[i]] = IF i < n THEN s[i + 1] ELSE NULL
    <3>1. s[i] \in Packets /\ s[i][1] = d /\ s[i][2] = n + 1 - i  BY <2>2, <2>4, <2>5
    <3>2. next[s[i]] = IF s[i][2] = 1 THEN NULL ELSE <<s[i][1], s[i][2] - 1>>
      BY <1>1, <3>1 DEF Init
    <3>3. CASE i < n
      <4>1. i + 1 \in 1..n /\ n + 1 - i # 1 /\ n + 1 - i - 1 = n + 1 - (i + 1)  BY <3>3
      <4>. QED  BY <2>4, <3>1, <3>2, <3>3, <4>1
    <3>4. CASE ~(i < n)
      <4>1. n + 1 - i = 1  BY <3>4
      <4>. QED  BY <3>1, <3>2, <3>4, <4>1
    <3>. QED  BY <3>3, <3>4
  <2>9. \A i, j \in 1..n : s[i] = s[j] => i = j
    <3>1. ASSUME NEW i \in 1..n, NEW j \in 1..n, s[i] = s[j] PROVE i = j
      <4>1. n + 1 - i = n + 1 - j  BY <2>4, <3>1
      <4>. QED  BY <4>1
    <3>. QED  BY <3>1
  <2>10. ASSUME NEW q \in S PROVE \E i \in 1..n : s[i] = q
    <3>1. PICK k \in 1..n : q = <<d, k>>  BY <2>2, <2>3
    <3>2. n + 1 - k \in 1..n /\ n + 1 - (n + 1 - k) = k  OBVIOUS
    <3>3. s[n + 1 - k] = q  BY <2>4, <3>1, <3>2
    <3>. QED  BY <3>2, <3>3
  <2>11. Linked(next, ppool[d], S, n, s)  BY <2>7, <2>8, <2>9, <2>10 DEF Linked
  <2>. QED  BY <2>6, <2>11 DEF ListOf, S
<1>7. ASSUME NEW d \in Devs PROVE ListOf(next, rx_queue[d], At(loc, InQueue(d)))
  <2>1. At(loc, InQueue(d)) = {}  BY <1>2, <1>4, ListsDiffer DEF At
  <2>2. rx_queue[d] = NULL  BY <1>1 DEF Init
  <2>. QED  BY <2>1, <2>2, ListNil
<1>8. ASSUME NEW t \in Threads PROVE At(loc, t) = InHand(t)
  <2>1. At(loc, t) = {}  BY <1>2, <1>4, ListsDiffer DEF At
  <2>. QED  BY <1>1, <2>1 DEF Init, InHand
<1>9. \A p \in Packets : p \in kfreed <=> loc[p] = Gone(p[1])
  BY <1>1, <1>2, <1>4, ListsDiffer DEF Init
<1>10. Placement  BY <1>5, <1>6, <1>7, <1>8, <1>9 DEF PlacedBy, Placement
<1>11. OwnInHand  BY <1>1, ThreadsOf DEF Init, OwnInHand
<1>. QED  BY <1>10, <1>11 DEF Placed

LEMMA PlacedStep == TypeOK /\ Placed /\ [Next]_vars => TypeOK' /\ Placed'
<1>1. SUFFICES ASSUME TypeOK, Placed, [Next]_vars PROVE TypeOK' /\ Placed'  OBVIOUS
<1>2. CASE UNCHANGED vars
  <2>1. Packets' = Packets  BY <1>2 DEF vars, net, module, Packets
  <2>2. TypeOK'  BY <1>1, <1>2, <2>1 DEF TypeOK, vars, lists, priv, net, module, poll, local
  <2>3. env' = env /\ UNCHANGED <<lists, kfreed, pc, held>>
    BY <1>2 DEF vars, net, module, local
  <2>. QED  BY <1>1, <2>2, <2>3, IdlePlaced
<1>3. CASE Next
  <2>1. PICK d \in Devs : \/ Sending(d) \/ Signalling(d) \/ Handling(d) \/ PollSteps(d)
                          \/ UpAndDown(d) \/ Releasing(Tx(d)) \/ Releasing(Poll(d))
    BY <1>3, StepKinds
  <2>2. CASE Sending(d)     BY <1>1, <2>2, SendTypes, SendPlaced
  <2>3. CASE Signalling(d)  BY <1>1, <2>3, SignalTypes, SignalPlaced
  <2>4. CASE Handling(d)    BY <1>1, <2>4, HandleTypes, HandlePlaced
  <2>5. CASE PollSteps(d)   BY <1>1, <2>5, PollTypes, PollPlaced
  <2>6. CASE UpAndDown(d)   BY <1>1, <2>6, UpDownTypes, UpDownPlaced
  <2>7. CASE Releasing(Tx(d)) \/ Releasing(Poll(d))
    BY <1>1, <2>7, ThreadsOf, ReleaseTypes, ReleasePlaced
  <2>. QED  BY <2>1, <2>2, <2>3, <2>4, <2>5, <2>6, <2>7
<1>. QED  BY <1>1, <1>2, <1>3

LEMMA PlacedHolds == Spec => [](TypeOK /\ Placed)
<1>1. Init => TypeOK /\ Placed  BY TypesInit, PlacedInit
<1>2. (TypeOK /\ Placed) /\ [Next]_vars => (TypeOK /\ Placed)'  BY PlacedStep
<1>. QED  BY <1>1, <1>2, PTL DEF Spec

LEMMA ListedAt ==
  ASSUME TypeOK, NEW loc, PlacedBy(loc), NEW d \in Devs
  PROVE  /\ Listed(ppool[d]) = At(loc, InPool(d)) /\ Ends(ppool[d])
         /\ Listed(rx_queue[d]) = At(loc, InQueue(d)) /\ Ends(rx_queue[d])
<1>1. IsFiniteSet(Packets) /\ NULL \notin Packets  BY PacketsOf DEF TypeOK
<1>2. /\ At(loc, InPool(d)) \in SUBSET Packets /\ ListOf(next, ppool[d], At(loc, InPool(d)))
      /\ At(loc, InQueue(d)) \in SUBSET Packets /\ ListOf(next, rx_queue[d], At(loc, InQueue(d)))
  BY DEF At, PlacedBy
<1>. QED  BY <1>1, <1>2, ListWalk

\* In every environment, two processors, an unload at any time and lost
\* interrupts included, every packet is in one place, of those it may be in.
THEOREM PacketsCorrect == Spec => []PacketsConserved
<1>1. TypeOK /\ Placed => PacketsConserved
  <2>1. SUFFICES ASSUME TypeOK, Placed PROVE PacketsConserved  OBVIOUS
  <2>2. PICK loc : PlacedBy(loc)  BY <2>1 DEF Placed, Placement
  <2>3. ASSUME NEW p \in Packets
        PROVE  LET d == p[1]
                   places == {<<"pool", e>> : e \in {f \in Devs : p \in Listed(ppool[f])}}
                     \cup {<<"queue", e>> : e \in {f \in Devs : p \in Listed(rx_queue[f])}}
                     \cup {t \in Threads : p \in InHand(t)}
                     \cup {<<"kfree", d>> : q \in kfreed \cap {p}}
               IN  /\ Cardinality(places) = 1
                   /\ places \subseteq {<<"pool", d>>, <<"queue", Other(d)>>, <<"kfree", d>>} \cup Threads
    <3> DEFINE d == p[1]
               pools  == {<<"pool", e>> : e \in {f \in Devs : p \in Listed(ppool[f])}}
               queues == {<<"queue", e>> : e \in {f \in Devs : p \in Listed(rx_queue[f])}}
               hands  == {t \in Threads : p \in InHand(t)}
               gone   == {<<"kfree", d>> : q \in kfreed \cap {p}}
    <3>1. d \in Devs /\ Other(d) \in Devs  BY <2>1, PacketsOf, TwoDevices DEF TypeOK
    <3>2. loc[p] \in {<<"pool", d>>, <<"queue", Other(d)>>, <<"kfree", d>>} \cup Threads
      BY <2>2 DEF PlacedBy, Allowed, InPool, InQueue, Gone
    <3>3. pools = {x \in {<<"pool", e>> : e \in Devs} : x = loc[p]}
      BY <2>1, <2>2, ListedAt DEF At, InPool
    <3>4. queues = {x \in {<<"queue", e>> : e \in Devs} : x = loc[p]}
      BY <2>1, <2>2, ListedAt DEF At, InQueue
    <3>5. hands = {x \in Threads : x = loc[p]}
      BY <2>2 DEF PlacedBy, At
    <3>6. gone = {x \in {<<"kfree", d>>} : x = loc[p]}
      BY <2>2 DEF PlacedBy, Gone
    <3> HIDE DEF pools, queues, hands, gone, d
    <3>7. pools \cup queues \cup hands \cup gone = {loc[p]}
      BY <3>1, <3>2, <3>3, <3>4, <3>5, <3>6
    <3>8. Cardinality({loc[p]}) = 1  BY FS_Singleton
    <3>9. /\ Cardinality(pools \cup queues \cup hands \cup gone) = 1
          /\ pools \cup queues \cup hands \cup gone
               \subseteq {<<"pool", d>>, <<"queue", Other(d)>>, <<"kfree", d>>} \cup Threads
      BY <3>2, <3>7, <3>8
    <3>. QED  BY <3>9 DEF pools, queues, hands, gone, d
  <2>4. \A d \in Devs : Ends(ppool[d]) /\ Ends(rx_queue[d])
    BY <2>1, <2>2, ListedAt
  <2>. QED  BY <2>3, <2>4 DEF PacketsConserved
<1>. QED  BY <1>1, PlacedHolds, PTL
-----------------------------------------------------------------------------
(* An interface that is down is at rest, and one that is unregistered is down. *)

AtWork(d) == scheduled[d] \/ pc[Tx(d)] # "idle" \/ pc[Poll(d)] # "idle"

DownFirst ==
  /\ \A d \in Devs : AtWork(d) => running[d]
  /\ \A d \in Devs : memory[d] # "registered" => env.rmmod # "never" /\ ~running[d]
  /\ env.rmmod = "down" /\ Going => \A d \in Devs : ~running[d]
  /\ env.rmmod = "down" => \A d \in Devs : memory[d] \in {"drained", "freed"} => ppool[d] = NULL

LEMMA TxStep ==
  ASSUME TypeOK, NEW d \in Devs, NEW from, NEW to, Goto(Tx(d), from, to)
  PROVE  /\ pc[Tx(d)] = from /\ pc'[Tx(d)] = to
         /\ \A t \in Threads : t # Tx(d) => pc'[t] = pc[t]
         /\ \A e \in Devs : e # d => pc'[Tx(e)] = pc[Tx(e)]
         /\ \A e \in Devs : pc'[Poll(e)] = pc[Poll(e)]
         /\ ~env.smp => /\ enabling = {}
                        /\ \A t \in Threads : t # Tx(d) => pc[t] = "idle"
                        /\ \A e \in Devs : e # d => pc[Tx(e)] = "idle"
BY DEF TypeOK, Goto, Runs, Tx, Poll, Threads

LEMMA PollStep ==
  ASSUME TypeOK, NEW d \in Devs, NEW from, NEW to, Goto(Poll(d), from, to)
  PROVE  /\ pc[Poll(d)] = from /\ pc'[Poll(d)] = to
         /\ \A t \in Threads : t # Poll(d) => pc'[t] = pc[t]
         /\ \A e \in Devs : pc'[Tx(e)] = pc[Tx(e)]
         /\ \A e \in Devs : e # d => pc'[Poll(e)] = pc[Poll(e)]
         /\ ~env.smp => /\ enabling = {}
                        /\ \A t \in Threads : t # Poll(d) => pc[t] = "idle"
                        /\ \A e \in Devs : pc[Tx(e)] = "idle"
BY DEF TypeOK, Goto, Runs, Tx, Poll, Threads

\* A step of a thread whose interface is up, and stays up.
Works(t, d) ==
  /\ env' = env /\ memory' = memory /\ running' = running
  /\ running[d] /\ t \in {Tx(d), Poll(d)}
  /\ \A u \in Threads : u # t => pc'[u] = pc[u]
  /\ \A e \in Devs : scheduled'[e] => scheduled[e] \/ running[e]

LEMMA WorkKeeps ==
  ASSUME DownFirst, NEW d \in Devs, NEW t \in Threads, Works(t, d) PROVE DownFirst'
<1>1. /\ env' = env /\ memory' = memory /\ running' = running /\ running[d] /\ Going' = Going
      /\ \A e \in Devs : e # d => pc'[Tx(e)] = pc[Tx(e)] /\ pc'[Poll(e)] = pc[Poll(e)]
      /\ \A e \in Devs : scheduled'[e] => scheduled[e] \/ running[e]
  BY DEF Works, Going, Tx, Poll, Threads
<1>2. \A e \in Devs : AtWork(e)' => running'[e]  BY <1>1 DEF DownFirst, AtWork
<1>3. env.rmmod = "down" => \A e \in Devs : memory[e] \notin {"drained", "freed"}
  BY <1>1 DEF DownFirst, Going
<1>. QED  BY <1>1, <1>2, <1>3 DEF DownFirst

LEMMA SendWorks == ASSUME TypeOK, DownFirst, NEW d \in Devs, Sending(d) PROVE Works(Tx(d), d)
<1> USE DEF Works, lists, priv, net, poll, local, module
<1>0. pc[Tx(d)] # "idle" => running[d]  BY DEF DownFirst, AtWork
<1>1. CASE Transmit(d)     BY <1>1, TxStep DEF Transmit
<1>2. CASE GetTxBuffer(d)  BY <1>0, <1>2, TxStep DEF GetTxBuffer
<1>3. CASE EnqueueBuf(d)   BY <1>0, <1>3, TxStep DEF EnqueueBuf
<1>4. CASE NotifyNot(d)    BY <1>0, <1>4, TxStep DEF NotifyNot
<1>5. CASE Notify(d)       BY <1>0, <1>5, TxStep DEF Notify
<1>. QED  BY <1>1, <1>2, <1>3, <1>4, <1>5 DEF Sending

LEMMA SignalWorks == ASSUME TypeOK, DownFirst, NEW d \in Devs, Signalling(d) PROVE Works(Tx(d), d)
<1> USE DEF Works, lists, priv, net, poll, local, module
<1>0. pc[Tx(d)] # "idle" => running[d]  BY DEF DownFirst, AtWork
<1>1. CASE StoreStatus(d)  BY <1>0, <1>1, TxStep DEF StoreStatus
<1>2. CASE OwnStatus(d)    BY <1>0, <1>2, TxStep DEF OwnStatus
<1>3. CASE TxTimeout(d)    BY <1>3, TxStep DEF TxTimeout
<1>4. CASE TimeoutWake(d)  BY <1>0, <1>4, TxStep DEF TimeoutWake
<1>. QED  BY <1>1, <1>2, <1>3, <1>4 DEF Signalling

LEMMA HandleWorks == ASSUME TypeOK, DownFirst, NEW d \in Devs, Handling(d) PROVE Works(Tx(d), d)
<1> USE DEF Works, lists, priv, net, poll, local, module
<1>0. pc[Tx(d)] # "idle" => running[d]  BY DEF DownFirst, AtWork
<1>1. CASE RegularInterrupt(d)  BY <1>0, <1>1, TxStep DEF RegularInterrupt
<1>2. CASE NapiInterrupt(d)
  <2>1. \A e \in Devs : scheduled'[e] => scheduled[e] \/ running[e]
    BY <1>2, TargetOf DEF NapiInterrupt, TypeOK
  <2>. QED  BY <1>0, <1>2, <2>1, TxStep DEF NapiInterrupt
<1>. QED  BY <1>1, <1>2 DEF Handling

LEMMA ReleaseWorks ==
  ASSUME TypeOK, DownFirst, NEW d \in Devs, NEW t \in {Tx(d), Poll(d)}, Releasing(t)
  PROVE  Works(t, d)
<1> USE DEF Works, lists, priv, net, poll, local, module
<1>0. pc[t] # "idle" => running[d]  BY DEF DownFirst, AtWork
<1>1. t \in Threads  BY ThreadsOf
<1>2. CASE ReleasePush(t)  BY <1>0, <1>1, <1>2 DEF ReleasePush, Goto, TypeOK
<1>3. CASE ReleaseTest(t)  BY <1>0, <1>1, <1>3 DEF ReleaseTest, Goto, TypeOK
<1>4. CASE ReleaseWake(t)  BY <1>0, <1>1, <1>4 DEF ReleaseWake, Goto, TypeOK
<1>. QED  BY <1>2, <1>3, <1>4 DEF Releasing

LEMMA PollWorks ==
  ASSUME TypeOK, DownFirst, NEW d \in Devs, PollSteps(d), ~PollEnable(d) PROVE Works(Poll(d), d)
<1> USE DEF Works, lists, priv, net, poll, local, module
<1>0. scheduled[d] \/ pc[Poll(d)] # "idle" => running[d]  BY DEF DownFirst, AtWork
<1>1. CASE PollStart(d)  BY <1>0, <1>1, PollStep DEF PollStart
<1>2. CASE PollTake(d)   BY <1>0, <1>2, PollStep DEF PollTake
<1>3. CASE PollEnd(d)    BY <1>0, <1>3, PollStep DEF PollEnd
<1>4. CASE PollCheck(d)
  <2>1. pc[Poll(d)] # "idle"  BY <1>4, PollStep DEF PollCheck
  <2>2. \A e \in Devs : scheduled'[e] => scheduled[e] \/ running[e]
    BY <1>0, <1>4, <2>1 DEF PollCheck, TypeOK
  <2>. QED  BY <1>0, <1>4, <2>1, <2>2, PollStep DEF PollCheck
<1>. QED  BY <1>1, <1>2, <1>3, <1>4 DEF PollSteps

LEMMA UpDownKeeps == ASSUME TypeOK, DownFirst, NEW d \in Devs, UpAndDown(d) PROVE DownFirst'
<1> USE DEF lists, priv, poll, local, module
<1>1. CASE Release(d)
  <2>1. /\ pc' = pc /\ scheduled' = scheduled /\ memory' = memory /\ env' = env /\ ppool' = ppool
        /\ running' = [running EXCEPT ![d] = FALSE] /\ ~AtWork(d)
    BY <1>1 DEF Release, Closed, AtWork
  <2>. QED  BY <2>1 DEF DownFirst, AtWork, TypeOK, Going
<1>2. CASE Open(d)
  <2>1. /\ pc' = pc /\ scheduled' = scheduled /\ memory' = memory /\ env' = env /\ ppool' = ppool
        /\ running' = [running EXCEPT ![d] = TRUE] /\ memory[d] = "registered"
        /\ env.rmmod = "down" => ~Going
    BY <1>2 DEF Open
  <2>. QED  BY <2>1 DEF DownFirst, AtWork, TypeOK, Going
<1>3. CASE CleanupUnregister(d)
  <2>1. /\ pc' = pc /\ scheduled' = scheduled /\ env' = env /\ ppool' = ppool
        /\ memory' = [memory EXCEPT ![d] = "unregistered"]
        /\ running' = [running EXCEPT ![d] = FALSE] /\ env.rmmod # "never"
        /\ env.rmmod = "down" => \A e \in Devs : ~running[e]
    BY <1>3 DEF CleanupUnregister, Cleanup, Closed
  <2>2. ~AtWork(d)  BY <1>3 DEF CleanupUnregister, Closed, AtWork, DownFirst
  <2>. QED  BY <2>1, <2>2 DEF DownFirst, AtWork, TypeOK, Going
<1>4. CASE CleanupTeardown(d)
  <2>1. /\ pc' = pc /\ scheduled' = scheduled /\ env' = env /\ running' = running
        /\ memory[d] = "unregistered" /\ memory' = [memory EXCEPT ![d] = "drained"]
        /\ ppool' = [ppool EXCEPT ![d] = NULL]
    BY <1>4 DEF CleanupTeardown, Cleanup
  <2>. QED  BY <2>1 DEF DownFirst, AtWork, TypeOK, Going
<1>5. CASE CleanupFree(d)
  <2>1. /\ pc' = pc /\ scheduled' = scheduled /\ env' = env /\ running' = running /\ ppool' = ppool
        /\ memory[d] = "drained" /\ memory' = [memory EXCEPT ![d] = "freed"]
    BY <1>5 DEF CleanupFree, Cleanup
  <2>. QED  BY <2>1 DEF DownFirst, AtWork, TypeOK, Going
<1>. QED  BY <1>1, <1>2, <1>3, <1>4, <1>5 DEF UpAndDown

LEMMA DownFirstStep == TypeOK /\ DownFirst /\ [Next]_vars => DownFirst'
<1>1. SUFFICES ASSUME TypeOK, DownFirst, [Next]_vars PROVE DownFirst'  OBVIOUS
<1>2. CASE UNCHANGED vars
  BY <1>1, <1>2 DEF DownFirst, AtWork, Going, vars, net, module, lists
<1>3. CASE Next
  <2>1. PICK d \in Devs : \/ Sending(d) \/ Signalling(d) \/ Handling(d) \/ PollSteps(d)
                          \/ UpAndDown(d) \/ Releasing(Tx(d)) \/ Releasing(Poll(d))
    BY <1>3, StepKinds
  <2>2. CASE PollEnable(d)
    BY <1>1, <2>2 DEF PollEnable, DownFirst, AtWork, Going, net, module, lists
  <2>3. CASE UpAndDown(d)  BY <1>1, <2>3, UpDownKeeps
  <2>4. CASE Sending(d) \/ Signalling(d) \/ Handling(d)
    BY <1>1, <2>4, ThreadsOf, WorkKeeps, SendWorks, SignalWorks, HandleWorks
  <2>5. CASE Releasing(Tx(d)) \/ Releasing(Poll(d))
    BY <1>1, <2>5, ThreadsOf, WorkKeeps, ReleaseWorks
  <2>6. CASE PollSteps(d) /\ ~PollEnable(d)  BY <1>1, <2>6, ThreadsOf, WorkKeeps, PollWorks
  <2>. QED  BY <2>1, <2>2, <2>3, <2>4, <2>5, <2>6
<1>. QED  BY <1>1, <1>2, <1>3
-----------------------------------------------------------------------------
(* On one processor a packet is announced before anything else happens, and  *)
(* without NAPI the interrupt leaves the receive queue empty.                *)

Sent(d) == call[d] = "rx" /\ pc[Tx(d)] \in {"notify", "store", "interrupt"}

Announced(d) ==
  /\ pc[Tx(d)] \in {"get", "enqueue", "notify", "own"} => call[d] = "rx"
  /\ pc[Tx(d)] = "store" /\ call[d] = "rx" => "RX" \in word[Tx(d)]
  /\ ~env.smp /\ pc[Tx(d)] = "interrupt" /\ call[d] = "rx" => "RX" \in status[Other(d)]

Emptied(d) ==
  ~env.smp /\ ~env.napi =>
    /\ rx_int_enabled[d]
    /\ rx_queue[Other(d)] # NULL => Sent(d) /\ next[rx_queue[Other(d)]] = NULL

InOrder == \A d \in Devs : Announced(d) /\ Emptied(d)

LEMMA HeldPacket ==
  ASSUME Placed, NEW t \in Threads, pc[t] \in {"enqueue", "push"} PROVE held[t] \in Packets
BY DEF Placed, Placement, PlacedBy, InHand, At

LEMMA SendOrder == ASSUME TypeOK, Placed, InOrder, NEW d \in Devs, Sending(d) PROVE InOrder'
<1> DEFINE o == Other(d)
<1>0. /\ o \in Devs /\ o # d /\ Other(o) = d /\ \A e \in Devs : e = d \/ e = o
      /\ Tx(d) \in Threads /\ Tx(o) \in Threads /\ Tx(o) # Tx(d)
  BY TwoDevices, ThreadsOf
<1> SUFFICES Announced(d)' /\ Emptied(d)' /\ Announced(o)' /\ Emptied(o)'
  BY <1>0 DEF InOrder
<1>1. Announced(d) /\ Emptied(d) /\ Announced(o) /\ Emptied(o)  BY <1>0 DEF InOrder
<1> USE DEF Announced, Emptied, Sent, lists, priv, net, module, poll, local, TypeOK
<1> HIDE DEF o
<1>2. CASE Transmit(d)
  <2>1. /\ pc[Tx(d)] = "idle" /\ pc'[Tx(d)] = "get" /\ pc'[Tx(o)] = pc[Tx(o)]
        /\ ~env.smp => pc[Tx(o)] = "idle"
    BY <1>0, <1>2, TxStep DEF Transmit
  <2>. QED  BY <1>0, <1>1, <1>2, <2>1 DEF Transmit, o
<1>3. CASE GetTxBuffer(d)
  <2>1. /\ pc[Tx(d)] = "get" /\ pc'[Tx(d)] = "enqueue" /\ pc'[Tx(o)] = pc[Tx(o)]
        /\ ~env.smp => pc[Tx(o)] = "idle"
    BY <1>0, <1>3, TxStep DEF GetTxBuffer
  <2>. QED  BY <1>0, <1>1, <1>3, <2>1 DEF GetTxBuffer, o
<1>4. CASE EnqueueBuf(d)
  <2>1. /\ pc[Tx(d)] = "enqueue" /\ pc'[Tx(d)] = "notify" /\ pc'[Tx(o)] = pc[Tx(o)]
        /\ ~env.smp => pc[Tx(o)] = "idle"
    BY <1>0, <1>4, TxStep DEF EnqueueBuf
  <2>2. held[Tx(d)] \in Packets  BY <1>0, <2>1, HeldPacket
  <2>3. /\ next' = [next EXCEPT ![held[Tx(d)]] = rx_queue[o]]
        /\ rx_queue' = [rx_queue EXCEPT ![o] = held[Tx(d)]]
        /\ UNCHANGED <<env, priv, word, call>>
    BY <1>4 DEF EnqueueBuf, o
  <2>4. Announced(d)' /\ Announced(o)'  BY <1>0, <1>1, <2>1, <2>3 DEF o
  <2>5. ~env.smp /\ ~env.napi => rx_queue[o] = NULL /\ rx_queue'[o] = held[Tx(d)]
    BY <1>0, <1>1, <2>1, <2>3 DEF o
  <2>6. ~env.smp /\ ~env.napi => next'[held[Tx(d)]] = NULL  BY <2>2, <2>3, <2>5
  <2>7. Emptied(d)'  BY <1>0, <1>1, <2>1, <2>3, <2>5, <2>6 DEF o
  <2>8. Emptied(o)'  BY <1>0, <1>1, <2>1, <2>3 DEF o
  <2>. QED  BY <2>4, <2>7, <2>8
<1>5. CASE NotifyNot(d)
  <2>1. /\ pc[Tx(d)] = "notify" /\ pc'[Tx(d)] = "own" /\ pc'[Tx(o)] = pc[Tx(o)]
        /\ ~env.smp => pc[Tx(o)] = "idle"
    BY <1>0, <1>5, TxStep DEF NotifyNot
  <2>2. env.smp \/ env.napi  BY <1>0, <1>1, <1>5 DEF NotifyNot, o
  <2>. QED  BY <1>0, <1>1, <1>5, <2>1, <2>2 DEF NotifyNot, o
<1>6. CASE Notify(d)
  <2>1. /\ pc[Tx(d)] = "notify" /\ pc'[Tx(d)] = "store" /\ pc'[Tx(o)] = pc[Tx(o)]
        /\ ~env.smp => pc[Tx(o)] = "idle"
    BY <1>0, <1>6, TxStep DEF Notify
  <2>2. word'[Tx(o)] = word[Tx(o)] /\ "RX" \in word'[Tx(d)]  BY <1>0, <1>6 DEF Notify
  <2>. QED  BY <1>0, <1>1, <1>6, <2>1, <2>2 DEF Notify, o
<1>. QED  BY <1>2, <1>3, <1>4, <1>5, <1>6 DEF Sending

LEMMA SignalOrder == ASSUME TypeOK, InOrder, NEW d \in Devs, Signalling(d) PROVE InOrder'
<1> DEFINE o == Other(d)
<1>0. /\ o \in Devs /\ o # d /\ Other(o) = d /\ \A e \in Devs : e = d \/ e = o
      /\ Tx(d) \in Threads /\ Tx(o) \in Threads /\ Tx(o) # Tx(d) /\ Tx(d)[2] = d
  BY TwoDevices, ThreadsOf
<1> SUFFICES Announced(d)' /\ Emptied(d)' /\ Announced(o)' /\ Emptied(o)'
  BY <1>0 DEF InOrder
<1>1. Announced(d) /\ Emptied(d) /\ Announced(o) /\ Emptied(o)  BY <1>0 DEF InOrder
<1> USE DEF Announced, Emptied, Sent, lists, priv, net, module, poll, local, TypeOK
<1> HIDE DEF o
<1>2. CASE StoreStatus(d)
  <2>1. /\ pc[Tx(d)] = "store" /\ pc'[Tx(o)] = pc[Tx(o)]
        /\ ~env.smp => pc[Tx(o)] = "idle"
        /\ pc'[Tx(d)] \in {"interrupt", "idle"}
        /\ pc'[Tx(d)] = "idle" => call[d] = "tx"
    BY <1>0, <1>2, TxStep DEF StoreStatus
  <2>2. status' = [status EXCEPT ![Target(d)] = word[Tx(d)]]
        /\ UNCHANGED <<env, lists, rx_int_enabled, call, word>>
    BY <1>2 DEF StoreStatus
  <2>3. call[d] = "rx" => status'[o] = word[Tx(d)]  BY <1>0, <2>2 DEF Target, o
  <2>4. Announced(o)' /\ Emptied(o)'  BY <1>0, <1>1, <2>1, <2>2 DEF o
  <2>5. Announced(d)' /\ Emptied(d)'  BY <1>0, <1>1, <2>1, <2>2, <2>3 DEF o
  <2>. QED  BY <2>4, <2>5
<1>3. CASE OwnStatus(d)
  <2>1. /\ pc[Tx(d)] = "own" /\ pc'[Tx(d)] = "store" /\ pc'[Tx(o)] = pc[Tx(o)]
        /\ ~env.smp => pc[Tx(o)] = "idle"
    BY <1>0, <1>3, TxStep DEF OwnStatus
  <2>2. word'[Tx(o)] = word[Tx(o)] /\ call'[o] = call[o] /\ call'[d] = "tx"
    BY <1>0, <1>3 DEF OwnStatus
  <2>. QED  BY <1>0, <1>1, <1>3, <2>1, <2>2 DEF OwnStatus, o
<1>4. CASE TxTimeout(d)
  <2>1. /\ pc[Tx(d)] = "idle" /\ pc'[Tx(d)] = "interrupt" /\ pc'[Tx(o)] = pc[Tx(o)]
        /\ ~env.smp => pc[Tx(o)] = "idle"
    BY <1>0, <1>4, TxStep DEF TxTimeout
  <2>2. call'[o] = call[o] /\ call'[d] = "timeout"  BY <1>0, <1>4 DEF TxTimeout
  <2>. QED  BY <1>0, <1>1, <1>4, <2>1, <2>2 DEF TxTimeout, o
<1>5. CASE TimeoutWake(d)
  <2>1. /\ pc[Tx(d)] = "finish" /\ pc'[Tx(d)] = "idle" /\ pc'[Tx(o)] = pc[Tx(o)]
        /\ ~env.smp => pc[Tx(o)] = "idle"
    BY <1>0, <1>5, TxStep DEF TimeoutWake
  <2>. QED  BY <1>0, <1>1, <1>5, <2>1 DEF TimeoutWake, o
<1>. QED  BY <1>2, <1>3, <1>4, <1>5 DEF Signalling
LEMMA HandleOrder == ASSUME TypeOK, InOrder, NEW d \in Devs, Handling(d) PROVE InOrder'
<1> DEFINE o == Other(d)
<1>0. /\ o \in Devs /\ o # d /\ Other(o) = d /\ \A e \in Devs : e = d \/ e = o
      /\ Tx(d) \in Threads /\ Tx(o) \in Threads /\ Tx(o) # Tx(d)
      /\ Tx(d)[1] = "tx" /\ Tx(d)[2] = d
  BY TwoDevices, ThreadsOf
<1> SUFFICES Announced(d)' /\ Emptied(d)' /\ Announced(o)' /\ Emptied(o)'
  BY <1>0 DEF InOrder
<1>1. Announced(d) /\ Emptied(d) /\ Announced(o) /\ Emptied(o)  BY <1>0 DEF InOrder
<1>2. Resume(Tx(d)) \in {"own", "idle", "finish"} /\ (Resume(Tx(d)) = "own" => call[d] = "rx")
  BY <1>0 DEF Resume, TypeOK
<1> USE DEF Announced, Emptied, Sent, lists, net, module, poll, local, TypeOK
<1> HIDE DEF o
<1>3. CASE RegularInterrupt(d)
  <2> DEFINE pkt == IF "RX" \in status[Target(d)] THEN rx_queue[Target(d)] ELSE NULL
  <2>1. /\ pc[Tx(d)] = "interrupt" /\ pc'[Tx(d)] \in {"push", Resume(Tx(d))}
        /\ pc'[Tx(o)] = pc[Tx(o)]
        /\ ~env.smp => pc[Tx(o)] = "idle"
    BY <1>0, <1>3, TxStep DEF RegularInterrupt
  <2>2. /\ UNCHANGED <<env, rx_int_enabled, next, call, word>>
        /\ rx_queue' = IF pkt # NULL THEN [rx_queue EXCEPT ![Target(d)] = next[pkt]] ELSE rx_queue
    BY <1>3 DEF RegularInterrupt
  <2>3. ~env.smp => Announced(o)' /\ Announced(d)'  BY <1>0, <1>1, <1>2, <2>1, <2>2
  <2>4. env.smp => Announced(o)' /\ Announced(d)'  BY <1>0, <1>1, <1>2, <2>1, <2>2
  <2>5. ASSUME ~env.smp, ~env.napi PROVE rx_queue'[o] = NULL /\ rx_queue'[d] = NULL
    <3>1. rx_queue[d] = NULL  BY <1>0, <1>1, <2>1, <2>5
    <3>2. CASE call[d] = "rx"
      <4>1. Target(d) = o /\ pkt = rx_queue[o]
        BY <1>0, <1>1, <2>1, <2>5, <3>2 DEF Target, o
      <4>2. pkt # NULL => next[pkt] = NULL  BY <1>0, <1>1, <2>5, <4>1 DEF o
      <4>. QED  BY <1>0, <2>2, <3>1, <4>1, <4>2
    <3>3. CASE call[d] # "rx"
      <4>1. Target(d) = d /\ rx_queue[o] = NULL  BY <1>0, <1>1, <2>5, <3>3 DEF Target, o
      <4>. QED  BY <2>2, <3>1, <4>1
    <3>. QED  BY <3>2, <3>3
  <2>6. Emptied(o)' /\ Emptied(d)'  BY <1>0, <1>1, <2>2, <2>5 DEF o
  <2>. QED  BY <2>3, <2>4, <2>6
<1>4. CASE NapiInterrupt(d)
  <2>1. /\ pc[Tx(d)] = "interrupt" /\ pc'[Tx(d)] = Resume(Tx(d))
        /\ pc'[Tx(o)] = pc[Tx(o)]
        /\ ~env.smp => pc[Tx(o)] = "idle"
    BY <1>0, <1>4, TxStep DEF NapiInterrupt
  <2>2. env.napi /\ UNCHANGED <<env, call, word>>  BY <1>4 DEF NapiInterrupt
  <2>. QED  BY <1>0, <1>1, <1>2, <2>1, <2>2
<1>. QED  BY <1>3, <1>4 DEF Handling

LEMMA ReleaseOrder ==
  ASSUME TypeOK, Placed, InOrder, NEW d \in Devs, NEW t \in {Tx(d), Poll(d)}, Releasing(t)
  PROVE  InOrder'
<1>0. /\ t \in Threads /\ \A e \in Devs : Tx(e) \in Threads /\ Other(e) \in Devs
      /\ Tx(d)[1] = "tx" /\ Tx(d)[2] = d
      /\ \A e \in Devs : Tx(e) = t => e = d
  <2>1. \A e \in Devs : Tx(e) \in Threads /\ Other(e) \in Devs  BY ThreadsOf, TwoDevices
  <2>2. \A e \in Devs : Tx(e) = t => e = d  BY DEF Tx, Poll
  <2>. QED  BY <2>1, <2>2, ThreadsOf
<1>1. \A e \in Devs : Announced(e) /\ Emptied(e)  BY DEF InOrder
<1>2. /\ pc[t] \in {"push", "test", "wake"} /\ pc'[t] \in {"test", "wake", Resume(t)}
      /\ \A u \in Threads : u # t => pc'[u] = pc[u]
      /\ ~env.smp => \A u \in Threads : u # t => pc[u] = "idle"
      /\ UNCHANGED <<env, rx_queue, status, rx_int_enabled, call, word>>
  <2>1. ASSUME NEW from, NEW to, Goto(t, from, to)
        PROVE  /\ pc[t] = from /\ pc'[t] = to
               /\ \A u \in Threads : u # t => pc'[u] = pc[u]
               /\ ~env.smp => \A u \in Threads : u # t => pc[u] = "idle"
    BY <1>0, <2>1 DEF Goto, Runs, TypeOK
  <2> USE DEF lists, priv, net, module
  <2>2. CASE ReleasePush(t)
    <3>1. Goto(t, "push", "test")  BY <2>2 DEF ReleasePush
    <3>2. UNCHANGED <<env, rx_queue, status, rx_int_enabled, call, word>>
      BY <2>2 DEF ReleasePush, local, poll
    <3>. QED  BY <2>1, <3>1, <3>2
  <2>3. CASE ReleaseTest(t)
    <3>1. PICK x \in {"wake", Resume(t)} : Goto(t, "test", x)  BY <2>3 DEF ReleaseTest
    <3>2. UNCHANGED <<env, rx_queue, status, rx_int_enabled, call, word>>  
      BY <2>3 DEF ReleaseTest
    <3>. QED  BY <2>1, <3>1, <3>2
  <2>4. CASE ReleaseWake(t)  BY <2>1, <2>4 DEF ReleaseWake
  <2>. QED  BY <2>2, <2>3, <2>4 DEF Releasing
<1>3. t = Tx(d) => /\ Resume(t) \in {"own", "idle", "finish"}
                   /\ Resume(t) = "own" => call[d] = "rx"
  BY <1>0 DEF Resume, TypeOK
<1>4. ASSUME NEW e \in Devs PROVE Announced(e)' /\ Emptied(e)'
  <2>1. Announced(e)'  BY <1>0, <1>1, <1>2, <1>3 DEF Announced
  <2>2. ~env.smp /\ ~env.napi => rx_queue[Other(e)] = NULL
    BY <1>0, <1>1, <1>2 DEF Emptied, Sent
  <2>3. Emptied(e)'  BY <1>1, <1>2, <2>2 DEF Emptied
  <2>. QED  BY <2>1, <2>3
<1>. QED  BY <1>4 DEF InOrder

LEMMA PollOrder == ASSUME TypeOK, InOrder, NEW d \in Devs, PollSteps(d) PROVE InOrder'
<1>0. \A e \in Devs : Other(e) \in Devs /\ Other(Other(e)) = e  BY TwoDevices
<1>1. \A e \in Devs : Announced(e) /\ Emptied(e)  BY DEF InOrder
<1> USE DEF lists, priv, net, module, poll, local, TypeOK
<1>2. CASE PollTake(d)
  <2>1. \A e \in Devs : pc'[Tx(e)] = pc[Tx(e)] /\ (~env.smp => pc[Tx(e)] = "idle")
    BY <1>2, PollStep DEF PollTake
  <2>2. UNCHANGED <<env, next, status, rx_int_enabled, call, word>> /\ rx_queue[d] # NULL
    BY <1>2 DEF PollTake
  <2>3. env.smp \/ env.napi  BY <1>0, <1>1, <2>1, <2>2 DEF Emptied, Sent
  <2>4. \A e \in Devs : Announced(e)' /\ Emptied(e)'
    BY <1>1, <2>1, <2>2, <2>3 DEF Announced, Emptied
  <2>. QED  BY <2>4 DEF InOrder
<1>3. CASE PollEnable(d)
  <2>1. /\ UNCHANGED <<env, next, rx_queue, status, call, word, pc>>
        /\ rx_int_enabled' = [rx_int_enabled EXCEPT ![d] = TRUE]
    BY <1>3 DEF PollEnable
  <2>2. \A e \in Devs : Announced(e)' /\ Emptied(e)'
    BY <1>1, <2>1 DEF Announced, Emptied, Sent
  <2>. QED  BY <2>2 DEF InOrder
<1>4. CASE PollStart(d) \/ PollEnd(d) \/ PollCheck(d)
  <2>1. \A e \in Devs : pc'[Tx(e)] = pc[Tx(e)]
    BY <1>4, PollStep DEF PollStart, PollEnd, PollCheck
  <2>2. UNCHANGED <<env, next, rx_queue, status, rx_int_enabled, call, word>>
    BY <1>4 DEF PollStart, PollEnd, PollCheck
  <2>3. \A e \in Devs : Announced(e)' /\ Emptied(e)'
    BY <1>1, <2>1, <2>2 DEF Announced, Emptied, Sent
  <2>. QED  BY <2>3 DEF InOrder
<1>. QED  BY <1>2, <1>3, <1>4 DEF PollSteps

LEMMA OrderKept ==
  ASSUME InOrder, UNCHANGED <<env, next, rx_queue, status, rx_int_enabled, call, word, pc>>
  PROVE  InOrder'
BY DEF InOrder, Announced, Emptied, Sent

LEMMA OrderStep == TypeOK /\ Placed /\ InOrder /\ [Next]_vars => InOrder'
<1>1. SUFFICES ASSUME TypeOK, Placed, InOrder, [Next]_vars PROVE InOrder'  OBVIOUS
<1>2. CASE UNCHANGED vars
  BY <1>1, <1>2, OrderKept DEF vars, net, module, lists, priv, local
<1>3. CASE Next
  <2>1. PICK d \in Devs : \/ Sending(d) \/ Signalling(d) \/ Handling(d) \/ PollSteps(d)
                          \/ UpAndDown(d) \/ Releasing(Tx(d)) \/ Releasing(Poll(d))
    BY <1>3, StepKinds
  <2>2. CASE UpAndDown(d)
    BY <1>1, <2>2, OrderKept DEF UpAndDown, Release, Open, CleanupUnregister, CleanupTeardown,
                                 CleanupFree, Cleanup, Closed, lists, priv, module, local
  <2>3. CASE Sending(d)     BY <1>1, <2>3, SendOrder
  <2>4. CASE Signalling(d)  BY <1>1, <2>4, SignalOrder
  <2>5. CASE Handling(d)    BY <1>1, <2>5, HandleOrder
  <2>6. CASE PollSteps(d)   BY <1>1, <2>6, PollOrder
  <2>7. CASE Releasing(Tx(d)) \/ Releasing(Poll(d))  BY <1>1, <2>7, ReleaseOrder
  <2>. QED  BY <2>1, <2>2, <2>3, <2>4, <2>5, <2>6, <2>7
<1>. QED  BY <1>1, <1>2, <1>3
-----------------------------------------------------------------------------
(* One processor, interfaces that stay up, no watchdog and no lost interrupt. *)

Signal(d) == IF call[d] = "rx" THEN {"RX"} ELSE {"TX"}

Signalled(d) ==
  /\ running[d] /\ call[d] # "timeout"
  /\ pc[Tx(d)] \notin {"poll", "check", "finish"}
  /\ pc[Tx(d)] \in {"push", "test", "wake"} => call[d] = "rx"
  /\ pc[Tx(d)] = "store" => word[Tx(d)] = Signal(d)
  /\ pc[Tx(d)] = "interrupt" => status[Target(d)] = Signal(d)
  /\ status[d] # {} => \E e \in Devs : pc[Tx(e)] = "interrupt" /\ Target(e) = d

InDriver(d) == IF pc[Tx(d)] = "idle" THEN skb[d] \in {"none", "freed"} ELSE skb[d] = "driver"

Stocked(d) ==
  /\ ppool[d] = NULL => stopped[d]
  /\ pc[Tx(d)] = "get" => ppool[d] # NULL

Polled(d) ==
  env.napi => /\ rx_queue[Other(d)] # NULL => scheduled[Other(d)] \/ Sent(d)
              /\ ~rx_int_enabled[d] => scheduled[d] \/ d \in enabling

Returned(t) == pc[t] \in {"test", "wake"} => held[t] # NULL /\ ppool[held[t][1]] # NULL

InService ==
  Plain => /\ \A d \in Devs : Signalled(d) /\ InDriver(d) /\ Stocked(d) /\ Polled(d)
           /\ \A t \in Threads : Returned(t)

LEMMA PlainIs ==
  ASSUME TypeOK, Plain
  PROVE  /\ ~env.smp /\ env.lockup = 0 /\ env.rmmod = "never"
         /\ \A d \in Devs : d \notin env.watched /\ d \notin env.closers
BY DEF Plain

LEMMA SendServes ==
  ASSUME TypeOK, Placed, InOrder, InService, NEW d \in Devs, Sending(d) PROVE InService'
<1> DEFINE o == Other(d)
<1>0. /\ o \in Devs /\ o # d /\ Other(o) = d /\ \A e \in Devs : e = d \/ e = o
      /\ Tx(d) \in Threads /\ Tx(o) \in Threads /\ Tx(o) # Tx(d)
  BY TwoDevices, ThreadsOf
<1>1. SUFFICES ASSUME Plain
               PROVE  /\ Signalled(d)' /\ InDriver(d)' /\ Stocked(d)' /\ Polled(d)'
                      /\ Signalled(o)' /\ InDriver(o)' /\ Stocked(o)' /\ Polled(o)'
                      /\ \A t \in Threads : Returned(t)'
  <2>1. env' = env
    BY DEF Sending, Transmit, GetTxBuffer, EnqueueBuf, NotifyNot, Notify, net, module
  <2>. QED  BY <1>0, <2>1 DEF InService, Plain
<1>2. /\ Signalled(d) /\ InDriver(d) /\ Stocked(d) /\ Polled(d)
      /\ Signalled(o) /\ InDriver(o) /\ Stocked(o) /\ Polled(o)
      /\ Announced(d) /\ Emptied(d) /\ ~env.smp
  BY <1>0, <1>1, PlainIs DEF InService, InOrder
<1>3. Target(d) = IF call[d] = "rx" THEN o ELSE d  BY DEF Target
<1> HIDE DEF o
<1> USE <1>0, <1>2, <1>3 DEF Signalled, Signal, InDriver, Stocked, Polled, Returned, Sent, Announced,
      Target, lists, priv, net, module, poll, local, TypeOK
<1>4. CASE Transmit(d)
  <2>1. /\ pc[Tx(d)] = "idle" /\ pc'[Tx(d)] = "get" /\ pc'[Tx(o)] = "idle" /\ pc[Tx(o)] = "idle"
        /\ enabling = {} /\ \A t \in Threads : t # Tx(d) => pc'[t] = "idle"
    BY <1>4, TxStep DEF Transmit
  <2>2. Signalled(d)' /\ Signalled(o)'  BY <1>4, <2>1 DEF Transmit
  <2>3. InDriver(d)' /\ InDriver(o)'  BY <1>4, <2>1 DEF Transmit
  <2>4. Stocked(d)' /\ Stocked(o)'  BY <1>4, <2>1 DEF Transmit
  <2>5. Polled(d)' /\ Polled(o)'  BY <1>4, <2>1 DEF Transmit, o
  <2>6. \A t \in Threads : Returned(t)'  BY <2>1
  <2>. QED  BY <2>2, <2>3, <2>4, <2>5, <2>6
<1>5. CASE GetTxBuffer(d)
  <2>1. /\ pc[Tx(d)] = "get" /\ pc'[Tx(d)] = "enqueue" /\ pc'[Tx(o)] = "idle" /\ pc[Tx(o)] = "idle"
        /\ enabling = {} /\ \A t \in Threads : t # Tx(d) => pc'[t] = "idle"
    BY <1>5, TxStep DEF GetTxBuffer
  <2>2. /\ ppool'[d] = next[ppool[d]] /\ ppool'[o] = ppool[o]
        /\ stopped'[d] = (stopped[d] \/ next[ppool[d]] = NULL) /\ stopped'[o] = stopped[o]
    BY <1>5 DEF GetTxBuffer, StopsQueue
  <2>3. Signalled(d)' /\ Signalled(o)'  BY <1>5, <2>1, <2>2 DEF GetTxBuffer
  <2>4. InDriver(d)' /\ InDriver(o)'  BY <1>5, <2>1, <2>2 DEF GetTxBuffer
  <2>5. Stocked(d)' /\ Stocked(o)'  BY <1>5, <2>1, <2>2 DEF GetTxBuffer
  <2>6. Polled(d)' /\ Polled(o)'  BY <1>5, <2>1, <2>2 DEF GetTxBuffer, o
  <2>7. \A t \in Threads : Returned(t)'  BY <2>1
  <2>. QED  BY <2>3, <2>4, <2>5, <2>6, <2>7
<1>6. CASE EnqueueBuf(d)
  <2>1. /\ pc[Tx(d)] = "enqueue" /\ pc'[Tx(d)] = "notify" /\ pc'[Tx(o)] = "idle" /\ pc[Tx(o)] = "idle"
        /\ enabling = {} /\ \A t \in Threads : t # Tx(d) => pc'[t] = "idle"
    BY <1>6, TxStep DEF EnqueueBuf
  <2>2. Signalled(d)' /\ Signalled(o)'  BY <1>6, <2>1 DEF EnqueueBuf
  <2>3. InDriver(d)' /\ InDriver(o)'  BY <1>6, <2>1 DEF EnqueueBuf
  <2>4. Stocked(d)' /\ Stocked(o)'  BY <1>6, <2>1 DEF EnqueueBuf
  <2>5. Polled(d)' /\ Polled(o)'  BY <1>6, <2>1 DEF EnqueueBuf, o
  <2>6. \A t \in Threads : Returned(t)'  BY <2>1
  <2>. QED  BY <2>2, <2>3, <2>4, <2>5, <2>6
<1>7. CASE NotifyNot(d)
  <2>1. /\ pc[Tx(d)] = "notify" /\ pc'[Tx(d)] = "own" /\ pc'[Tx(o)] = "idle" /\ pc[Tx(o)] = "idle"
        /\ enabling = {} /\ \A t \in Threads : t # Tx(d) => pc'[t] = "idle"
    BY <1>7, TxStep DEF NotifyNot
  <2>2. Signalled(d)' /\ Signalled(o)'  BY <1>7, <2>1 DEF NotifyNot
  <2>3. InDriver(d)' /\ InDriver(o)'  BY <1>7, <2>1 DEF NotifyNot
  <2>4. Stocked(d)' /\ Stocked(o)'  BY <1>7, <2>1 DEF NotifyNot
  <2>5. Polled(d)' /\ Polled(o)'  BY <1>7, <2>1 DEF NotifyNot, o
  <2>6. \A t \in Threads : Returned(t)'  BY <2>1
  <2>. QED  BY <2>2, <2>3, <2>4, <2>5, <2>6
<1>8. CASE Notify(d)
  <2>1. /\ pc[Tx(d)] = "notify" /\ pc'[Tx(d)] = "store" /\ pc'[Tx(o)] = "idle" /\ pc[Tx(o)] = "idle"
        /\ enabling = {} /\ \A t \in Threads : t # Tx(d) => pc'[t] = "idle"
    BY <1>8, TxStep DEF Notify
  <2>2. word'[Tx(d)] = {"RX"} /\ word'[Tx(o)] = word[Tx(o)]
    BY <1>8, <2>1 DEF Notify, o
  <2>3. Signalled(d)' /\ Signalled(o)'  BY <1>8, <2>1, <2>2 DEF Notify
  <2>4. InDriver(d)' /\ InDriver(o)'  BY <1>8, <2>1, <2>2 DEF Notify
  <2>5. Stocked(d)' /\ Stocked(o)'  BY <1>8, <2>1, <2>2 DEF Notify
  <2>6. Polled(d)' /\ Polled(o)'  BY <1>8, <2>1, <2>2 DEF Notify, o
  <2>7. \A t \in Threads : Returned(t)'  BY <2>1
  <2>. QED  BY <2>3, <2>4, <2>5, <2>6, <2>7
<1>. QED  BY <1>4, <1>5, <1>6, <1>7, <1>8 DEF Sending

LEMMA SignalServes ==
  ASSUME TypeOK, Placed, InOrder, InService, NEW d \in Devs, Signalling(d) PROVE InService'
<1> DEFINE o == Other(d)
<1>0. /\ o \in Devs /\ o # d /\ Other(o) = d /\ \A e \in Devs : e = d \/ e = o
      /\ Tx(d) \in Threads /\ Tx(o) \in Threads /\ Tx(o) # Tx(d)
      /\ Tx(d)[1] = "tx" /\ Tx(d)[2] = d
  BY TwoDevices, ThreadsOf
<1>1. SUFFICES ASSUME Plain
               PROVE  /\ Signalled(d)' /\ InDriver(d)' /\ Stocked(d)' /\ Polled(d)'
                      /\ Signalled(o)' /\ InDriver(o)' /\ Stocked(o)' /\ Polled(o)'
                      /\ \A t \in Threads : Returned(t)'
  <2>1. env' = env
    BY DEF Signalling, StoreStatus, OwnStatus, TxTimeout, TimeoutWake, net, module
  <2>. QED  BY <1>0, <2>1 DEF InService, Plain
<1>2. /\ Signalled(d) /\ InDriver(d) /\ Stocked(d) /\ Polled(d)
      /\ Signalled(o) /\ InDriver(o) /\ Stocked(o) /\ Polled(o)
      /\ Announced(d) /\ Emptied(d) /\ Emptied(o) /\ ~env.smp
  BY <1>0, <1>1, PlainIs DEF InService, InOrder
<1>3. Target(d) = IF call[d] = "rx" THEN o ELSE d  BY DEF Target
<1> HIDE DEF o
<1> USE <1>0, <1>2, <1>3 DEF Signalled, Signal, InDriver, Stocked, Polled, Returned, Sent, Announced,
      Target, lists, priv, net, module, poll, local, TypeOK
<1>4. CASE StoreStatus(d)
  <2>1. /\ pc[Tx(d)] = "store" /\ pc'[Tx(d)] = "interrupt" /\ pc'[Tx(o)] = "idle" /\ pc[Tx(o)] = "idle"
        /\ enabling = {} /\ \A t \in Threads : t # Tx(d) => pc'[t] = "idle"
    BY <1>1, <1>4, PlainIs, TxStep DEF StoreStatus
  <2>2. status' = [status EXCEPT ![Target(d)] = Signal(d)]
    BY <1>4, <2>1 DEF StoreStatus
  <2>3. stopped' = stopped
    <3>1. stopped'[d] = stopped[d]  BY <1>1, <1>4, PlainIs DEF StoreStatus
    <3>. QED  BY <1>4, <3>1 DEF StoreStatus
  <2>4. Signalled(d)' /\ Signalled(o)'  BY <1>4, <2>1, <2>2, <2>3 DEF StoreStatus
  <2>5. InDriver(d)' /\ InDriver(o)'  BY <1>4, <2>1, <2>2, <2>3 DEF StoreStatus
  <2>6. Stocked(d)' /\ Stocked(o)'  BY <1>4, <2>1, <2>2, <2>3 DEF StoreStatus
  <2>7. Polled(d)' /\ Polled(o)'  BY <1>4, <2>1, <2>2, <2>3 DEF StoreStatus, o
  <2>8. \A t \in Threads : Returned(t)'  BY <2>1, <2>2, <2>3
  <2>. QED  BY <2>4, <2>5, <2>6, <2>7, <2>8
<1>5. CASE OwnStatus(d)
  <2>1. /\ pc[Tx(d)] = "own" /\ pc'[Tx(d)] = "store" /\ pc'[Tx(o)] = "idle" /\ pc[Tx(o)] = "idle"
        /\ enabling = {} /\ \A t \in Threads : t # Tx(d) => pc'[t] = "idle"
    BY <1>5, TxStep DEF OwnStatus
  <2>2. word'[Tx(d)] = {"TX"} /\ word'[Tx(o)] = word[Tx(o)]
        /\ call'[d] = "tx" /\ call'[o] = call[o]
    BY <1>5, <2>1 DEF OwnStatus
  <2>3. Signalled(d)' /\ Signalled(o)'  BY <1>5, <2>1, <2>2 DEF OwnStatus
  <2>4. InDriver(d)' /\ InDriver(o)'  BY <1>5, <2>1, <2>2 DEF OwnStatus
  <2>5. Stocked(d)' /\ Stocked(o)'  BY <1>5, <2>1, <2>2 DEF OwnStatus
  <2>6. Polled(d)' /\ Polled(o)'  BY <1>5, <2>1, <2>2 DEF OwnStatus, o
  <2>7. \A t \in Threads : Returned(t)'  BY <2>1, <2>2
  <2>. QED  BY <2>3, <2>4, <2>5, <2>6, <2>7
<1>6. ~TxTimeout(d)  BY <1>1, PlainIs DEF TxTimeout
<1>7. ~TimeoutWake(d)  BY TxStep DEF TimeoutWake
<1>. QED  BY <1>4, <1>5, <1>6, <1>7 DEF Signalling

LEMMA HandleServes ==
  ASSUME TypeOK, Placed, InOrder, InService, NEW d \in Devs, Handling(d) PROVE InService'
<1> DEFINE o == Other(d)
<1>0. /\ o \in Devs /\ o # d /\ Other(o) = d /\ \A e \in Devs : e = d \/ e = o
      /\ Tx(d) \in Threads /\ Tx(o) \in Threads /\ Tx(o) # Tx(d)
      /\ Tx(d)[1] = "tx" /\ Tx(d)[2] = d
  BY TwoDevices, ThreadsOf
<1>1. SUFFICES ASSUME Plain
               PROVE  /\ Signalled(d)' /\ InDriver(d)' /\ Stocked(d)' /\ Polled(d)'
                      /\ Signalled(o)' /\ InDriver(o)' /\ Stocked(o)' /\ Polled(o)'
                      /\ \A t \in Threads : Returned(t)'
  <2>1. env' = env
    BY DEF Handling, RegularInterrupt, NapiInterrupt, net, module
  <2>. QED  BY <1>0, <2>1 DEF InService, Plain
<1>2. /\ Signalled(d) /\ InDriver(d) /\ Stocked(d) /\ Polled(d)
      /\ Signalled(o) /\ InDriver(o) /\ Stocked(o) /\ Polled(o)
      /\ Announced(d) /\ Emptied(d) /\ Emptied(o) /\ ~env.smp
  BY <1>0, <1>1, PlainIs DEF InService, InOrder
<1>3. Target(d) = IF call[d] = "rx" THEN o ELSE d  BY DEF Target
<1> HIDE DEF o
<1> USE <1>0, <1>2, <1>3 DEF Signalled, Signal, InDriver, Stocked, Polled, Returned, Sent, Announced,
      Target, lists, priv, net, module, poll, local, TypeOK
<1>4. call[d] = "rx" \/ call[d] = "tx"  OBVIOUS
<1>5. CASE NapiInterrupt(d)
  <2>1. /\ pc[Tx(d)] = "interrupt" /\ pc'[Tx(o)] = "idle" /\ pc[Tx(o)] = "idle"
        /\ pc'[Tx(d)] = IF call[d] = "rx" THEN "own" ELSE "idle"
        /\ enabling = {} /\ \A t \in Threads : t # Tx(d) => pc'[t] = "idle"
    BY <1>4, <1>5, TxStep DEF NapiInterrupt, Resume
  <2>2. /\ status' = [status EXCEPT ![Target(d)] = {}] /\ status[Target(d)] = Signal(d)
        /\ UNCHANGED <<env, lists, running, stopped, word, call, enabling>>
    BY <1>5, <2>1 DEF NapiInterrupt
  <2>3. IF call[d] = "rx" THEN skb' = skb ELSE skb' = [skb EXCEPT ![d] = "freed"]
    BY <1>4, <1>5, <2>1, <2>2 DEF NapiInterrupt, TxDone, Freed
  <2>4. Signalled(d)' /\ Signalled(o)'  BY <1>4, <2>1, <2>2
  <2>5. InDriver(d)' /\ InDriver(o)'  BY <1>4, <2>1, <2>2, <2>3
  <2>6. Stocked(d)' /\ Stocked(o)'  BY <2>1, <2>2
  <2>7. /\ call[d] = "rx" => scheduled'[o] /\ rx_int_enabled'[d] = rx_int_enabled[d]
                               /\ scheduled'[d] = scheduled[d]
        /\ call[d] = "tx" => scheduled' = scheduled /\ rx_int_enabled' = rx_int_enabled
    <3>1. CASE call[d] = "rx"
      <4>1. Target(d) = o /\ "RX" \in status[o]  BY <2>2, <3>1
      <4>. QED  BY <1>5, <3>1, <4>1 DEF NapiInterrupt
    <3>2. CASE call[d] = "tx"
      <4>1. Target(d) = d /\ "RX" \notin status[d]  BY <2>2, <3>2
      <4>2. scheduled'[d] = scheduled[d] /\ rx_int_enabled'[d] = rx_int_enabled[d]
        BY <1>5, <4>1 DEF NapiInterrupt
      <4>3. scheduled' = scheduled  BY <1>5, <4>1, <4>2 DEF NapiInterrupt
      <4>4. rx_int_enabled' = rx_int_enabled  BY <1>5, <4>1, <4>2 DEF NapiInterrupt
      <4>. QED  BY <3>2, <4>3, <4>4
    <3>. QED  BY <1>4, <3>1, <3>2
  <2>8. Polled(d)' /\ Polled(o)'  BY <1>4, <2>1, <2>2, <2>7 DEF o
  <2>9. \A t \in Threads : Returned(t)'  BY <1>4, <2>1
  <2>. QED  BY <2>4, <2>5, <2>6, <2>8, <2>9
<1>6. CASE RegularInterrupt(d)
  <2> DEFINE pkt == IF "RX" \in status[Target(d)] THEN rx_queue[Target(d)] ELSE NULL
  <2>0. /\ pc[Tx(d)] = "interrupt" /\ pc'[Tx(o)] = "idle" /\ pc[Tx(o)] = "idle"
        /\ pc'[Tx(d)] = IF pkt # NULL THEN "push" ELSE Resume(Tx(d))
        /\ enabling = {} /\ \A t \in Threads : t # Tx(d) => pc'[t] = "idle"
    BY <1>6, TxStep DEF RegularInterrupt
  <2>2. /\ status' = [status EXCEPT ![Target(d)] = {}] /\ status[Target(d)] = Signal(d)
        /\ ~env.napi
        /\ UNCHANGED <<env, ppool, rx_int_enabled, running, stopped, word, call>>
    BY <1>6, <2>0 DEF RegularInterrupt
  <2>1. /\ call[d] = "tx" => pc'[Tx(d)] = "idle"
        /\ call[d] = "rx" => pc'[Tx(d)] \in {"push", "own"}
    BY <1>4, <2>0, <2>2 DEF Resume
  <2>3. IF call[d] = "rx" THEN skb' = skb ELSE skb' = [skb EXCEPT ![d] = "freed"]
    BY <1>4, <1>6, <2>0, <2>2 DEF RegularInterrupt, TxDone, Freed
  <2>4. Signalled(d)' /\ Signalled(o)'  BY <1>4, <2>0, <2>1, <2>2
  <2>5. InDriver(d)' /\ InDriver(o)'  BY <1>4, <2>0, <2>1, <2>2, <2>3
  <2>6. Stocked(d)' /\ Stocked(o)'  BY <1>4, <2>0, <2>1, <2>2
  <2>7. Polled(d)' /\ Polled(o)'  BY <2>2
  <2>8. \A t \in Threads : Returned(t)'  BY <1>4, <2>0, <2>1
  <2>. QED  BY <2>4, <2>5, <2>6, <2>7, <2>8
<1>. QED  BY <1>5, <1>6 DEF Handling

LEMMA ReleaseServes ==
  ASSUME TypeOK, Placed, InOrder, InService, NEW d \in Devs, NEW t \in {Tx(d), Poll(d)},
         Releasing(t)
  PROVE  InService'
<1>0. /\ t \in Threads /\ \A e \in Devs : Tx(e) \in Threads /\ Other(e) \in Devs
      /\ \A e \in Devs : Tx(e) = t => e = d
  <2>1. \A e \in Devs : Tx(e) \in Threads /\ Other(e) \in Devs  BY ThreadsOf, TwoDevices
  <2>2. \A e \in Devs : Tx(e) = t => e = d  BY DEF Tx, Poll
  <2>. QED  BY <2>1, <2>2, ThreadsOf
<1>1. SUFFICES ASSUME Plain
               PROVE  /\ \A e \in Devs : Signalled(e)' /\ InDriver(e)' /\ Stocked(e)' /\ Polled(e)'
                      /\ \A u \in Threads : Returned(u)'
  <2>1. env' = env  BY DEF Releasing, ReleasePush, ReleaseTest, ReleaseWake, net, module
  <2>. QED  BY <2>1 DEF InService, Plain
<1>2. /\ \A e \in Devs : Signalled(e) /\ InDriver(e) /\ Stocked(e) /\ Polled(e)
      /\ Returned(t) /\ ~env.smp
  BY <1>0, <1>1, PlainIs DEF InService
<1>3. pc[t] \in {"push", "test", "wake"} => Resume(t) \in {"own", "poll"}
                                            /\ (t = Tx(d) => Resume(t) = "own")
  BY <1>2, ThreadsOf DEF Resume, Signalled
\* What every one of the three steps leaves alone.
<1>4. ASSUME NEW from, NEW to, Goto(t, from, to), from \in {"push", "test", "wake"},
             to \in {"test", "wake", Resume(t)},
             UNCHANGED <<rx_queue, priv, running, scheduled, enabling, word, call, env>>
      PROVE  /\ pc[t] = from /\ pc'[t] = to
             /\ \A u \in Threads : u # t => pc'[u] = "idle"
             /\ \A e \in Devs : Signalled(e)' /\ InDriver(e)' /\ Polled(e)'
  <2>1. pc[t] = from /\ pc'[t] = to /\ \A u \in Threads : u # t => pc[u] = "idle" /\ pc'[u] = "idle"
    BY <1>0, <1>2, <1>4 DEF Goto, Runs, TypeOK
  <2>2. ASSUME NEW e \in Devs PROVE Signalled(e)' /\ InDriver(e)' /\ Polled(e)'
    <3>1. \/ Tx(e) # t /\ pc[Tx(e)] = "idle" /\ pc'[Tx(e)] = "idle"
          \/ e = d /\ Tx(d) = t /\ to \in {"test", "wake", "own"}
      BY <1>0, <1>3, <1>4, <2>1
    <3>2. \A x \in Devs : pc[Tx(x)] # "interrupt" /\ pc'[Tx(x)] # "interrupt"
      BY <1>0, <1>3, <1>4, <2>1
    <3>3. \A x \in Devs : ~Sent(x)  BY <1>0, <1>4, <2>1 DEF Sent
    <3>4. Signalled(e)'
      BY <1>0, <1>2, <1>4, <2>1, <3>1, <3>2 DEF Signalled, Signal, priv
    <3>5. InDriver(e)'  BY <1>0, <1>2, <1>4, <2>1, <3>1 DEF InDriver, priv
    <3>6. Polled(e)'  BY <1>0, <1>2, <1>4, <3>3 DEF Polled, priv
    <3>. QED  BY <3>4, <3>5, <3>6
  <2>. QED  BY <2>1, <2>2
<1> USE DEF lists, priv, net, module, poll, local
<1>5. CASE ReleasePush(t)
  <2> DEFINE x == held[t][1]
  <2>1. Goto(t, "push", "test") /\ held' = held /\ ppool' = [ppool EXCEPT ![x] = held[t]]
        /\ stopped' = stopped
    BY <1>5 DEF ReleasePush
  <2>2. /\ pc[t] = "push" /\ pc'[t] = "test" /\ \A u \in Threads : u # t => pc'[u] = "idle"
        /\ \A e \in Devs : Signalled(e)' /\ InDriver(e)' /\ Polled(e)'
    <3>1. UNCHANGED <<rx_queue, priv, running, scheduled, enabling, word, call, env>>
      BY <1>5 DEF ReleasePush
    <3>. QED  BY <1>4, <2>1, <3>1
  <2>3. held[t] \in Packets /\ held[t] # NULL /\ x \in Devs
    BY <1>0, <2>2, HeldPacket, PacketsOf DEF TypeOK
  <2>4. ppool'[x] = held[t] /\ \A e \in Devs : e # x => ppool'[e] = ppool[e]
    BY <2>1, <2>3 DEF TypeOK
  <2>5. \A e \in Devs : pc'[Tx(e)] # "get"  BY <1>0, <2>2
  <2>6. \A e \in Devs : Stocked(e)'  BY <1>2, <2>1, <2>3, <2>4, <2>5 DEF Stocked
  <2>7. \A u \in Threads : Returned(u)'  BY <2>1, <2>2, <2>3, <2>4 DEF Returned
  <2>. QED  BY <2>2, <2>6, <2>7
<1>6. CASE ReleaseTest(t)
  <2>1. PICK to \in {"wake", Resume(t)} : Goto(t, "test", to)  BY <1>6 DEF ReleaseTest
  <2>2. /\ pc[t] = "test" /\ pc'[t] = to /\ \A u \in Threads : u # t => pc'[u] = "idle"
        /\ \A e \in Devs : Signalled(e)' /\ InDriver(e)' /\ Polled(e)'
    <3>1. UNCHANGED <<rx_queue, priv, running, scheduled, enabling, word, call, env>>
      BY <1>6 DEF ReleaseTest
    <3>. QED  BY <1>4, <2>1, <3>1
  <2>3. ppool' = ppool /\ stopped' = stopped  BY <1>6 DEF ReleaseTest
  <2>4. \A e \in Devs : pc'[Tx(e)] # "get"  BY <1>0, <1>3, <2>1, <2>2
  <2>5. \A e \in Devs : Stocked(e)'  BY <1>2, <2>3, <2>4 DEF Stocked
  <2>6. pc'[t] = "wake" => held'[t] = held[t]
    <3>1. stopped[held[t][1]] \/ pc'[t] = Resume(t)
      BY <1>0, <1>6 DEF ReleaseTest, Goto, TypeOK
    <3>2. Resume(t) # "wake"  BY <1>3, <2>2
    <3>. QED  BY <1>0, <1>6, <3>1, <3>2 DEF ReleaseTest, TypeOK
  <2>7. \A u \in Threads : Returned(u)'
    BY <1>2, <1>3, <2>1, <2>2, <2>3, <2>6 DEF Returned
  <2>. QED  BY <2>2, <2>5, <2>7
<1>7. CASE ReleaseWake(t)
  <2> DEFINE x == held[t][1]
  <2>1. /\ Goto(t, "wake", Resume(t)) /\ ppool' = ppool
        /\ stopped' = [stopped EXCEPT ![x] = @ /\ next[held[t]] # NULL]
    BY <1>7 DEF ReleaseWake
  <2>2. /\ pc[t] = "wake" /\ pc'[t] = Resume(t) /\ \A u \in Threads : u # t => pc'[u] = "idle"
        /\ \A e \in Devs : Signalled(e)' /\ InDriver(e)' /\ Polled(e)'
    <3>1. UNCHANGED <<rx_queue, priv, running, scheduled, enabling, word, call, env>>
      BY <1>7 DEF ReleaseWake
    <3>. QED  BY <1>4, <2>1, <3>1
  <2>3. ppool[x] # NULL  BY <1>2, <2>2 DEF Returned
  <2>4. \A e \in Devs : e # x => stopped'[e] = stopped[e]  BY <2>1 DEF TypeOK
  <2>5. \A e \in Devs : pc'[Tx(e)] # "get"  BY <1>0, <1>3, <2>2
  <2>6. \A e \in Devs : Stocked(e)'  BY <1>2, <2>1, <2>3, <2>4, <2>5 DEF Stocked
  <2>7. \A u \in Threads : Returned(u)'  BY <1>3, <2>2 DEF Returned
  <2>. QED  BY <2>2, <2>6, <2>7
<1>. QED  BY <1>5, <1>6, <1>7 DEF Releasing

LEMMA PollServes == ASSUME TypeOK, InService, NEW d \in Devs, PollSteps(d) PROVE InService'
<1>0. \A e \in Devs : Other(e) \in Devs /\ Other(Other(e)) = e  BY TwoDevices
<1>1. SUFFICES ASSUME Plain
               PROVE  /\ \A e \in Devs : Signalled(e)' /\ InDriver(e)' /\ Stocked(e)' /\ Polled(e)'
                      /\ \A u \in Threads : Returned(u)'
  <2>1. env' = env
    BY DEF PollSteps, PollStart, PollTake, PollEnd, PollCheck, PollEnable, net, module
  <2>. QED  BY <2>1 DEF InService, Plain
<1>2. /\ \A e \in Devs : Signalled(e) /\ InDriver(e) /\ Stocked(e) /\ Polled(e)
      /\ \A u \in Threads : Returned(u)
      /\ ~env.smp
  BY <1>1, PlainIs DEF InService
<1> USE DEF lists, priv, net, module, poll, local
<1>3. CASE PollEnable(d)
  <2>1. /\ UNCHANGED <<lists, env, running, stopped, scheduled, status, skb, pc, held, word, call>>
        /\ rx_int_enabled' = [rx_int_enabled EXCEPT ![d] = TRUE] /\ enabling' = enabling \ {d}
    BY <1>3 DEF PollEnable
  <2>2. \A e \in Devs : Signalled(e)'  BY <1>2, <2>1 DEF Signalled, Signal, Target
  <2>3. \A e \in Devs : InDriver(e)' /\ Stocked(e)'  BY <1>2, <2>1 DEF InDriver, Stocked
  <2>4. \A e \in Devs : Polled(e)'  BY <1>2, <2>1 DEF Polled, Sent, TypeOK
  <2>5. \A u \in Threads : Returned(u)'  BY <1>2, <2>1 DEF Returned
  <2>. QED  BY <2>2, <2>3, <2>4, <2>5
<1>4. CASE ~PollEnable(d)
  <2>1. PICK from, to : Goto(Poll(d), from, to) /\ to \notin {"test", "wake"}
    BY <1>4 DEF PollSteps, PollStart, PollTake, PollEnd, PollCheck
  <2>2. /\ enabling = {} /\ \A e \in Devs : pc[Tx(e)] = "idle" /\ pc'[Tx(e)] = "idle"
        /\ pc'[Poll(d)] = to /\ \A u \in Threads : u # Poll(d) => pc'[u] = "idle"
    BY <1>2, <2>1, PollStep
  <2>3. UNCHANGED <<env, ppool, next, priv, running, stopped, word, call>>
    BY <1>4 DEF PollSteps, PollStart, PollTake, PollEnd, PollCheck
  <2>4. \A e \in Devs : Signalled(e)'  BY <1>2, <2>2, <2>3 DEF Signalled, Signal, Target
  <2>5. \A e \in Devs : InDriver(e)' /\ Stocked(e)'  BY <1>2, <2>2, <2>3 DEF InDriver, Stocked
  <2>6. \A u \in Threads : Returned(u)'  BY <2>1, <2>2 DEF Returned
  <2>7. ASSUME env.napi, NEW e \in Devs
        PROVE  /\ rx_queue'[e] # NULL => scheduled'[e]
               /\ ~rx_int_enabled[e] => scheduled'[e] \/ e \in enabling'
    <3>1. /\ rx_queue[e] # NULL => scheduled[e]
          /\ ~rx_int_enabled[e] => scheduled[e]
      BY <1>0, <1>2, <2>2, <2>7 DEF Polled, Sent
    <3>2. CASE PollStart(d) \/ PollEnd(d)  BY <3>1, <3>2 DEF PollStart, PollEnd
    <3>3. CASE PollTake(d)
      <4>1. /\ scheduled' = scheduled /\ rx_queue[d] # NULL
            /\ rx_queue' = [rx_queue EXCEPT ![d] = next[rx_queue[d]]]
        BY <3>3 DEF PollTake
      <4>. QED  BY <3>1, <4>1 DEF TypeOK
    <3>4. CASE PollCheck(d)
      <4>1. /\ rx_queue' = rx_queue
            /\ enabling' = IF rx_queue[d] = NULL THEN enabling \cup {d} ELSE enabling
        BY <3>4 DEF PollCheck
      <4>2. scheduled'[e] = IF e = d THEN rx_queue[d] # NULL ELSE scheduled[e]
        BY <3>4 DEF PollCheck, TypeOK
      <4>. QED  BY <3>1, <4>1, <4>2
    <3>. QED  BY <1>4, <3>2, <3>3, <3>4 DEF PollSteps
  <2>8. \A e \in Devs : Polled(e)'  BY <1>0, <2>3, <2>7 DEF Polled
  <2>. QED  BY <2>4, <2>5, <2>6, <2>8
<1>. QED  BY <1>3, <1>4

LEMMA ServiceStep ==
  TypeOK /\ Placed /\ DownFirst /\ InOrder /\ InService /\ [Next]_vars => InService'
<1>1. SUFFICES ASSUME TypeOK, Placed, DownFirst, InOrder, InService, [Next]_vars PROVE InService'
  OBVIOUS
<1>2. CASE UNCHANGED vars
  <2>1. UNCHANGED <<env, ppool, next, rx_queue, status, rx_int_enabled, skb, running, stopped,
                    scheduled, enabling, pc, held, word, call>>
    BY <1>2 DEF vars, net, module, lists, priv, local, poll
  <2>2. /\ \A d \in Devs : Signalled(d)' = Signalled(d) /\ InDriver(d)' = InDriver(d)
        /\ \A d \in Devs : Stocked(d)' = Stocked(d) /\ Polled(d)' = Polled(d)
        /\ \A t \in Threads : Returned(t)' = Returned(t)
    BY <2>1 DEF Signalled, Signal, Target, InDriver, Stocked, Polled, Sent, Returned
  <2>. QED  BY <1>1, <2>1, <2>2 DEF InService, Plain
<1>3. CASE Next
  <2>1. PICK d \in Devs : \/ Sending(d) \/ Signalling(d) \/ Handling(d) \/ PollSteps(d)
                          \/ UpAndDown(d) \/ Releasing(Tx(d)) \/ Releasing(Poll(d))
    BY <1>3, StepKinds
  <2>2. CASE UpAndDown(d)
    <3>1. env' = env
      BY <2>2 DEF UpAndDown, Release, Open, CleanupUnregister, CleanupTeardown, CleanupFree,
                  Cleanup, module
    <3>2. ASSUME Plain PROVE FALSE
      <4>1. /\ env.rmmod = "never" /\ d \notin env.closers /\ d \in Devs
            /\ memory[d] = "registered"
        BY <1>1, <3>2, PlainIs DEF DownFirst, TypeOK
      <4>. QED  BY <2>2, <4>1 DEF UpAndDown, Release, Open, CleanupUnregister, CleanupTeardown,
                                   CleanupFree, Cleanup
    <3>. QED  BY <3>1, <3>2 DEF InService, Plain
  <2>3. CASE Sending(d)     BY <1>1, <2>3, SendServes
  <2>4. CASE Signalling(d)  BY <1>1, <2>4, SignalServes
  <2>5. CASE Handling(d)    BY <1>1, <2>5, HandleServes
  <2>6. CASE PollSteps(d)   BY <1>1, <2>6, PollServes
  <2>7. CASE Releasing(Tx(d)) \/ Releasing(Poll(d))  BY <1>1, <2>7, ReleaseServes
  <2>. QED  BY <2>1, <2>2, <2>3, <2>4, <2>5, <2>6, <2>7
<1>. QED  BY <1>1, <1>2, <1>3

\* The inductive invariant.
Invariant == TypeOK /\ Placed /\ DownFirst /\ InOrder /\ InService

LEMMA InvariantInit == Init => Invariant
<1>1. SUFFICES ASSUME Init PROVE Invariant  OBVIOUS
<1>2. /\ \A d \in Devs : Tx(d) \in Threads /\ Poll(d) \in Threads /\ Other(d) \in Devs
      /\ TypeOK /\ Placed
  BY <1>1, ThreadsOf, TwoDevices, TypesInit, PlacedInit
<1>3. \A d \in Devs : ppool[d] # NULL  BY <1>1, <1>2, PacketsOf DEF Init, TypeOK, Packets
<1>4. DownFirst  BY <1>1, <1>2 DEF Init, DownFirst, AtWork, Going
<1>5. InOrder  BY <1>1, <1>2 DEF Init, InOrder, Announced, Emptied
<1>6. InService
  <2>1. \A d \in Devs : Signalled(d)  BY <1>1, <1>2 DEF Init, Signalled
  <2>2. \A d \in Devs : InDriver(d) /\ Stocked(d) /\ Polled(d)
    BY <1>1, <1>2, <1>3 DEF Init, InDriver, Stocked, Polled
  <2>3. \A t \in Threads : Returned(t)  BY <1>1 DEF Init, Returned
  <2>. QED  BY <2>1, <2>2, <2>3 DEF InService
<1>. QED  BY <1>2, <1>4, <1>5, <1>6 DEF Invariant

LEMMA InvariantHolds == Spec => []Invariant
<1>1. Invariant /\ [Next]_vars => Invariant'
  BY PlacedStep, DownFirstStep, OrderStep, ServiceStep DEF Invariant
<1>. QED  BY <1>1, InvariantInit, PTL DEF Spec

\* snull_tx never fails: whenever the kernel hands a packet to an interface there
\* is one in its pool to put it in (lines 118-121 and 140).
THEOREM TransmitCorrect == Spec => []TransmitNeverFails
<1>1. Invariant => TransmitNeverFails
  BY DEF Invariant, InService, Stocked, TransmitNeverFails
<1>. QED  BY <1>1, InvariantHolds, PTL

\* An skb is freed once, by the transmit interrupt (lines 324 and 357).
THEOREM SkbCorrect == Spec => []SkbFreedOnce
<1>1. Invariant => SkbFreedOnce
  BY DEF Invariant, InService, InDriver, SkbFreedOnce
<1>. QED  BY <1>1, InvariantHolds, PTL

\* No transmission replaces priv->skb before its interrupt has freed it (line 453).
THEOREM SkbKept == Spec => SkbNotLost
<1>1. Invariant => \A d \in Devs : Plain /\ pc[Tx(d)] = "idle" /\ pc'[Tx(d)] = "get"
                                     => skb[d] # "driver"
  BY DEF Invariant, InService, InDriver
<1>. QED  BY <1>1, InvariantHolds, PTL DEF SkbNotLost

\* The receiver of a packet is told of it, and stays able to be told.
THEOREM ReceiverCorrect == Spec => []ReceiverServed
<1>1. Invariant => ReceiverServed
  <2>1. SUFFICES ASSUME Invariant, Plain, NEW d \in Devs
                 PROVE  /\ rx_queue[d] # NULL => Attended(d)
                        /\ ~rx_int_enabled[d] => \/ scheduled[d] \/ pc[Poll(d)] # "idle"
                                                 \/ d \in enabling
    BY DEF ReceiverServed, ReceiverNotified, InterruptsComeBack
  <2>2. Other(d) \in Devs /\ Other(Other(d)) = d /\ ~env.smp
    BY <2>1, TwoDevices, PlainIs DEF Invariant
  <2>3. Polled(d) /\ Polled(Other(d)) /\ Emptied(d) /\ Emptied(Other(d))
    BY <2>1, <2>2 DEF Invariant, InService, InOrder
  <2>. QED  BY <2>2, <2>3 DEF Polled, Emptied, Sent, Attended
<1>. QED  BY <1>1, InvariantHolds, PTL

\* The module is not unloaded at a moment of its own choosing (snull_unload.sh
\* takes the interfaces down first), and, without NAPI, not from a machine with two
\* processors, on which a packet can have been left in a receive queue.
NoRush == \A e \in Environments : e.rmmod # "whenever" /\ (e.rmmod = "down" => ~e.smp \/ e.napi)

LEMMA UnloadsClean == ASSUME NoRush, Invariant PROVE UnloadClean
<1>1. /\ TypeOK /\ Placed /\ DownFirst /\ InOrder /\ env \in Environments
      /\ env.rmmod \in {"never", "down"}
      /\ env.rmmod = "down" => ~env.smp \/ env.napi
  <2>1. env.rmmod \in {"never", "down", "whenever"}
    BY EnvironmentsAssumption DEF Invariant, TypeOK
  <2>. QED  BY <2>1 DEF Invariant, TypeOK, NoRush
<1>2. ASSUME NEW d \in Devs, memory[d] # "registered"
      PROVE  \A e \in Devs : ~running[e] /\ ~AtWork(e)
  BY <1>1, <1>2 DEF DownFirst, Going
<1>3. ASSUME NEW t \in Threads, NEW d \in Uses(t) PROVE memory[d] # "freed"
  <2>1. PICK x \in Devs : t = Tx(x) \/ t = Poll(x)  BY EachThread
  <2>2. pc[t] # "idle"  BY <1>3 DEF Uses
  <2>3. d \in Devs
    <3>1. CASE t = Tx(x)  BY <1>3, <2>2, <3>1, ThreadsOf DEF Uses
    <3>2. CASE t = Poll(x)
      <4>1. d = x \/ (held[t] # NULL /\ d = held[t][1])  BY <1>3, <2>2, <3>2, ThreadsOf DEF Uses
      <4>2. held[t] # NULL => held[t] \in Packets /\ held[t][1] \in Devs
        BY <1>1, PacketsOf DEF TypeOK
      <4>. QED  BY <4>1, <4>2
    <3>. QED  BY <2>1, <3>1, <3>2
  <2>. QED  BY <1>2, <2>1, <2>2, <2>3 DEF AtWork
<1>4. \A d \in Devs : scheduled[d] => memory[d] = "registered"  BY <1>2 DEF AtWork
<1>5. ASSUME ~env.napi, \A d \in Devs : memory[d] = "freed" PROVE kfreed = Packets
  <2>1. PICK loc : PlacedBy(loc)  BY <1>1 DEF Placed, Placement
  <2>2. First \in Devs  BY DevsAssumption
  <2>3. \A e \in Devs : ~AtWork(e)  BY <1>2, <1>5, <2>2
  <2>4. env.rmmod = "down" /\ ~env.smp
    <3>1. memory[First] # "registered"  BY <1>5, <2>2
    <3>. QED  BY <1>1, <1>5, <2>2, <3>1 DEF DownFirst
  <2>5. \A e \in Devs : ppool[e] = NULL /\ rx_queue[e] = NULL
    <3>1. ASSUME NEW e \in Devs PROVE ppool[e] = NULL /\ rx_queue[e] = NULL
      <4>1. ppool[e] = NULL  BY <1>1, <1>5, <2>4 DEF DownFirst
      <4>2. Other(e) \in Devs /\ Other(Other(e)) = e  BY TwoDevices
      <4>3. Emptied(Other(e)) /\ pc[Tx(Other(e))] = "idle"
        BY <1>1, <2>3, <4>2 DEF InOrder, AtWork
      <4>4. rx_queue[e] = NULL  BY <1>5, <2>4, <4>2, <4>3 DEF Emptied, Sent
      <4>. QED  BY <4>1, <4>4
    <3>. QED  BY <3>1
  <2>6. ASSUME NEW p \in Packets PROVE p \in kfreed
    <3>1. p[1] \in Devs /\ Other(p[1]) \in Devs /\ NULL \notin Packets
      BY <1>1, PacketsOf, TwoDevices
    <3>2. \A x : NULL \notin At(loc, x)  BY <3>1 DEF At
    <3>3. loc[p] # InPool(p[1])
      <4>1. ListOf(next, ppool[p[1]], At(loc, InPool(p[1])))  BY <2>1, <3>1 DEF PlacedBy
      <4>2. At(loc, InPool(p[1])) = {}  BY <2>5, <3>1, <3>2, <4>1, ListHead
      <4>. QED  BY <4>2 DEF At
    <3>4. loc[p] # InQueue(Other(p[1]))
      <4>1. ListOf(next, rx_queue[Other(p[1])], At(loc, InQueue(Other(p[1]))))
        BY <2>1, <3>1 DEF PlacedBy
      <4>2. At(loc, InQueue(Other(p[1]))) = {}  BY <2>5, <3>1, <3>2, <4>1, ListHead
      <4>. QED  BY <4>2 DEF At
    <3>5. ASSUME loc[p] \in Threads PROVE FALSE
      <4>1. PICK x \in Devs : loc[p] = Tx(x) \/ loc[p] = Poll(x)  BY <3>5, EachThread
      <4>2. pc[loc[p]] = "idle"  BY <2>3, <4>1 DEF AtWork
      <4>3. InHand(loc[p]) = {}  BY <4>2 DEF InHand
      <4>4. p \in At(loc, loc[p])  BY DEF At
      <4>. QED  BY <2>1, <3>5, <4>3, <4>4 DEF PlacedBy
    <3>6. loc[p] = Gone(p[1])  BY <2>1, <3>3, <3>4, <3>5 DEF PlacedBy, Allowed
    <3>. QED  BY <2>1, <3>6 DEF PlacedBy
  <2>. QED  BY <1>1, <2>6 DEF TypeOK
<1>. QED  BY <1>3, <1>4, <1>5 DEF UnloadClean

\* Unloaded with both interfaces down, the driver leaves nobody at work on a
\* net_device that is gone, and, without NAPI, no packet (lines 562-575).
THEOREM UnloadCorrect == ASSUME NoRush PROVE Spec => []UnloadClean
<1>1. Invariant => UnloadClean  BY UnloadsClean
<1>. QED  BY <1>1, InvariantHolds, PTL
=============================================================================
