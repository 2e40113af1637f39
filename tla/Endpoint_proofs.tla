---------------------------- MODULE Endpoint_proofs ----------------------------
(***************************************************************************)
(* Proofs about the stream endpoint of SoapyRemote.  HandleRing: acquiring *)
(* and releasing keep the tracking data consistent.  EndpointHandles: the  *)
(* tracking never hands out a buffer that is in use and never loses one.   *)
(* StreamFlow: flow control keeps the datagrams in flight within the       *)
(* window, across the wrap of the sequence numbers.  All for every number  *)
(* of buffers, window and number of datagrams.                             *)
(***************************************************************************)
EXTENDS EndpointHandles, StreamFlow, FiniteSetTheorems, TLAPS

-------------------------------------------------------------------------------
(* Indices: a sum that is reduced stays below twice the modulus.  And       *)
(* sequence numbers, of which the low 32 bits are known.                    *)

\* An index is its own remainder.
LEMMA ModSmall ==
  ASSUME NEW n \in Nat \ {0}, NEW a \in 0..(n - 1)
  PROVE  a % n = a
  OBVIOUS

\* A sum that passed the end once is the index counted from the start.
LEMMA ModWrap ==
  ASSUME NEW n \in Nat \ {0}, NEW a \in n..(2 * n - 1)
  PROVE  a % n = a - n
  OBVIOUS

\* A remainder is an index.
LEMMA ModRange ==
  ASSUME NEW n \in Nat \ {0}, NEW a \in Int
  PROVE  a % n \in 0..(n - 1)
  OBVIOUS

\* Advancing by i and then by j is advancing by i + j.
LEMMA ModStep ==
  ASSUME NEW n \in Nat \ {0}, NEW a \in 0..(n - 1), NEW i \in 0..n, NEW j \in 0..n,
         i + j <= n
  PROVE  (((a + i) % n) + j) % n = (a + i + j) % n
  <1>1. CASE a + i + j < n
    BY <1>1, ModSmall
  <1>2. CASE a + i + j >= n /\ a + i < n
    BY <1>2, ModSmall, a + i \in 0..(n - 1)
  <1>3. CASE a + i >= n
    <2>1. a + i \in n..(2 * n - 1) /\ a + i + j \in n..(2 * n - 1)
      BY <1>3
    <2>2. a + i - n + j \in 0..(n - 1)
      BY <2>1
    <2> QED  BY <2>1, <2>2, ModWrap, ModSmall
  <1> QED  BY <1>1, <1>2, <1>3

\* The index a number of places ahead, around the end or not.
LEMMA OffsetValue ==
  ASSUME NEW n \in Nat \ {0}, NEW a \in 0..(n - 1), NEW x \in 0..(n - 1)
  PROVE  (a + x) % n = IF a + x < n THEN a + x ELSE a + x - n
  <1>1. CASE a + x < n
    BY <1>1, ModSmall, a + x \in 0..(n - 1)
  <1>2. CASE a + x >= n
    <2>1. a + x \in n..(2 * n - 1)
      BY <1>2
    <2>2. (a + x) % n = a + x - n
      BY <2>1, ModWrap
    <2> QED  BY <1>2, <2>2
  <1> QED  BY <1>1, <1>2

\* Two offsets below the modulus lead to two different indices.
LEMMA OffsetInjective ==
  ASSUME NEW n \in Nat \ {0}, NEW a \in 0..(n - 1),
         NEW i \in 0..(n - 1), NEW j \in 0..(n - 1), (a + i) % n = (a + j) % n
  PROVE  i = j
  <1>1. (a + i) % n = IF a + i < n THEN a + i ELSE a + i - n
    BY OffsetValue, Zenon
  <1>2. (a + j) % n = IF a + j < n THEN a + j ELSE a + j - n
    BY OffsetValue, Zenon
  <1> QED  BY <1>1, <1>2

\* A difference of less than the period is computed exactly, also when only
\* the low 32 bits of the second operand are known.
LEMMA WireDifference ==
  ASSUME NEW m \in Nat \ {0}, NEW a \in Nat, NEW b \in Nat, a - b \in 0..(m - 1)
  PROVE  (a - (b % m)) % m = a - b
  OBVIOUS

\* Two numbers with the same low 32 bits are equal or a period apart.
LEMMA WireEqual ==
  ASSUME NEW m \in Nat \ {0}, NEW a \in Nat, NEW b \in Nat, a - b \in 0..(m - 1),
         a % m = b % m
  PROVE  a = b
  <1>1. (a - (b % m)) % m = a - b
    BY WireDifference, Zenon
  <1>2. (a - (a % m)) % m = a - a
    BY a - a \in 0..(m - 1), WireDifference, Zenon
  <1> QED  BY <1>1, <1>2

-------------------------------------------------------------------------------
(* The handle tracking.                                                     *)

\* Two offsets below the number of buffers name two different slots.
LEMMA SlotInjective ==
  ASSUME NEW a \in Handles, NEW i \in 0..(NumBuffs - 1), NEW j \in 0..(NumBuffs - 1),
         (a + i) % NumBuffs = (a + j) % NumBuffs
  PROVE  i = j
  BY NumBuffsAssumption, OffsetInjective DEF Handles

\* The handle to be acquired next is not acquired.
LEMMA RingNextIsFree ==
  ASSUME NEW r, RingOK(r), ~AllAcquired(r)
  PROVE  r.nextAcquire \notin r.acquired
  <1> SUFFICES ASSUME r.nextAcquire \in r.acquired
               PROVE  FALSE
    OBVIOUS
  <1>1. PICK i \in 0..(r.numAcquired - 1) : r.nextAcquire = Slot(r, i)
    BY DEF RingOK, InWindow
  <1>2. /\ NumBuffs \in Nat \ {0}  /\ r.nextRelease \in Handles
        /\ r.numAcquired \in 0..(NumBuffs - 1)
    BY NumBuffsAssumption DEF RingOK, Ring, Handles, AllAcquired
  <1>3. i \in 0..(NumBuffs - 1) /\ i # r.numAcquired
    BY <1>2
  <1>4. Slot(r, i) = Slot(r, r.numAcquired)
    BY <1>1 DEF RingOK, InWindow
  <1> QED  BY <1>2, <1>3, <1>4, SlotInjective DEF Slot

\* A set of handles is finite and no larger than the array.
LEMMA HandlesFinite ==
  ASSUME NEW S \in SUBSET Handles
  PROVE  IsFiniteSet(S) /\ Cardinality(S) \in 0..NumBuffs
  <1>1. NumBuffs \in Nat \ {0}
    BY NumBuffsAssumption
  <1>2. IsFiniteSet(Handles) /\ Cardinality(Handles) = NumBuffs
    BY <1>1, FS_Interval DEF Handles
  <1>3. IsFiniteSet(S) /\ Cardinality(S) <= Cardinality(Handles)
    BY <1>2, FS_Subset
  <1>4. Cardinality(S) \in Nat
    BY <1>3, FS_CardinalityType
  <1> QED  BY <1>1, <1>2, <1>3, <1>4

\* A new endpoint has every handle available.
LEMMA RingEmpty == RingOK(EmptyRing) /\ EmptyRing.outstanding = 0
  <1>1. 0 % NumBuffs = 0
    BY NumBuffsAssumption, ModSmall
  <1>2. EmptyRing \in Ring
    BY NumBuffsAssumption DEF EmptyRing, Ring, Handles
  <1> QED  BY <1>1, <1>2, FS_EmptySet DEF EmptyRing, RingOK, InWindow, OldestHeld, CountHeld, Slot

\* acquireRecv and acquireSend lengthen the window by the handle they hand out.
LEMMA RingAcquire ==
  ASSUME NEW r, NEW s, RingOK(r), Acquire(r, s)
  PROVE  RingOK(s)
  <1> DEFINE nr == r.nextRelease
             k == r.numAcquired
  <1>1. /\ NumBuffs \in Nat \ {0}  /\ nr \in 0..(NumBuffs - 1)  /\ k \in 0..(NumBuffs - 1)
        /\ r.nextAcquire \in 0..(NumBuffs - 1)
    BY NumBuffsAssumption DEF RingOK, Ring, Handles, Acquire, AllAcquired
  <1>2. /\ s.acquired = r.acquired \cup {r.nextAcquire}
        /\ s.nextAcquire = (r.nextAcquire + 1) % NumBuffs
        /\ s.nextRelease = nr
        /\ s.numAcquired = k + 1
        /\ s = [acquired |-> s.acquired, nextAcquire |-> s.nextAcquire,
                    nextRelease |-> s.nextRelease, numAcquired |-> s.numAcquired,
                    outstanding |-> s.outstanding]
    BY Zenon DEF RingOK, Ring, Acquire
  <1>o. CountHeld(s) /\ s.outstanding \in 0..NumBuffs
    <2>1. r.acquired \in SUBSET Handles /\ s.acquired \in SUBSET Handles
      BY <1>2 DEF RingOK, Ring
    <2>2. r.nextAcquire \notin r.acquired
      BY RingNextIsFree DEF Acquire
    <2>3. Cardinality(s.acquired) = Cardinality(r.acquired) + 1
      BY <1>2, <2>1, <2>2, HandlesFinite, FS_AddElement
    <2>4. s.outstanding = r.outstanding + 1
      BY DEF RingOK, Ring, Acquire
    <2>5. Cardinality(s.acquired) \in 0..NumBuffs
      BY <2>1, HandlesFinite
    <2> QED  BY <2>3, <2>4, <2>5 DEF RingOK, CountHeld
  <1>3. r.nextAcquire = (nr + k) % NumBuffs
    BY DEF RingOK, InWindow, Slot
  <1>4. s \in Ring
    <2>1. s.nextAcquire \in 0..(NumBuffs - 1)
      BY <1>1, <1>2, ModRange
    <2> QED  BY <1>1, <1>2, <1>o, <2>1 DEF RingOK, Ring, Handles
  <1>5. InWindow(s)
    <2>1. s.nextAcquire = (nr + (k + 1)) % NumBuffs
      <3>1. k \in 0..NumBuffs /\ 1 \in 0..NumBuffs /\ k + 1 <= NumBuffs /\ nr + k + 1 = nr + (k + 1)
        BY <1>1
      <3>2. (((nr + k) % NumBuffs) + 1) % NumBuffs = (nr + k + 1) % NumBuffs
        BY <1>1, <3>1, ModStep
      <3> QED  BY <1>2, <1>3, <3>1, <3>2
    <2>2. ASSUME NEW h \in s.acquired
          PROVE  \E i \in 0..k : h = (nr + i) % NumBuffs
      BY <1>1, <1>2, <1>3 DEF RingOK, InWindow, Slot
    <2> QED  BY <1>1, <1>2, <2>1, <2>2 DEF InWindow, Slot
  <1>6. OldestHeld(s)
    <2>1. CASE k = 0
      <3>1. r.nextAcquire = nr
        BY <1>1, <1>3, <2>1, ModSmall
      <3> QED  BY <1>2, <3>1 DEF OldestHeld
    <2>2. CASE k # 0
      BY <1>2, <2>2 DEF RingOK, OldestHeld
    <2> QED  BY <2>1, <2>2
  <1> QED  BY <1>4, <1>5, <1>6, <1>o DEF RingOK

\* releaseRecv and releaseSend shorten the window up to the next handle in use.
LEMMA RingRelease ==
  ASSUME NEW r, NEW s, RingOK(r), NEW h \in Handles, Release(r, h, s)
  PROVE  RingOK(s)
  <1> DEFINE nr == r.nextRelease
             n == r.numAcquired
  <1> PICK k \in 0..n :
          /\ Freed(r, r.acquired \ {h}, k)
          /\ s = [r EXCEPT !.acquired = @ \ {h},
                                  !.nextRelease = Slot(r, k),
                                  !.numAcquired = @ - k,
                                  !.outstanding = @ - 1]
    BY Zenon DEF Release
  <1>1. /\ NumBuffs \in Nat \ {0}  /\ nr \in 0..(NumBuffs - 1)  /\ n \in 0..NumBuffs
        /\ k \in 0..NumBuffs
    BY NumBuffsAssumption DEF RingOK, Ring, Handles
  <1>2. /\ s.acquired = r.acquired \ {h}
        /\ s.nextAcquire = r.nextAcquire
        /\ s.nextRelease = (nr + k) % NumBuffs
        /\ s.numAcquired = n - k
        /\ s = [acquired |-> s.acquired, nextAcquire |-> s.nextAcquire,
                    nextRelease |-> s.nextRelease, numAcquired |-> s.numAcquired,
                    outstanding |-> s.outstanding]
    BY Zenon DEF RingOK, Ring, Slot
  <1>o. CountHeld(s) /\ s.outstanding \in 0..NumBuffs
    <2>1. r.acquired \in SUBSET Handles /\ s.acquired \in SUBSET Handles
      BY <1>2 DEF RingOK, Ring
    <2>2. h \in r.acquired
      BY DEF Release
    <2>3. Cardinality(s.acquired) = Cardinality(r.acquired) - 1
      BY <1>2, <2>1, <2>2, HandlesFinite, FS_RemoveElement
    <2>4. s.outstanding = r.outstanding - 1
      BY DEF RingOK, Ring
    <2>5. Cardinality(s.acquired) \in 0..NumBuffs
      BY <2>1, HandlesFinite
    <2> QED  BY <2>3, <2>4, <2>5 DEF RingOK, CountHeld
  <1>3. s \in Ring
    <2>1. s.nextRelease \in 0..(NumBuffs - 1)
      BY <1>1, <1>2, ModRange
    <2> QED  BY <1>1, <1>2, <1>o, <2>1 DEF RingOK, Ring, Handles
  <1>4. \A j \in 0..(n - k) : (((nr + k) % NumBuffs) + j) % NumBuffs = (nr + k + j) % NumBuffs
    <2> TAKE j \in 0..(n - k)
    <2>1. j \in 0..NumBuffs /\ k + j <= NumBuffs
      BY <1>1
    <2> QED  BY <1>1, <2>1, ModStep
  <1>5. InWindow(s)
    <2>1. s.nextAcquire = (s.nextRelease + s.numAcquired) % NumBuffs
      <3>1. n - k \in 0..(n - k) /\ nr + k + (n - k) = nr + n
        BY <1>1
      <3> QED  BY <1>2, <1>4, <3>1 DEF RingOK, InWindow, Slot
    <2>2. ASSUME NEW g \in s.acquired
          PROVE  \E i \in 0..(s.numAcquired - 1) : g = (s.nextRelease + i) % NumBuffs
      <3>1. PICK i \in 0..(n - 1) : g = (nr + i) % NumBuffs
        BY <1>2, <2>2 DEF RingOK, InWindow, Slot
      <3>2. ~(i \in 0..(k - 1))
        BY <1>2, <2>2, <3>1 DEF Freed, Slot
      <3>3. i - k \in 0..(n - k - 1) /\ i - k \in 0..(n - k) /\ nr + k + (i - k) = nr + i
        BY <1>1, <3>2
      <3> QED  BY <1>1, <1>2, <1>4, <3>1, <3>3
    <2> QED  BY <2>1, <2>2 DEF InWindow, Slot
  <1>6. OldestHeld(s)
    BY <1>1, <1>2 DEF OldestHeld, Freed, Slot
  <1> QED  BY <1>3, <1>5, <1>6, <1>o, Zenon DEF RingOK

\* What a user sees of a call: one handle more, one handle less.
LEMMA RingSteps ==
  ASSUME NEW r, RingOK(r), NEW s
  PROVE  /\ r.outstanding \in 0..NumBuffs
         /\ Acquire(r, s) => RingOK(s) /\ s.outstanding = r.outstanding + 1
         /\ \A h \in Handles : Release(r, h, s) => RingOK(s) /\ s.outstanding = r.outstanding - 1
  <1>1. r \in Ring
    BY DEF RingOK
  <1>2. r.outstanding \in 0..NumBuffs
    BY <1>1 DEF Ring
  <1>3. ASSUME Acquire(r, s) PROVE RingOK(s) /\ s.outstanding = r.outstanding + 1
    <2>1. RingOK(s)
      BY <1>3, RingAcquire
    <2> QED  BY <1>1, <1>3, <2>1 DEF Ring, Acquire
  <1>4. ASSUME NEW h \in Handles, Release(r, h, s)
        PROVE  RingOK(s) /\ s.outstanding = r.outstanding - 1
    <2>1. RingOK(s)
      BY <1>4, RingRelease
    <2> QED  BY <1>1, <1>4, <2>1 DEF Ring, Release
  <1> QED  BY <1>2, <1>3, <1>4

-------------------------------------------------------------------------------
(* One endpoint.                                                            *)

\* Every call of the user keeps the tracking data consistent.
LEMMA NextInv == IInv /\ [HandlesNext]_ring => IInv'
  <1> SUFFICES ASSUME IInv, [HandlesNext]_ring PROVE IInv'
    OBVIOUS
  <1>1. CASE AcquireHandle
    BY <1>1, RingAcquire DEF IInv, AcquireHandle
  <1>2. ASSUME NEW h \in Handles, ReleaseHandle(h) PROVE IInv'
    BY <1>2, RingRelease DEF IInv, ReleaseHandle
  <1>3. CASE UNCHANGED ring
    BY <1>3 DEF IInv
  <1> QED  BY <1>1, <1>2, <1>3 DEF HandlesNext

\* The tracking data stays consistent: the index arithmetic of acquireRecv,
\* acquireSend, releaseRecv and releaseSend keeps IInv.
THEOREM HandlesInvariant == HandlesSpec => []IInv
  <1>1. HandlesInit => IInv
    BY RingEmpty DEF HandlesInit, IInv
  <1> QED  BY <1>1, NextInv, PTL DEF HandlesSpec

\* acquireRecv never receives into, and acquireRecv and acquireSend never hand
\* out, a buffer the user still holds.
THEOREM NextIsFreeInvariant == HandlesSpec => []NextIsFree
  <1>1. IInv => NextIsFree
    BY RingNextIsFree DEF IInv, NextIsFree
  <1> QED  BY HandlesInvariant, <1>1, PTL

\* A user that has released every handle, in any order, finds all of them
\* available again: the release loop loses none.
THEOREM AllReturnableInvariant == HandlesSpec => []AllReturnable
  <1>1. IInv => AllReturnable
    BY DEF IInv, RingOK, OldestHeld, AllReturnable
  <1> QED  BY HandlesInvariant, <1>1, PTL

\* The handle tracking implements the buffer pool that the direct buffer
\* access API promises.
THEOREM HandlesImplementPool == HandlesSpec => PoolSpec
  <1>1. HandlesInit => Pool!Init
    BY DEF HandlesInit, EmptyRing, Pool!Init
  <1>2. IInv /\ [HandlesNext]_ring => [Pool!Next]_(Pool!vars)
    <2> SUFFICES ASSUME IInv, [HandlesNext]_ring PROVE [Pool!Next]_(Pool!vars)
      OBVIOUS
    <2>1. CASE AcquireHandle
      <3>1. ring.nextAcquire \in Handles /\ ring.nextAcquire \notin ring.acquired
        BY <2>1, RingNextIsFree DEF IInv, RingOK, Ring, AcquireHandle, Acquire
      <3>2. /\ ring'.acquired = ring.acquired \cup {ring.nextAcquire}
            /\ ring'.outstanding = ring.outstanding + 1
        BY <2>1 DEF IInv, RingOK, Ring, AcquireHandle, Acquire
      <3> QED  BY <3>1, <3>2 DEF Pool!Next, Pool!Acquire
    <2>2. ASSUME NEW h \in Handles, ReleaseHandle(h) PROVE Pool!Next
      <3>1. /\ h \in ring.acquired
            /\ ring'.acquired = ring.acquired \ {h}
            /\ ring'.outstanding = ring.outstanding - 1
        BY <2>2 DEF IInv, RingOK, Ring, ReleaseHandle, Release
      <3> QED  BY <3>1 DEF Pool!Next, Pool!Release
    <2>3. CASE UNCHANGED ring
      BY <2>3 DEF Pool!vars
    <2> QED  BY <2>1, <2>2, <2>3 DEF HandlesNext
  <1> QED  BY <1>1, <1>2, HandlesInvariant, PTL DEF HandlesSpec, PoolSpec, Pool!Spec

-------------------------------------------------------------------------------
(* Flow control.                                                            *)

\* When waitSend finds the window open, it is.
LEMMA OpenMeansOpen ==
  ASSUME FlowInv, Ordered, ~misread, WindowOpen
  PROVE  sent - acked < Window
  <1>1. /\ SeqMod \in Nat \ {0}  /\ Window \in Nat  /\ MaxHeld \in Nat  /\ SeqMod > Window + MaxHeld
        /\ sent \in Nat  /\ acked \in Nat  /\ acked <= sent
        /\ maxInFlight \in {0, Window}
    BY FlowAssumption DEF FlowInv, TypeOK, CountersOK, AckedWasSent, SenderKnows
  <1>2. tx.outstanding \in 0..NumBuffs
    BY RingSteps DEF FlowInv, TypeOK
  <1>3. sent - acked + tx.outstanding <= Window - 1 + MaxHeld
    BY DEF FlowInv, WindowKept
  <1>4. sent - acked \in 0..(SeqMod - 1)
    BY <1>1, <1>2, <1>3
  <1>5. U32(sent - U32(acked)) = sent - acked
    BY <1>1, <1>4, WireDifference, Zenon DEF U32
  <1> QED  BY <1>1, <1>4, <1>5 DEF WindowOpen

-------------------------------------------------------------------------------
\* Initially nothing is sent, and neither end holds a handle.
LEMMA InitFlow == Init => FlowInv
  <1> SUFFICES ASSUME Init PROVE FlowInv
    OBVIOUS
  <1>1. NumBuffs \in Nat \ {0} /\ Window \in Nat \ {0} /\ MaxHeld \in 1..NumBuffs
    BY FlowAssumption, NumBuffsAssumption
  <1>2. RingOK(tx)
    BY RingEmpty DEF Init
  <1>3. RingOK(rx)
    BY RingEmpty DEF Init
  <1>4. tx.outstanding = 0
    BY RingEmpty DEF Init
  <1>5. FlagsOK
    BY Zenon DEF Init, FlagsOK
  <1>6. CountersOK
    BY DEF Init, CountersOK
  <1>7. TypeOK
    BY <1>2, <1>3, <1>5, <1>6 DEF TypeOK
  <1> QED  BY <1>1, <1>4, <1>7 DEF Init, FlowInv, AckedWasSent, Chain, SenderKnows, WindowKept

\* An ACK for m, a position the receiver has reached, follows those in flight.
LEMMA NewACK ==
  ASSUME CountersOK, Chain, NEW m \in Nat, rcvd <= m,
         \/ acks' = acks /\ lastAck' = lastAck
         \/ acks' = acks \cup {m} /\ lastAck' = m
  PROVE  /\ lastAck' <= m
         /\ \A a \in acks' : a <= lastAck'
         /\ SenderKnows /\ acked' = acked => acked' <= lastAck' /\ \A a \in acks' : acked' <= a
  <1>1. /\ acked \in Nat /\ lastAck \in Nat /\ lastAck' \in Nat /\ rcvd \in Nat
        /\ lastAck <= lastAck' /\ lastAck' <= m /\ lastAck <= m
    BY DEF Chain, CountersOK
  <1>2. ASSUME NEW a \in acks' PROVE a <= lastAck' /\ (SenderKnows => acked <= a)
    <2>1. a \in acks => a \in Nat /\ a <= lastAck /\ (SenderKnows => acked <= a)
      BY DEF Chain, CountersOK, SenderKnows
    <2>2. a \in acks \/ (a = m /\ lastAck' = m)
      OBVIOUS
    <2>3. SenderKnows => acked <= lastAck
      BY DEF SenderKnows
    <2> QED  BY <1>1, <2>1, <2>2, <2>3
  <1>3. SenderKnows => acked <= lastAck'
    BY <1>1 DEF SenderKnows
  <1> QED  BY <1>1, <1>2, <1>3

\* The steps of the receive endpoint.
LEMMA ReceiverFlow ==
  ASSUME FlowInv, ReceiverStep \/ ReceiverReleases
  PROVE  FlowInv'
  <1>a. RingOK(tx) /\ RingOK(rx) /\ FlagsOK /\ CountersOK /\ AckedWasSent
    BY DEF FlowInv, TypeOK
  <1>b. /\ Ordered => Chain
        /\ Ordered /\ ~misread => SenderKnows /\ WindowKept
    BY DEF FlowInv
  <1>m. misread' = misread
    <2>1. WaitRecv => misread' = misread
      BY DEF WaitRecv, sender
    <2>2. WaitRecvTimeout \/ AcquireRecvError => misread' = misread
      BY DEF WaitRecvTimeout, AcquireRecvError, sender
    <2>3. \A n : AcquireRecv(n) => misread' = misread
      BY DEF AcquireRecv, sender
    <2>4. \A h : ReleaseRecv(h) => misread' = misread
      BY DEF ReleaseRecv, sender
    <2> QED  BY <2>1, <2>2, <2>3, <2>4 DEF ReceiverStep, ReceiverReleases
  <1>1. CASE WaitRecv
    <2>1. RingOK(tx') /\ RingOK(rx')
      BY <1>a, <1>1, RingSteps DEF WaitRecv, sender
    <2>2. FlagsOK'
      BY <1>m, <1>a, <1>1 DEF FlagsOK, WaitRecv, sender
    <2>3. \/ acks' = acks /\ lastAck' = lastAck
          \/ acks' = acks \cup {rcvd} /\ lastAck' = rcvd
      BY <1>1 DEF WaitRecv, SendACK
    <2>5. UNCHANGED <<tx, spc, sent, acked, maxInFlight, rcvd, data, lost>>
      BY <1>1 DEF WaitRecv, sender
    <2>4. CountersOK' /\ AckedWasSent'
      <3>1. CountersOK'
        BY <1>a, <2>3, <2>5, Zenon DEF CountersOK
      <3>2. AckedWasSent'
        BY <1>m, <1>a, <2>3, <2>5 DEF AckedWasSent
      <3> QED  BY <3>1, <3>2
    <2>6. ASSUME Ordered PROVE Chain'
      <3>1. Chain /\ rcvd \in Nat /\ rcvd <= rcvd
        BY <1>a, <1>b, <2>6 DEF CountersOK
      <3>2. lastAck' <= rcvd /\ \A a \in acks' : a <= lastAck'
        BY <1>a, <2>3, <3>1, NewACK
      <3> QED  BY <2>5, <3>1, <3>2 DEF Chain
    <2>7. ASSUME Ordered, ~misread PROVE SenderKnows' /\ WindowKept'
      <3>0. Chain /\ rcvd \in Nat /\ rcvd <= rcvd /\ SenderKnows
        BY <1>a, <1>b, <2>7 DEF CountersOK
      <3>a. acked' <= lastAck' /\ \A a \in acks' : acked' <= a
        BY <1>a, <2>3, <2>5, <3>0, NewACK
      <3>1. SenderKnows'
        BY <2>5, <3>0, <3>a DEF SenderKnows
      <3>2. WindowKept'
        BY <1>b, <2>5, <2>7 DEF WindowKept
      <3> QED  BY <3>1, <3>2
    <2> QED  BY <1>m, <2>1, <2>2, <2>4, <2>6, <2>7, Zenon DEF FlowInv, TypeOK
  <1>2. CASE WaitRecvTimeout \/ AcquireRecvError
    <2>1. RingOK(tx') /\ RingOK(rx')
      BY <1>a, <1>2, RingSteps DEF WaitRecvTimeout, AcquireRecvError, sender
    <2>2. FlagsOK'
      BY <1>m, <1>a, <1>2 DEF FlagsOK, WaitRecvTimeout, AcquireRecvError, sender
    <2> QED  BY <1>m, <1>a, <1>b, <1>2, <2>1, <2>2, Zenon
             DEF FlowInv, TypeOK, CountersOK, AckedWasSent, Chain, SenderKnows, WindowKept,
                 WaitRecvTimeout, AcquireRecvError, sender, network
  <1>3. ASSUME NEW n \in Deliverable(data), AcquireRecv(n) PROVE FlowInv'
    <2>1. RingOK(tx') /\ RingOK(rx')
      BY <1>a, <1>3, RingSteps DEF AcquireRecv, sender
    <2>2. FlagsOK'
      BY <1>m, <1>a, <1>3 DEF FlagsOK, AcquireRecv, sender
    <2> DEFINE m == n + 1
    <2>3. /\ n \in data /\ n \in Nat /\ n < sent
          /\ m \in Nat /\ n < m /\ m <= sent
      BY <1>a DEF Deliverable, CountersOK, AckedWasSent
    <2>4. /\ \/ acks' = acks /\ lastAck' = lastAck
             \/ acks' = acks \cup {m} /\ lastAck' = m
          /\ data' = data \ {n} /\ rcvd' = m /\ lost' = lost
          /\ UNCHANGED <<tx, sent, acked, maxInFlight, spc>>
      BY <1>3 DEF AcquireRecv, SendACK, sender
    <2>8. \A k \in data : n < k => m <= k
      BY <1>a, <2>3 DEF CountersOK
    <2>9. CountersOK /\ AckedWasSent
      BY <1>a
    <2> HIDE DEF m
    <2>5. CountersOK'
      BY <2>9, <2>3, <2>4, Zenon DEF CountersOK
    <2>6. AckedWasSent'
      BY <1>m, <2>9, <2>3, <2>4, Zenon DEF AckedWasSent, CountersOK
    <2>7. ASSUME Ordered PROVE Chain' /\ rcvd <= m
      <3>1. \A k \in data : n <= k
        BY <2>7 DEF Deliverable
      <3>2. \A k \in data \ {n} : m <= k
        BY <2>9, <3>1, <2>3, <2>8 DEF CountersOK
      <3>3. Chain
        BY <1>b, <2>7
      <3>4. rcvd <= m
        BY <2>9, <2>3, <3>3 DEF Chain, CountersOK
      <3>5. lastAck' <= rcvd' /\ \A a \in acks' : a <= lastAck'
        BY <2>9, <2>3, <2>4, <3>3, <3>4, NewACK
      <3> QED  BY <2>4, <3>2, <3>4, <3>5 DEF Chain
    <2>10. ASSUME Ordered, ~misread PROVE SenderKnows' /\ WindowKept'
      <3>1. Chain /\ SenderKnows /\ rcvd <= m
        BY <1>b, <2>7, <2>10
      <3>a. acked' <= lastAck' /\ \A a \in acks' : acked' <= a
        BY <2>9, <2>3, <2>4, <3>1, NewACK, Zenon
      <3>2. SenderKnows'
        BY <2>4, <3>1, <3>a DEF SenderKnows
      <3>3. WindowKept'
        BY <1>b, <2>4, <2>10, Zenon DEF WindowKept
      <3> QED  BY <3>2, <3>3
    <2> QED  BY <1>m, <2>1, <2>2, <2>5, <2>6, <2>7, <2>10 DEF FlowInv, TypeOK
  <1>4. ASSUME NEW h \in Handles, ReleaseRecv(h) PROVE FlowInv'
    <2>1. RingOK(tx') /\ RingOK(rx')
      BY <1>a, <1>4, RingSteps DEF ReleaseRecv, sender
    <2>2. FlagsOK'
      BY <1>m, <1>a, <1>4 DEF FlagsOK, ReleaseRecv, sender
    <2> QED  BY <1>m, <1>a, <1>b, <1>4, <2>1, <2>2
             DEF FlowInv, TypeOK, CountersOK, AckedWasSent, Chain, SenderKnows, WindowKept,
                 ReleaseRecv, sender, network
  <1> QED  BY <1>1, <1>2, <1>3, <1>4 DEF ReceiverStep, ReceiverReleases

\* The steps of the send endpoint.
LEMMA SenderFlow ==
  ASSUME FlowInv, SenderStep \/ SenderReleases
  PROVE  FlowInv'
  <1>a. RingOK(tx) /\ RingOK(rx) /\ FlagsOK /\ CountersOK /\ AckedWasSent
    BY DEF FlowInv, TypeOK
  <1>b. /\ Ordered => Chain
        /\ Ordered /\ ~misread => SenderKnows /\ WindowKept
    BY DEF FlowInv
  <1>m. misread' = misread
    <2>1. WaitSend \/ ACKsDrained => misread' = misread
      BY DEF WaitSend, ACKsDrained
    <2>2. WaitSendTimeout \/ AcquireSendError \/ AcquireSend => misread' = misread
      BY DEF WaitSendTimeout, AcquireSendError, AcquireSend
    <2>3. \A a : RecvACK(a) => misread' = misread
      BY DEF RecvACK
    <2>4. \A h : ReleaseSend(h) => misread' = misread
      BY DEF ReleaseSend
    <2> QED  BY <2>1, <2>2, <2>3, <2>4 DEF SenderStep, SenderReleases
  <1>c. /\ tx.outstanding \in Nat /\ Window \in Nat /\ MaxHeld \in Nat
        /\ sent \in Nat /\ acked \in Nat
    BY <1>a, RingSteps, FlowAssumption DEF CountersOK
  <1>1. CASE WaitSend \/ ACKsDrained
    <2>1. RingOK(tx') /\ RingOK(rx')
      BY <1>a, <1>1, RingSteps DEF WaitSend, ACKsDrained, receiver
    <2>2. /\ UNCHANGED <<tx, txInitial, rxInitial, rpc, sent, acked, rcvd, lastAck, lost,
                         maxInFlight, data, acks>>
          /\ spc' \in {"ready", "select"} /\ (spc' = "ready" => WindowOpen)
      BY <1>1 DEF WaitSend, ACKsDrained, receiver, network
    <2>3. FlagsOK'
      BY <1>m, <1>a, <2>2 DEF FlagsOK
    <2>4. CountersOK' /\ AckedWasSent'
      BY <1>m, <1>a, <2>2 DEF CountersOK, AckedWasSent
    <2>5. Ordered => Chain'
      BY <1>b, <2>2 DEF Chain
    <2>6. ASSUME Ordered, ~misread PROVE SenderKnows' /\ WindowKept'
      <3>1. spc' = "ready" => sent - acked < Window
        BY <2>2, <2>6, OpenMeansOpen
      <3>2. tx.outstanding < MaxHeld
        BY <1>1, <1>b, <2>6, Zenon DEF WaitSend, ACKsDrained, WindowKept
      <3> QED  BY <1>b, <2>2, <2>6, <3>1, <3>2, Zenon DEF SenderKnows, WindowKept
    <2> QED  BY <1>m, <2>1, <2>3, <2>4, <2>5, <2>6, Zenon DEF FlowInv, TypeOK
  <1>2. CASE WaitSendTimeout \/ AcquireSendError
    <2>1. RingOK(tx') /\ RingOK(rx')
      BY <1>a, <1>2, RingSteps DEF WaitSendTimeout, AcquireSendError, receiver
    <2>2. /\ UNCHANGED <<tx, txInitial, rxInitial, rpc, sent, acked, rcvd, lastAck, lost,
                         maxInFlight, data, acks>>
          /\ spc' = "idle"
      BY <1>2 DEF WaitSendTimeout, AcquireSendError, receiver, network
    <2>3. FlagsOK'
      BY <1>m, <1>a, <2>2 DEF FlagsOK
    <2> QED  BY <1>m, <1>a, <1>b, <2>1, <2>2, <2>3, Zenon
             DEF FlowInv, TypeOK, CountersOK, AckedWasSent, Chain, SenderKnows, WindowKept
  <1>3. CASE AcquireSend
    <2>1. RingOK(tx') /\ RingOK(rx') /\ tx'.outstanding = tx.outstanding + 1
      BY <1>a, <1>3, RingSteps DEF AcquireSend, receiver
    <2>2. /\ UNCHANGED <<txInitial, rxInitial, rpc, sent, acked, rcvd, lastAck, lost,
                         maxInFlight, data, acks>>
          /\ spc = "ready" /\ spc' = "idle"
      BY <1>3 DEF AcquireSend, receiver, network
    <2>3. FlagsOK'
      BY <1>m, <1>a, <2>2 DEF FlagsOK
    <2>4. CountersOK' /\ AckedWasSent'
      BY <1>m, <1>a, <2>2 DEF CountersOK, AckedWasSent
    <2>5. Ordered => Chain'
      BY <1>b, <2>2 DEF Chain
    <2>6. ASSUME Ordered, ~misread PROVE SenderKnows' /\ WindowKept'
      <3>1. sent - acked < Window /\ tx.outstanding < MaxHeld
        BY <1>b, <2>2, <2>6 DEF WindowKept
      <3>2. sent' - acked' + tx'.outstanding <= Window - 1 + MaxHeld
        BY <1>c, <2>1, <2>2, <3>1
      <3> QED  BY <1>b, <2>2, <2>6, <3>2, Zenon DEF SenderKnows, WindowKept
    <2> QED  BY <1>m, <2>1, <2>3, <2>4, <2>5, <2>6, Zenon DEF FlowInv, TypeOK
  <1>4. ASSUME NEW a \in Deliverable(acks), RecvACK(a) PROVE FlowInv'
    <2>1. RingOK(tx') /\ RingOK(rx')
      BY <1>a, <1>4, RingSteps DEF RecvACK, receiver
    <2>2. /\ UNCHANGED <<tx, rxInitial, rpc, sent, rcvd, lastAck, lost, data>>
          /\ txInitial' = TRUE /\ spc \in {"select", "drain"} /\ spc' = "drain"
          /\ acks' = acks \ {a} /\ acked' = a /\ maxInFlight' = Window
      BY <1>4 DEF RecvACK, receiver, network
    <2>3. FlagsOK'
      BY <1>m, <1>a, <2>2, Zenon DEF FlagsOK
    <2>4. a \in acks /\ a \in Nat /\ a <= sent
      BY <1>a, Zenon DEF Deliverable, CountersOK, AckedWasSent
    <2>5. CountersOK' /\ AckedWasSent'
      BY <1>m, <1>a, <1>c, <2>2, <2>4, Zenon DEF CountersOK, AckedWasSent
    <2>6. Ordered => Chain'
      BY <1>b, <2>2 DEF Chain
    <2>7. ASSUME Ordered, ~misread PROVE SenderKnows' /\ WindowKept'
      <3>1. Chain /\ SenderKnows /\ WindowKept /\ \A k \in acks : a <= k
        BY <1>b, <2>7 DEF Deliverable
      <3>2. SenderKnows'
        BY <2>2, <2>4, <3>1 DEF SenderKnows, Chain
      <3>3. sent' - acked' + tx'.outstanding <= Window - 1 + MaxHeld
        <4>1. acked <= a /\ sent - acked + tx.outstanding <= Window - 1 + MaxHeld
          BY <2>4, <3>1, Zenon DEF SenderKnows, WindowKept
        <4> QED  BY <1>c, <2>2, <2>4, <4>1
      <3>4. WindowKept'
        BY <2>2, <3>1, <3>3 DEF WindowKept
      <3> QED  BY <3>2, <3>4
    <2> QED  BY <1>m, <2>1, <2>3, <2>5, <2>6, <2>7, Zenon DEF FlowInv, TypeOK
  <1>5. ASSUME NEW h \in Handles, ReleaseSend(h) PROVE FlowInv'
    <2>1. RingOK(tx') /\ RingOK(rx') /\ tx'.outstanding = tx.outstanding - 1
      BY <1>a, <1>5, RingSteps DEF ReleaseSend, receiver
    <2>2. /\ UNCHANGED <<txInitial, rxInitial, rpc, rcvd, lastAck, lost, acked, maxInFlight, spc,
                         acks>>
          /\ data' = data \cup {sent} /\ sent' = sent + 1 /\ spc = "idle"
      BY <1>5 DEF ReleaseSend, receiver, network
    <2>3. FlagsOK'
      BY <1>m, <1>a, <2>2 DEF FlagsOK
    <2>4. CountersOK'
      BY <1>a, <2>2 DEF CountersOK
    <2>5. AckedWasSent'
      BY <1>m, <1>a, <2>2 DEF CountersOK, AckedWasSent
    <2>6. Ordered => Chain'
      BY <1>a, <1>b, <2>2 DEF Chain, AckedWasSent
    <2>7. ASSUME Ordered, ~misread PROVE SenderKnows' /\ WindowKept'
      <3>1. SenderKnows /\ WindowKept
        BY <1>b, <2>7
      <3>2. SenderKnows'
        BY <2>2, <3>1 DEF SenderKnows
      <3>3. sent' - acked' + tx'.outstanding <= Window - 1 + MaxHeld
        BY <1>c, <2>1, <2>2, <3>1 DEF WindowKept
      <3>4. WindowKept'
        BY <2>2, <3>3 DEF WindowKept
      <3> QED  BY <3>2, <3>4
    <2> QED  BY <1>m, <2>1, <2>3, <2>4, <2>5, <2>6, <2>7, Zenon DEF FlowInv, TypeOK
  <1> QED  BY <1>1, <1>2, <1>3, <1>4, <1>5 DEF SenderStep, SenderReleases

\* A loss only takes a message out of the network; after a failed receive the
\* sender's position and window are anything.
LEMMA LossFlow ==
  ASSUME FlowInv, Loss
  PROVE  FlowInv'
  <1>a. RingOK(tx) /\ RingOK(rx) /\ FlagsOK /\ CountersOK /\ AckedWasSent
    BY Zenon DEF FlowInv, TypeOK
  <1>1. /\ UNCHANGED <<tx, sent, rx, rcvd, lastAck>>
        /\ data' \subseteq data /\ acks' \subseteq acks /\ lost' = lost + 1
    BY DEF Loss, LoseData, LoseACK, AcquireRecvFails, RecvACKFails, sender, receiver
  <1>2. RingOK(tx') /\ RingOK(rx')
    BY <1>a, <1>1, RingSteps, Zenon
  <1>3. FlagsOK'
    BY <1>a, Zenon DEF FlagsOK, Loss, LoseData, LoseACK, AcquireRecvFails, RecvACKFails, sender, receiver
  <1>4. acked' \in Nat /\ maxInFlight' \in Nat
    BY <1>a, FlowAssumption
    DEF CountersOK, Loss, LoseData, LoseACK, AcquireRecvFails, RecvACKFails, sender, receiver
  <1>5. ~misread' => ~misread /\ UNCHANGED <<acked, maxInFlight, spc>>
    BY DEF Loss, LoseData, LoseACK, AcquireRecvFails, RecvACKFails, sender, receiver
  <1>6. CountersOK' /\ AckedWasSent'
    BY <1>a, <1>1, <1>4, <1>5 DEF CountersOK, AckedWasSent
  <1>7. Ordered => Chain'
    BY <1>1 DEF FlowInv, Chain
  <1>8. ASSUME Ordered, ~misread' PROVE SenderKnows' /\ WindowKept'
    BY <1>1, <1>5, <1>8 DEF FlowInv, SenderKnows, WindowKept
  <1> QED  BY <1>2, <1>3, <1>6, <1>7, <1>8, Zenon DEF FlowInv, TypeOK

\* A step of another component keeps the invariant.
LEMMA StutterFlow ==
  ASSUME FlowInv, UNCHANGED vars
  PROVE  FlowInv'
  <1>a. RingOK(tx) /\ RingOK(rx)
    BY DEF FlowInv, TypeOK
  <1>1. UNCHANGED <<tx, sent, acked, maxInFlight, txInitial, spc, rx, rcvd, lastAck, rxInitial, rpc,
                    data, acks, lost, misread>>
    BY DEF vars, sender, receiver, network
  <1>2. RingOK(tx') /\ RingOK(rx')
    BY <1>a, <1>1, RingSteps
  <1>3. FlagsOK'
    BY <1>1 DEF FlowInv, TypeOK, FlagsOK
  <1> QED  BY <1>1, <1>2, <1>3 DEF FlowInv, TypeOK, CountersOK, AckedWasSent, Chain, SenderKnows, WindowKept

\* The state of the two endpoints and of the socket is always consistent: the
\* handle rings keep their invariant, only what was sent is received or
\* acknowledged, and on an ordered network the counters stay in the order
\* acked, lastAck, rcvd, sent and within the window.
THEOREM FlowInvariant == Spec => []FlowInv
  <1>1. Init => FlowInv
    BY InitFlow
  <1>2. FlowInv /\ [Next]_vars => FlowInv'
    BY ReceiverFlow, SenderFlow, LossFlow, StutterFlow DEF Next
  <1> QED  BY <1>1, <1>2, PTL DEF Spec

-------------------------------------------------------------------------------
\* On an ordered network the datagrams in flight are among the last ones sent.
LEMMA InFlightRange ==
  ASSUME FlowInv, Ordered, ~misread
  PROVE  /\ sent \in Nat /\ rcvd \in Nat /\ rcvd <= sent
         /\ data \subseteq rcvd..(sent - 1)
         /\ sent - rcvd <= Window - 1 + MaxHeld
         /\ Window \in Nat /\ MaxHeld \in Nat /\ SeqMod \in Nat /\ SeqMod > Window + MaxHeld
  <1>1. /\ sent \in Nat /\ rcvd \in Nat /\ acked \in Nat /\ lastAck \in Nat
        /\ acked <= lastAck /\ lastAck <= rcvd /\ rcvd <= sent
        /\ data \subseteq Nat
    BY DEF FlowInv, TypeOK, CountersOK, AckedWasSent, Chain, SenderKnows
  <1>2. data \subseteq rcvd..(sent - 1)
    BY <1>1 DEF FlowInv, AckedWasSent, Chain
  <1>3. tx.outstanding \in 0..NumBuffs
    BY RingSteps DEF FlowInv, TypeOK
  <1>4. sent - acked + tx.outstanding <= Window - 1 + MaxHeld
    BY DEF FlowInv, WindowKept
  <1>5. /\ Window \in Nat /\ MaxHeld \in Nat /\ NumBuffs \in Nat
        /\ SeqMod \in Nat /\ SeqMod > Window + MaxHeld
    BY FlowAssumption, NumBuffsAssumption
  <1> QED  BY <1>1, <1>2, <1>3, <1>4, <1>5

\* The datagrams in flight are numbered between what was received and sent.
LEMMA InvInFlightBounded == FlowInv => InFlightBounded
  <1> SUFFICES ASSUME FlowInv, Ordered, ~misread PROVE Cardinality(data) <= Window - 1 + MaxHeld
    BY DEF InFlightBounded, WithinWindow
  <1>1. /\ IsFiniteSet(rcvd..(sent - 1)) /\ Cardinality(rcvd..(sent - 1)) = sent - rcvd
    <2>1. rcvd \in Int /\ sent - 1 \in Int /\ rcvd <= sent
      BY InFlightRange
    <2>2. CASE rcvd = sent
      <3>1. rcvd..(sent - 1) = {}
        BY <2>1, <2>2
      <3> QED  BY <2>1, <2>2, <3>1, FS_EmptySet
    <2>3. CASE rcvd # sent
      BY <2>1, <2>3, FS_Interval, InFlightRange
    <2> QED  BY <2>2, <2>3
  <1>2. Cardinality(data) <= sent - rcvd
    BY <1>1, InFlightRange, FS_Subset
  <1>3. Cardinality(data) \in Nat
    BY <1>1, InFlightRange, FS_Subset, FS_CardinalityType, Zenon
  <1> QED  BY <1>2, <1>3, InFlightRange

\* The datagrams on their way to the receiver never exceed the window that its
\* ACKs granted, plus what direct access acquired before the first send, for
\* every window, number of buffers and sequence number width, until an
\* ACK is taken from a failed receive.
THEOREM InFlightInvariant == Spec => []InFlightBounded
  <1>1. FlowInv => InFlightBounded
    BY InvInFlightBounded
  <1> QED  BY <1>1, FlowInvariant, PTL

\* acquireRecv's comparison in 32 bits never overlooks a gap, until an ACK is
\* taken from a failed receive.
THEOREM NoSilentGapInvariant == Spec => []NoSilentGap
  <1>1. FlowInv => NoSilentGap
    <2> SUFFICES ASSUME FlowInv, Ordered, ~misread, NEW n \in data, n # rcvd
                 PROVE  U32(rcvd) # U32(n)
      BY DEF NoSilentGap, Notices
    <2>1. n \in rcvd..(sent - 1)
      BY InFlightRange
    <2>2. /\ SeqMod \in Nat \ {0} /\ n \in Nat /\ rcvd \in Nat /\ n - rcvd \in 0..(SeqMod - 1)
      BY <2>1, InFlightRange
    <2> QED  BY <2>2, WireEqual, Zenon DEF U32
  <1> QED  BY <1>1, FlowInvariant, PTL
===============================================================================
