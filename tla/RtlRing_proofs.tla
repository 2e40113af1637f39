---------------------------- MODULE RtlRing_proofs ----------------------------
(***************************************************************************)
(* Proofs about RtlRing: with one buffer taken at a time the ring of       *)
(* SoapyRTLSDR stays aligned under every interleaving of rx_callback, the  *)
(* reading thread and setSampleRate, for every number of buffers.          *)
(***************************************************************************)
EXTENDS RtlRing, FiniteSetTheorems, TLAPS

\* The user of one buffer at a time, who reads or releases what is left over
\* before activating or closing the stream.
OneAtATime == MaxHeld = 1 /\ LeftOver = {}

-------------------------------------------------------------------------------
(* Indices: a sum that is reduced stays below twice the modulus.            *)

\* An index is its own remainder.
LEMMA ModSmall ==
  ASSUME NEW n \in Nat \ {0}, NEW a \in 0..(n - 1)
  PROVE  a % n = a
  OBVIOUS

\* A sum that passed the end once is the index counted from the start.
LEMMA ModWrap ==
  ASSUME NEW n \in Nat \ {0}, NEW a \in n..(2 * n - 1)
  PROVE  a % n = a - n
  OBVIOUS

\* A remainder is an index.
LEMMA ModRange ==
  ASSUME NEW n \in Nat \ {0}, NEW a \in Int
  PROVE  a % n \in 0..(n - 1)
  OBVIOUS

\* Advancing by i and then by j is advancing by i + j.
LEMMA ModStep ==
  ASSUME NEW n \in Nat \ {0}, NEW a \in 0..(n - 1), NEW i \in 0..n, NEW j \in 0..n,
         i + j <= n
  PROVE  (((a + i) % n) + j) % n = (a + i + j) % n
  <1>1. CASE a + i + j < n
    BY <1>1, ModSmall
  <1>2. CASE a + i + j >= n /\ a + i < n
    BY <1>2, ModSmall, a + i \in 0..(n - 1)
  <1>3. CASE a + i >= n
    <2>1. a + i \in n..(2 * n - 1) /\ a + i + j \in n..(2 * n - 1)
      BY <1>3
    <2>2. a + i - n + j \in 0..(n - 1)
      BY <2>1
    <2> QED  BY <2>1, <2>2, ModWrap, ModSmall
  <1> QED  BY <1>1, <1>2, <1>3

\* The index a number of places ahead, around the end or not.
LEMMA OffsetValue ==
  ASSUME NEW n \in Nat \ {0}, NEW a \in 0..(n - 1), NEW x \in 0..(n - 1)
  PROVE  (a + x) % n = IF a + x < n THEN a + x ELSE a + x - n
  <1>1. CASE a + x < n
    BY <1>1, ModSmall, a + x \in 0..(n - 1)
  <1>2. CASE a + x >= n
    <2>1. a + x \in n..(2 * n - 1)
      BY <1>2
    <2>2. (a + x) % n = a + x - n
      BY <2>1, ModWrap
    <2> QED  BY <1>2, <2>2
  <1> QED  BY <1>1, <1>2

\* Two offsets below the modulus lead to two different indices.
LEMMA OffsetInjective ==
  ASSUME NEW n \in Nat \ {0}, NEW a \in 0..(n - 1),
         NEW i \in 0..(n - 1), NEW j \in 0..(n - 1), (a + i) % n = (a + j) % n
  PROVE  i = j
  <1>1. (a + i) % n = IF a + i < n THEN a + i ELSE a + i - n
    BY OffsetValue, Zenon
  <1>2. (a + j) % n = IF a + j < n THEN a + j ELSE a + j - n
    BY OffsetValue, Zenon
  <1> QED  BY <1>1, <1>2

\* One step back is n - 1 steps ahead.
LEMMA ModBefore ==
  ASSUME NEW n \in Nat \ {0}, NEW a \in 0..(n - 1)
  PROVE  (a + (n - 1)) % n = (a - 1) % n
  <1>1. (a + (n - 1)) % n = IF a + (n - 1) < n THEN a + (n - 1) ELSE a + (n - 1) - n
    BY OffsetValue, n - 1 \in 0..(n - 1), Zenon
  <1>2. CASE a = 0
    <2>1. (0 - 1) % n = n - 1
      OBVIOUS
    <2> QED  BY <1>1, <1>2, <2>1
  <1>3. CASE a # 0
    <2>1. (a - 1) % n = a - 1
      BY <1>3, ModSmall, a - 1 \in 0..(n - 1)
    <2> QED  BY <1>1, <1>3, <2>1
  <1> QED  BY <1>2, <1>3

\* The index before the one after a is a.
LEMMA ModBack ==
  ASSUME NEW n \in Nat \ {0}, NEW a \in 0..(n - 1)
  PROVE  (((a + 1) % n) - 1) % n = a
  <1>1. CASE a + 1 < n
    BY <1>1, ModSmall, a + 1 \in 0..(n - 1)
  <1>2. CASE a + 1 = n
    <2>1. (a + 1) % n = 0
      BY <1>2, ModWrap, a + 1 \in n..(2 * n - 1)
    <2>2. (0 - 1) % n = n - 1
      OBVIOUS
    <2> QED  BY <1>2, <2>1, <2>2
  <1> QED  BY <1>1, <1>2

-------------------------------------------------------------------------------
\* The numbers of the invariant, without the sets and flags around them.
LEMMA RingNumbers ==
  ASSUME RingAligned
  PROVE  /\ numBuffers \in Nat \ {0} /\ CountMod \in Nat /\ CountMod > numBuffers
         /\ head \in 0..(numBuffers - 1) /\ tail \in 0..(numBuffers - 1)
         /\ count \in 0..numBuffers /\ Taken \in {0, 1} /\ InFlight \in {0, 1}
         /\ Taken <= count /\ count + InFlight <= numBuffers
         /\ tail = (head + (count - Taken) + InFlight) % numBuffers
  BY RingAssumption DEF RingAligned, TypeOK, CountersOK, Slots, Aligned, Taken, InFlight

\* Initially the ring is empty.
LEMMA InitRing == Init => RingAligned
  <1> SUFFICES ASSUME Init PROVE RingAligned
    OBVIOUS
  <1>1. numBuffers \in Nat \ {0} /\ 0 % numBuffers = 0 /\ 0 \in Slots
    BY RingAssumption, ModSmall DEF Slots
  <1>2. CountersOK
    BY <1>1 DEF Init, CountersOK
  <1>3. FlagsOK
    BY Zenon DEF Init, FlagsOK
  <1>4. ReaderHolds
    BY DEF Init, ReaderHolds
  <1>5. Aligned
    BY <1>1 DEF Init, Aligned, Taken, InFlight
  <1> QED  BY <1>2, <1>3, <1>4, <1>5 DEF RingAligned, TypeOK

-------------------------------------------------------------------------------
\* The steps of rx_callback.
LEMMA RxRing ==
  ASSUME RingAligned, RxNext
  PROVE  RingAligned'
  <1>a. CountersOK /\ FlagsOK /\ ReaderHolds /\ Aligned
    BY DEF RingAligned, TypeOK
  <1>b. numBuffers \in Nat \ {0}
    BY RingNumbers
  <1>1. /\ UNCHANGED <<head, rpc, held, left, last, told, active, spc, changes, oldest, user, resetBuffer>>
        /\ ReaderHolds' /\ Taken' = Taken
    <2>1. UNCHANGED <<head, rpc, held, left, last, told, active, spc, changes, oldest, user, resetBuffer>>
      BY Zenon DEF RxNext, RxCallback, RxDrop, RxStore, RxCount, reader, setting
    <2> QED  BY <1>a, <2>1 DEF ReaderHolds, Direct, Taken
  <1>2. FlagsOK'
    <2>1. /\ ppc' \in {"idle", "drop", "store", "count"} /\ overflowEvent' \in {TRUE, overflowEvent}
          /\ raced' \in {TRUE, raced}
      BY Zenon DEF RxNext, RxCallback, RxDrop, RxStore, RxCount, reader
    <2> QED  BY <1>a, <1>1, <2>1, ZenonT(30) DEF FlagsOK
  <1>3. CASE RxCallback
    <2>1. CountersOK'
      BY <1>a, <1>1, <1>3 DEF CountersOK, RxCallback
    <2>2. Aligned'
      <3>1. InFlight' = 0 /\ InFlight = 0 /\ UNCHANGED <<tail, count>>
        BY <1>3 DEF RxCallback, InFlight
      <3>2. ppc' = "store" => count < numBuffers
        BY <1>3, RingNumbers DEF RxCallback
      <3> QED  BY <1>a, <1>1, <3>1, <3>2 DEF Aligned
    <2> QED  BY <1>1, <1>2, <2>1, <2>2 DEF RingAligned, TypeOK
  <1>4. CASE RxDrop
    <2>1. CountersOK'
      BY <1>a, <1>1, <1>4 DEF CountersOK, RxDrop
    <2>2. Aligned'
      BY <1>a, <1>1, <1>4 DEF Aligned, RxDrop, InFlight
    <2> QED  BY <1>1, <1>2, <2>1, <2>2 DEF RingAligned, TypeOK
  <1>5. CASE RxStore
    <2>1. tail' \in 0..(numBuffers - 1)
      <3>1. tail' = (tail + 1) % numBuffers /\ tail + 1 \in Int
        BY <1>5, RingNumbers DEF RxStore
      <3> QED  BY <1>b, <3>1, ModRange
    <2>2. CountersOK'
      BY <1>a, <1>1, <1>5, <2>1 DEF CountersOK, RxStore, Slots
    <2>3. Aligned'
      <3>1. /\ InFlight = 0 /\ InFlight' = 1 /\ count' = count /\ count < numBuffers
            /\ tail' = (tail + 1) % numBuffers /\ ppc' = "count"
        BY <1>a, <1>5 DEF RxStore, InFlight, Aligned
      <3>2. count - Taken \in 0..(numBuffers - 1)
        BY <3>1, RingNumbers
      <3>3. tail = (head + (count - Taken)) % numBuffers
        BY <3>1, <3>2, RingNumbers
      <3>4. tail' = (head + (count - Taken) + 1) % numBuffers
        BY <3>1, <3>2, <3>3, <1>b, RingNumbers, ModStep
      <3> QED  BY <1>1, <3>1, <3>4, RingNumbers DEF Aligned
    <2> QED  BY <1>1, <1>2, <2>2, <2>3 DEF RingAligned, TypeOK
  <1>6. CASE RxCount
    <2>1. count' = count + 1 /\ InFlight = 1 /\ InFlight' = 0 /\ ppc' = "idle" /\ tail' = tail
      <3>1. InFlight = 1 /\ InFlight' = 0 /\ count' = (count + 1) % CountMod
            /\ ppc' = "idle" /\ tail' = tail
        BY <1>6 DEF RxCount, InFlight
      <3>2. count + 1 \in 0..(CountMod - 1) /\ CountMod \in Nat \ {0}
        BY <3>1, RingNumbers
      <3> QED  BY <3>1, <3>2, ModSmall
    <2>2. CountersOK'
      BY <1>a, <1>1, <1>6, <2>1 DEF CountersOK, RxCount
    <2>3. Aligned'
      <3>1. head + (count - Taken) + 1 = head + ((count + 1) - Taken) + 0
        BY RingNumbers
      <3> QED  BY <1>1, <2>1, <3>1, RingNumbers DEF Aligned
    <2> QED  BY <1>1, <1>2, <2>2, <2>3 DEF RingAligned, TypeOK
  <1> QED  BY <1>3, <1>4, <1>5, <1>6 DEF RxNext

-------------------------------------------------------------------------------
\* Draining an aligned queue of which nothing is taken keeps it aligned.
LEMMA DrainRing ==
  ASSUME RingAligned, Drain, held = {}, UNCHANGED <<tail, held, ppc>>
  PROVE  head' \in Slots /\ count' \in Nat /\ Aligned'
  <1>1. /\ numBuffers \in Nat \ {0} /\ Taken = 0 /\ Taken' = 0 /\ InFlight' = InFlight
        /\ head' = (head + count) % numBuffers /\ count' = 0
    BY RingNumbers DEF Drain, Taken, InFlight
  <1>2. head + count \in Int
    BY RingNumbers
  <1>3. head' \in 0..(numBuffers - 1)
    BY <1>1, <1>2, ModRange, Zenon
  <1>4. tail = (head + count + InFlight) % numBuffers
    <2>1. head + (count - Taken) + InFlight = head + count + InFlight
      BY <1>1, RingNumbers
    <2> QED  BY <2>1, RingNumbers
  <1>5. (head' + InFlight) % numBuffers = tail
    <2>1. /\ head \in 0..(numBuffers - 1) /\ count \in 0..numBuffers
          /\ InFlight \in 0..numBuffers /\ count + InFlight <= numBuffers
      BY RingNumbers
    <2>2. (((head + count) % numBuffers) + InFlight) % numBuffers
            = (head + count + InFlight) % numBuffers
      BY <1>1, <2>1, ModStep
    <2> QED  BY <1>1, <1>4, <2>2
  <1>6. head' + (count' - Taken') + InFlight' = head' + InFlight
    BY <1>1, <1>3, RingNumbers
  <1> QED  BY <1>1, <1>3, <1>5, <1>6, RingNumbers DEF Aligned, Slots

\* The steps of acquireReadBuffer.
LEMMA AcquireRing ==
  ASSUME RingAligned, AcquireNext
  PROVE  RingAligned'
  <1>a. CountersOK /\ FlagsOK /\ ReaderHolds /\ Aligned
    BY DEF RingAligned, TypeOK
  <1>b. /\ UNCHANGED <<slot, tail, ppc, tick, active, spc, changes, oldest, user, left>>
        /\ held = {} /\ rpc \notin {"idle", "convert"} /\ InFlight' = InFlight
    <2>1. /\ UNCHANGED <<slot, tail, ppc, tick, active, spc, changes, oldest, user, left>>
          /\ rpc \notin {"idle", "convert"}
      BY DEF AcquireNext, AcquireReset, AcquireClearReset, AcquireClearOverflow, AcquireOverflow,
             AcquireReturnOverflow, AcquireTimeout, AcquireExtract, callback, setting
    <2> QED  BY <1>a, <2>1 DEF ReaderHolds, InFlight
  <1>1. CASE ~AcquireExtract
    <2>1. /\ held' = held /\ last' = last /\ rpc' # "convert"
          /\ Drain \/ UNCHANGED <<head, count>>
      BY <1>1 DEF AcquireNext, AcquireReset, AcquireClearReset, AcquireClearOverflow,
             AcquireOverflow, AcquireReturnOverflow, AcquireTimeout, callback, setting
    <2>2. /\ rpc' \in {"idle", "acquire", "clearReset", "clearOverflow", "overflow",
                         "returnOverflow", "wait", "convert"}
          /\ told' \in {told, TRUE} /\ overflowEvent' \in {FALSE, overflowEvent}
          /\ resetBuffer' \in {FALSE, resetBuffer} /\ raced' \in {FALSE, raced}
      BY <1>1, Zenon DEF AcquireNext, AcquireReset, AcquireClearReset, AcquireClearOverflow,
             AcquireOverflow, AcquireReturnOverflow, AcquireTimeout, callback, setting
    <2>3. FlagsOK'
      BY <1>a, <1>b, <2>1, <2>2, ZenonT(30) DEF FlagsOK
    <2>4. left => FALSE
      BY <1>a, <1>b DEF ReaderHolds, Direct
    <2>5. ReaderHolds'
      BY <1>a, <1>b, <2>1, <2>4 DEF ReaderHolds, Direct
    <2>6. head' \in Slots /\ count' \in Nat /\ Aligned'
      <3>1. CASE Drain
        BY <1>b, <2>1, <3>1, DrainRing
      <3>2. CASE UNCHANGED <<head, count>>
        BY <1>a, <1>b, <2>1, <3>2 DEF CountersOK, Aligned, Taken
      <3> QED  BY <2>1, <3>1, <3>2
    <2>7. CountersOK'
      BY <1>a, <1>b, <2>1, <2>6 DEF CountersOK
    <2> QED  BY <2>3, <2>5, <2>6, <2>7 DEF RingAligned, TypeOK
  <1>2. CASE AcquireExtract
    <2>1. /\ head' = (head + 1) % numBuffers /\ held' = {head} /\ count' = count /\ count # 0
          /\ last' = slot[head] /\ told' = FALSE /\ rpc' = IF Direct THEN "idle" ELSE "convert"
          /\ UNCHANGED <<overflowEvent, resetBuffer, raced>>
      BY <1>2, <1>b DEF AcquireExtract
    <2>2. /\ numBuffers \in Nat \ {0} /\ head \in 0..(numBuffers - 1) /\ head \in Slots
          /\ head' \in Slots /\ (head' - 1) % numBuffers = head
      <3>1. numBuffers \in Nat \ {0} /\ head \in 0..(numBuffers - 1) /\ head + 1 \in Int
        BY RingNumbers
      <3> QED  BY <2>1, <3>1, ModRange, ModBack, Zenon DEF Slots
    <2>3. CountersOK'
      BY <1>a, <1>b, <2>1, <2>2 DEF CountersOK
    <2>4. FlagsOK'
      BY <1>a, <1>b, <2>1, <2>2, Zenon DEF FlagsOK
    <2>5. ReaderHolds'
      BY <1>a, <1>b, <2>1, <2>2 DEF ReaderHolds, Direct
    <2>6. Aligned'
      <3>1. Taken = 0 /\ Taken' = 1
        BY <1>b, <2>1 DEF Taken
      <3>2. /\ count - 1 + InFlight \in 0..numBuffers /\ 1 \in 0..numBuffers
            /\ 1 + (count - 1 + InFlight) <= numBuffers
            /\ head + (count - Taken) + InFlight = head + 1 + (count - 1 + InFlight)
        BY <2>1, <3>1, RingNumbers
      <3>3. (((head + 1) % numBuffers) + (count - 1 + InFlight)) % numBuffers
              = (head + 1 + (count - 1 + InFlight)) % numBuffers
        BY <2>2, <3>2, ModStep, Zenon
      <3>4. (head' + (count' - Taken') + InFlight') % numBuffers = tail
        <4>1. head' + (count' - Taken') + InFlight' = head' + (count - 1 + InFlight)
          BY <1>b, <2>1, <2>2, <3>1, RingNumbers DEF Slots
        <4> QED  BY <2>1, <3>2, <3>3, <4>1, RingNumbers
      <3>5. Taken' <= count' /\ count' + InFlight' <= numBuffers
        BY <1>b, <2>1, <3>1, RingNumbers
      <3> QED  BY <1>a, <1>b, <2>1, <3>4, <3>5 DEF Aligned
    <2> QED  BY <2>3, <2>4, <2>5, <2>6 DEF RingAligned, TypeOK
  <1> QED  BY <1>1, <1>2

-------------------------------------------------------------------------------
\* releaseReadBuffer gives back the one buffer that is taken.
LEMMA ReleaseRing ==
  ASSUME RingAligned, NEW h \in held, Release(h), UNCHANGED <<head, tail, ppc>>
  PROVE  held' = {} /\ count' \in Nat /\ Aligned'
  <1>1. held' = {} /\ Taken = 1 /\ Taken' = 0 /\ InFlight' = InFlight
    BY DEF RingAligned, ReaderHolds, Release, Taken, InFlight
  <1>2. count' = count - 1
    <2>1. count - 1 \in 0..(CountMod - 1) /\ CountMod \in Nat \ {0}
      BY <1>1, RingNumbers
    <2> QED  BY <2>1, ModSmall DEF Release
  <1>3. /\ count' \in Nat /\ count' + InFlight' <= numBuffers /\ count' < numBuffers
        /\ head + (count' - Taken') + InFlight' = head + (count - Taken) + InFlight
    BY <1>1, <1>2, RingNumbers
  <1> QED  BY <1>1, <1>3, RingNumbers DEF Aligned

\* A step that leaves the ring alone leaves it aligned.
LEMMA SameRing ==
  ASSUME RingAligned, UNCHANGED <<slot, head, tail, count, tick, last, ppc, held>>
  PROVE  Aligned' /\ (changes' \in Nat /\ oldest' \in Int => CountersOK')
  BY DEF RingAligned, TypeOK, CountersOK, Aligned, Taken, InFlight

\* The user's calls.
LEMMA UserRing ==
  ASSUME RingAligned, OneAtATime, UserNext
  PROVE  RingAligned'
  <1>a. CountersOK /\ FlagsOK /\ ReaderHolds /\ Aligned
    BY DEF RingAligned, TypeOK
  <1>1. CASE ReadStream
    <2>1. /\ UNCHANGED <<slot, tail, ppc, tick, active, spc, changes, oldest, user, head, last, told, raced,
                         overflowEvent, resetBuffer>>
          /\ ~Direct /\ rpc = "idle" /\ rpc' \in {"convert", "acquire"}
          /\ rpc' = "convert" <=> left'
      BY <1>1 DEF ReadStream, MayRead, callback, setting
    <2>2. CASE resetBuffer /\ left
      <3>1. PICK h \in held : Release(h)
        BY <1>1, <2>2 DEF ReadStream
      <3>2. held' = {} /\ count' \in Nat /\ Aligned'
        BY <2>1, <3>1, ReleaseRing
      <3>3. left' = FALSE
        BY <1>1, <2>2 DEF ReadStream
      <3>4. CountersOK'
        BY <1>a, <2>1, <3>2 DEF CountersOK
      <3>5. FlagsOK'
        BY <1>a, <2>1, <3>2, <3>3, Zenon DEF FlagsOK
      <3>6. ReaderHolds'
        BY <2>1, <3>2, <3>3 DEF ReaderHolds, Direct
      <3> QED  BY <3>2, <3>4, <3>5, <3>6 DEF RingAligned, TypeOK
    <2>3. CASE ~(resetBuffer /\ left)
      <3>1. UNCHANGED <<left, held, count>>
        BY <1>1, <2>3 DEF ReadStream
      <3>2. CountersOK' /\ Aligned'
        BY <1>a, <2>1, <3>1, SameRing DEF CountersOK
      <3>3. FlagsOK'
        BY <1>a, <2>1, <3>1 DEF FlagsOK
      <3>4. ReaderHolds'
        BY <1>a, <2>1, <3>1 DEF ReaderHolds, Direct
      <3> QED  BY <3>2, <3>3, <3>4 DEF RingAligned, TypeOK
    <2> QED  BY <2>2, <2>3
  <1>2. CASE ReadStreamConvert
    <2>1. /\ UNCHANGED <<slot, tail, ppc, tick, active, spc, changes, oldest, user, head, last, told, raced,
                         overflowEvent, resetBuffer>>
          /\ ~Direct /\ rpc = "convert" /\ held # {} /\ rpc' = "idle"
      BY <1>a, <1>2 DEF ReadStreamConvert, callback, setting, ReaderHolds
    <2>2. CASE left' = TRUE /\ UNCHANGED <<held, count>>
      <3>1. CountersOK' /\ Aligned'
        BY <1>a, <2>1, <2>2, SameRing DEF CountersOK
      <3>2. FlagsOK'
        BY <1>a, <2>1, <2>2 DEF FlagsOK
      <3>3. ReaderHolds'
        BY <1>a, <2>1, <2>2 DEF ReaderHolds, Direct
      <3> QED  BY <3>1, <3>2, <3>3 DEF RingAligned, TypeOK
    <2>3. CASE left' = FALSE /\ \E h \in held : Release(h)
      <3>1. held' = {} /\ count' \in Nat /\ Aligned'
        BY <2>1, <2>3, ReleaseRing
      <3>2. CountersOK'
        BY <1>a, <2>1, <3>1 DEF CountersOK
      <3>3. FlagsOK'
        BY <1>a, <2>1, <2>3, <3>1, Zenon DEF FlagsOK
      <3>4. ReaderHolds'
        BY <2>1, <2>3, <3>1 DEF ReaderHolds, Direct
      <3> QED  BY <3>1, <3>2, <3>3, <3>4 DEF RingAligned, TypeOK
    <2> QED  BY <1>2, <2>2, <2>3, Zenon DEF ReadStreamConvert
  <1>3. CASE DirectAcquire
    <2>1. /\ UNCHANGED <<slot, tail, ppc, tick, active, spc, changes, oldest, user, head, last, told, raced,
                         overflowEvent, resetBuffer, held, left, count>>
          /\ Direct /\ rpc' = "acquire" /\ Cardinality(held) < 1
      BY <1>3 DEF DirectAcquire, callback, setting, OneAtATime
    <2>2. held = {}
      <3>1. IsFiniteSet(held)
        BY <1>a, FS_EmptySet, FS_AddElement, FS_Singleton DEF ReaderHolds
      <3>2. Cardinality(held) = 0
        BY <2>1, <3>1, FS_CardinalityType
      <3> QED  BY <3>1, <3>2, FS_EmptySet
    <2>3. CountersOK' /\ Aligned'
      BY <1>a, <2>1, SameRing DEF CountersOK
    <2>4. FlagsOK'
      BY <1>a, <2>1 DEF FlagsOK
    <2>5. ReaderHolds'
      BY <1>a, <2>1, <2>2 DEF ReaderHolds, Direct
    <2> QED  BY <2>3, <2>4, <2>5 DEF RingAligned, TypeOK
  <1>4. ASSUME NEW h \in held, DirectRelease(h) PROVE RingAligned'
    <2>1. /\ UNCHANGED <<slot, tail, ppc, tick, active, spc, changes, oldest, user, head, last, told, raced,
                         overflowEvent, resetBuffer, rpc, left>>
          /\ Direct /\ rpc = "idle" /\ Release(h)
      BY <1>4 DEF DirectRelease, MayRead, callback, setting
    <2>2. held' = {} /\ count' \in Nat /\ Aligned'
      BY <2>1, ReleaseRing, Zenon
    <2>3. CountersOK'
      BY <1>a, <2>1, <2>2, Zenon DEF CountersOK
    <2>4. FlagsOK'
      BY <1>a, <2>1, <2>2, Zenon DEF FlagsOK
    <2>5. ReaderHolds'
      BY <1>a, <2>1, <2>2, Zenon DEF ReaderHolds, Direct
    <2> QED  BY <2>2, <2>3, <2>4, <2>5 DEF RingAligned, TypeOK
  <1>5. CASE SetSampleRate \/ ApplySampleRate \/ DeactivateStream
    <2>1. /\ UNCHANGED <<slot, tail, ppc, tick, head, last, told, raced, rpc, left, held, count, overflowEvent,
                         user>>
          /\ resetBuffer' \in {TRUE, resetBuffer} /\ active' \in {FALSE, active}
          /\ spc' \in {"idle", "apply"}
          /\ changes' \in {changes, changes + 1} /\ oldest' \in {oldest, tick, tick - 1}
      BY <1>a, <1>5, Zenon DEF SetSampleRate, ApplySampleRate, DeactivateStream, Outdate, callback, reader,
                        FlagsOK
    <2>2. CountersOK' /\ Aligned'
      BY <1>a, <2>1, SameRing DEF CountersOK
    <2>3. FlagsOK'
      BY <1>a, <2>1, ZenonT(30) DEF FlagsOK
    <2>4. ReaderHolds'
      BY <1>a, <2>1 DEF ReaderHolds, Direct
    <2> QED  BY <2>2, <2>3, <2>4 DEF RingAligned, TypeOK
  <1>6. CASE ActivateStream
    <2>1. /\ UNCHANGED <<slot, tail, ppc, tick, head, last, told, raced, rpc, count, overflowEvent, spc, user>>
          /\ rpc = "idle" /\ ~left /\ resetBuffer' = TRUE /\ active' = TRUE /\ left' = FALSE
          /\ held' = (IF Direct THEN held ELSE {})
          /\ changes' = changes + 1 /\ oldest' \in {tick, tick - 1}
      BY <1>6 DEF ActivateStream, Outdate, MayRead, callback, OneAtATime
    <2>2. held' = held
      BY <1>a, <2>1 DEF ReaderHolds, Direct
    <2>3. CountersOK' /\ Aligned'
      BY <1>a, <2>1, <2>2, SameRing DEF CountersOK
    <2>4. FlagsOK'
      BY <1>a, <2>1, <2>2, Zenon DEF FlagsOK
    <2>5. ReaderHolds'
      BY <1>a, <2>1, <2>2 DEF ReaderHolds, Direct
    <2> QED  BY <2>3, <2>4, <2>5 DEF RingAligned, TypeOK
  <1>7. CASE ReopenStream
    <2>1. /\ UNCHANGED <<ppc, tick, rpc, held, left, last, raced, spc, oldest, user, overflowEvent, resetBuffer>>
          /\ slot' = [i \in Slots |-> 0] /\ head' = 0 /\ tail' = 0 /\ count' = 0
          /\ active' = FALSE /\ told' = TRUE /\ changes' = changes + 1
          /\ held = {} /\ ppc = "idle" /\ rpc = "idle"
      BY <1>7 DEF ReopenStream, MayRead, OneAtATime
    <2>2. numBuffers \in Nat \ {0} /\ 0 % numBuffers = 0 /\ 0 \in Slots
      BY RingAssumption, ModSmall DEF Slots
    <2>3. CountersOK'
      BY <1>a, <2>1, <2>2 DEF CountersOK
    <2>4. Aligned'
      BY <2>1, <2>2 DEF Aligned, Taken, InFlight
    <2>5. FlagsOK'
      BY <1>a, <2>1, Zenon DEF FlagsOK
    <2>6. ReaderHolds'
      BY <1>a, <2>1 DEF ReaderHolds, Direct
    <2> QED  BY <2>3, <2>4, <2>5, <2>6, Zenon DEF RingAligned, TypeOK
  <1> QED  BY <1>1, <1>2, <1>3, <1>4, <1>5, <1>6, <1>7 DEF UserNext

\* A step of another component keeps the invariant.
LEMMA StutterRing ==
  ASSUME RingAligned, UNCHANGED vars
  PROVE  RingAligned'
  <1>1. UNCHANGED <<slot, tail, ppc, tick, head, rpc, held, left, last, told, raced, active, spc, changes,
                    oldest, user, count, overflowEvent, resetBuffer>>
    BY DEF vars, callback, reader, setting
  <1>2. CountersOK' /\ Aligned'
    BY <1>1, SameRing DEF RingAligned, TypeOK, CountersOK
  <1>3. FlagsOK'
    BY <1>1 DEF RingAligned, TypeOK, FlagsOK
  <1>4. ReaderHolds'
    BY <1>1 DEF RingAligned, ReaderHolds, Direct
  <1> QED  BY <1>2, <1>3, <1>4 DEF RingAligned, TypeOK

-------------------------------------------------------------------------------
\* The ring is aligned in every reachable state: _buf_head, _buf_tail and
\* _buf_count agree although the callback and the reader change them without
\* a common lock, and the reader holds what ReaderHolds says.
THEOREM AlignedInvariant ==
  ASSUME OneAtATime
  PROVE  Spec => []RingAligned
  <1>1. Init => RingAligned
    BY InitRing
  <1>2. RingAligned /\ [Next]_vars => RingAligned'
    BY RxRing, AcquireRing, UserRing, StutterRing DEF Next
  <1> QED  BY <1>1, <1>2, PTL DEF Spec

\* In an aligned ring the slot that is written is not the slot that is held.
LEMMA InvNoOverwrite == RingAligned => NoOverwrite
  <1> SUFFICES ASSUME RingAligned, ppc = "store", tail \in held
               PROVE  FALSE
    BY DEF NoOverwrite
  <1>1. /\ held = {(head - 1) % numBuffers} /\ Taken = 1 /\ InFlight = 0 /\ count < numBuffers
    BY DEF RingAligned, ReaderHolds, Aligned, Taken, InFlight
  <1>2. /\ numBuffers \in Nat \ {0} /\ head \in 0..(numBuffers - 1) /\ count \in 1..(numBuffers - 1)
        /\ tail = (head + (count - 1)) % numBuffers
    <2>1. head + (count - Taken) + InFlight = head + (count - 1)
      BY <1>1, RingNumbers
    <2> QED  BY <1>1, <2>1, RingNumbers
  <1>3. (head + (numBuffers - 1)) % numBuffers = (head - 1) % numBuffers
    BY <1>2, ModBefore
  <1>4. count - 1 \in 0..(numBuffers - 1) /\ numBuffers - 1 \in 0..(numBuffers - 1)
    BY <1>2
  <1>5. (head + (count - 1)) % numBuffers = (head + (numBuffers - 1)) % numBuffers
    BY <1>1, <1>2, <1>3
  <1>6. count - 1 = numBuffers - 1
    BY <1>2, <1>4, <1>5, OffsetInjective
  <1> QED  BY <1>2, <1>6

\* rx_callback never copies a block over samples that readStream converts or
\* that a direct access user still has.
THEOREM NoOverwriteInvariant ==
  ASSUME OneAtATime
  PROVE  Spec => []NoOverwrite
  BY AlignedInvariant, InvNoOverwrite, PTL

-------------------------------------------------------------------------------
(* The blocks in the ring.  A step leaves them, drops those that are        *)
(* counted, adds the newest or takes the oldest.                            *)

QueueKept ==
    /\ Queued' = Queued
    /\ \A i \in 0..(Queued - 1) : Block(i)' = Block(i)

QueueDrained ==
    /\ Queued' = InFlight
    /\ \A i \in 0..(InFlight - 1) : Block(i)' = Block(Queued - 1)

QueueFilled ==
    /\ Queued' = Queued + 1
    /\ \A i \in 0..Queued : Block(i)' = IF i = Queued THEN tick ELSE Block(i)

QueueTaken ==
    /\ Queued >= 1 /\ Queued' = Queued - 1
    /\ last' = Block(0)
    /\ \A i \in 0..(Queued - 2) : Block(i)' = Block(i + 1)

\* The numbers of the queue.
LEMMA QueueNumbers ==
  ASSUME RingAligned
  PROVE  /\ Queued \in 0..numBuffers /\ Queued = count - Taken + InFlight
         /\ tick \in Nat /\ last \in Nat /\ oldest \in Int /\ Newest \in Int
         /\ ppc = "count" => InFlight = 1 /\ Queued >= 1
         /\ ppc # "count" => InFlight = 0
         /\ \A i \in Int : Block(i) \in Nat
  <1>1. Queued \in 0..numBuffers /\ Queued = count - Taken + InFlight
    BY RingNumbers DEF Queued
  <1>2. tick \in Nat /\ last \in Nat /\ oldest \in Int /\ Newest \in Int
    BY DEF RingAligned, TypeOK, CountersOK, Newest
  <1>3. /\ ppc = "count" => InFlight = 1 /\ Queued >= 1
        /\ ppc # "count" => InFlight = 0
    BY RingNumbers DEF Queued, InFlight
  <1>4. ASSUME NEW i \in Int PROVE Block(i) \in Nat
    <2>1. numBuffers \in Nat \ {0} /\ head + i \in Int
      BY RingNumbers
    <2>2. (head + i) % numBuffers \in 0..(numBuffers - 1)
      BY <2>1, ModRange, Zenon
    <2> QED  BY <2>2 DEF RingAligned, TypeOK, CountersOK, Slots, Block
  <1> QED  BY <1>1, <1>2, <1>3, <1>4

\* A step that leaves the buffers and the head, and counts what it must.
LEMMA KeepQueue ==
  ASSUME UNCHANGED <<slot, head>>, Queued' = Queued
  PROVE  QueueKept
  BY DEF QueueKept, Block

\* The steps of rx_callback.
LEMMA RxQueue ==
  ASSUME RingAligned, RxNext
  PROVE  IF ppc = "store" THEN QueueFilled ELSE QueueKept
  <1>1. CASE RxCallback \/ RxDrop
    <2>1. ppc # "store" /\ UNCHANGED <<slot, head, count, held>> /\ InFlight' = InFlight
      BY <1>1, Zenon DEF RxCallback, RxDrop, InFlight, reader
    <2> QED  BY <2>1, KeepQueue DEF Queued, Taken
  <1>2. CASE RxCount
    <2>1. /\ ppc = "count" /\ UNCHANGED <<slot, head, held>> /\ InFlight = 1 /\ InFlight' = 0
          /\ count' = (count + 1) % CountMod
      BY <1>2 DEF RxCount, InFlight, reader
    <2>2. count + 1 \in 0..(CountMod - 1) /\ CountMod \in Nat \ {0}
      BY <2>1, RingNumbers
    <2>3. count' = count + 1 /\ Taken' = Taken
      BY <2>1, <2>2, ModSmall, Zenon DEF Taken
    <2>4. Queued' = Queued
      BY <2>1, <2>3, RingNumbers DEF Queued
    <2> QED  BY <2>1, <2>4, KeepQueue
  <1>3. CASE RxStore
    <2>1. /\ ppc = "store" /\ InFlight = 0 /\ InFlight' = 1 /\ Taken' = Taken
          /\ slot' = [slot EXCEPT ![tail] = tick] /\ UNCHANGED <<count, head>>
      BY <1>3 DEF RxStore, InFlight, Taken, reader
    <2>2. /\ Queued' = Queued + 1 /\ Queued \in 0..(numBuffers - 1) /\ tail \in Slots
          /\ tail = (head + Queued) % numBuffers
      <3>1. count < numBuffers
        BY <2>1 DEF RingAligned, Aligned
      <3>2. head + (count - Taken) + InFlight = head + Queued
        BY RingNumbers DEF Queued
      <3> QED  BY <2>1, <3>1, <3>2, RingNumbers DEF Queued, Slots
    <2>3. ASSUME NEW i \in 0..Queued PROVE Block(i)' = IF i = Queued THEN tick ELSE Block(i)
      <3>1. Block(i)' = slot'[(head + i) % numBuffers]
        BY <2>1 DEF Block
      <3>2. i \in 0..(numBuffers - 1) /\ numBuffers \in Nat \ {0} /\ head \in 0..(numBuffers - 1)
        BY <2>2, RingNumbers
      <3>3. (head + i) % numBuffers \in Slots
        BY <3>2, ModRange DEF Slots
      <3>4. (head + i) % numBuffers = tail <=> i = Queued
        BY <2>2, <3>2, OffsetInjective
      <3> QED  BY <2>1, <2>2, <3>1, <3>3, <3>4, Zenon DEF Block, RingAligned, TypeOK, CountersOK
    <2> QED  BY <2>1, <2>2, <2>3, Zenon DEF QueueFilled
  <1> QED  BY <1>1, <1>2, <1>3 DEF RxNext

\* Draining leaves the block that is stored and not counted yet.
LEMMA DrainQueue ==
  ASSUME RingAligned, Drain, held = {}, UNCHANGED <<slot, held, ppc>>
  PROVE  QueueDrained
  <1>1. /\ Taken = 0 /\ Taken' = 0 /\ InFlight' = InFlight /\ slot' = slot
        /\ head' = (head + count) % numBuffers /\ count' = 0
    BY DEF Drain, Taken, InFlight
  <1>2. Queued' = InFlight /\ Queued = count + InFlight
    BY <1>1, RingNumbers DEF Queued
  <1>3. ASSUME NEW i \in 0..(InFlight - 1) PROVE Block(i)' = Block(Queued - 1)
    <2>1. /\ i = 0 /\ Queued - 1 = count
          /\ numBuffers \in Nat \ {0} /\ head \in 0..(numBuffers - 1) /\ count \in 0..numBuffers
      BY <1>2, RingNumbers
    <2>2. head' \in 0..(numBuffers - 1)
      BY <1>1, <2>1, ModRange
    <2>3. (head' + i) % numBuffers = (head + (Queued - 1)) % numBuffers
      BY <1>1, <2>1, <2>2, ModSmall, SMTT(30)
    <2> QED  BY <1>1, <2>3, Zenon DEF Block
  <1> QED  BY <1>2, <1>3 DEF QueueDrained

\* Extracting takes the oldest block.
LEMMA ExtractQueue ==
  ASSUME RingAligned, AcquireExtract
  PROVE  QueueTaken
  <1>1. /\ held = {} /\ held' = {head} /\ count # 0 /\ UNCHANGED <<slot, count, ppc>>
        /\ head' = (head + 1) % numBuffers /\ last' = slot[head]
    BY DEF AcquireExtract, RingAligned, ReaderHolds, callback
  <1>2. Taken = 0 /\ Taken' = 1 /\ InFlight' = InFlight
    BY <1>1 DEF Taken, InFlight
  <1>3. Queued >= 1 /\ Queued' = Queued - 1 /\ Queued <= numBuffers
    BY <1>1, <1>2, RingNumbers DEF Queued
  <1>4. numBuffers \in Nat \ {0} /\ head \in 0..(numBuffers - 1) /\ Queued \in Nat
    BY RingNumbers, QueueNumbers
  <1>5. last' = Block(0)
    <2>1. (head + 0) % numBuffers = head
      BY <1>4, ModSmall
    <2> QED  BY <1>1, <2>1 DEF Block
  <1>6. ASSUME NEW i \in 0..(Queued - 2) PROVE Block(i)' = Block(i + 1)
    <2>1. i \in 0..numBuffers /\ 1 \in 0..numBuffers /\ 1 + i <= numBuffers
      BY <1>3, <1>4
    <2>2. (((head + 1) % numBuffers) + i) % numBuffers = (head + 1 + i) % numBuffers
      BY <1>4, <2>1, ModStep
    <2>3. head + 1 + i = head + (i + 1)
      BY <1>4, <2>1
    <2> QED  BY <1>1, <2>2, <2>3 DEF Block
  <1> QED  BY <1>3, <1>5, <1>6 DEF QueueTaken

\* The other steps of acquireReadBuffer.
LEMMA AcquireQueue ==
  ASSUME RingAligned, AcquireNext, ~AcquireExtract
  PROVE  IF Drain THEN QueueDrained ELSE QueueKept
  <1>1. /\ held = {} /\ UNCHANGED <<slot, held, ppc>>
        /\ Drain \/ UNCHANGED <<head, count>>
    BY DEF AcquireNext, AcquireReset, AcquireClearReset, AcquireClearOverflow, AcquireOverflow,
           AcquireReturnOverflow, AcquireTimeout, callback, RingAligned, ReaderHolds
  <1>2. CASE Drain
    BY <1>1, <1>2, DrainQueue
  <1>3. CASE ~Drain
    <2>1. Queued' = Queued
      BY <1>1, <1>3 DEF Queued, Taken, InFlight
    <2> QED  BY <1>1, <1>3, <2>1, KeepQueue
  <1> QED  BY <1>2, <1>3, Zenon

\* The user's calls, all but closing and opening the stream, leave the blocks
\* that wait: what they release was taken.
LEMMA UserQueue ==
  ASSUME RingAligned, OneAtATime, UserNext \/ UNCHANGED vars, ~ReopenStream
  PROVE  QueueKept /\ UNCHANGED <<ppc, tick, last, told, raced, overflowEvent, user>>
  <1>1. UNCHANGED <<slot, head, ppc, tick, last, told, raced, overflowEvent, user>>
    BY Zenon DEF UserNext, ReadStream, ReadStreamConvert, DirectAcquire, DirectRelease, SetSampleRate,
           ApplySampleRate, ActivateStream, DeactivateStream, vars, callback, reader, setting
  <1>2. \/ \E h \in held : Release(h)
        \/ UNCHANGED <<held, count>>
    <2>1. CASE ActivateStream
      BY <2>1 DEF ActivateStream, MayRead, RingAligned, ReaderHolds, OneAtATime
    <2> QED  BY <2>1, Zenon DEF UserNext, ReadStream, ReadStreamConvert, DirectAcquire, DirectRelease,
           SetSampleRate, ApplySampleRate, DeactivateStream, vars, reader
  <1>3. ASSUME NEW h \in held, Release(h) PROVE Queued' = Queued
    <2>1. Taken = 1 /\ Taken' = 0 /\ InFlight' = InFlight
      BY <1>1, <1>3 DEF RingAligned, ReaderHolds, Release, Taken, InFlight
    <2>2. count - 1 \in 0..(CountMod - 1) /\ CountMod \in Nat \ {0}
      BY <2>1, RingNumbers
    <2>3. count' = count - 1
      BY <1>3, <2>2, ModSmall, Zenon DEF Release
    <2> QED  BY <2>1, <2>3, RingNumbers DEF Queued
  <1>4. ASSUME UNCHANGED <<held, count>> PROVE Queued' = Queued
    BY <1>1, <1>4, Zenon DEF Queued, Taken, InFlight
  <1> QED  BY <1>1, <1>2, <1>3, <1>4, KeepQueue, Zenon

-------------------------------------------------------------------------------
(* Order.                                                                   *)

\* Blocks that stay where they are stay in order.
LEMMA KeptOrder ==
  ASSUME RingAligned, BlocksInOrder, QueueKept, last' = last, Newest' \in Int, Newest <= Newest',
         ppc' = "count" => ppc = "count" /\ tick' = tick
  PROVE  BlocksInOrder'
  <1>1. /\ Queued \in Nat /\ Newest \in Int /\ last \in Nat
        /\ ppc = "count" => Queued >= 1
        /\ \A i \in 0..(Queued - 1) : Block(i) \in Nat
    BY QueueNumbers
  <1>2. \A i \in 0..(Queued - 1) : last < Block(i)' /\ Block(i)' <= Newest'
    BY <1>1 DEF QueueKept, BlocksInOrder
  <1>3. \A i, j \in 0..(Queued - 1) : i < j => Block(i)' < Block(j)'
    BY <1>1 DEF QueueKept, BlocksInOrder
  <1>4. ppc' = "count" => slot'[(head' + (Queued - 1)) % numBuffers] = tick'
    <2> SUFFICES ASSUME ppc' = "count"
                 PROVE  slot'[(head' + (Queued - 1)) % numBuffers] = tick
      BY Zenon
    <2>1. Block(Queued - 1) = tick /\ Queued - 1 \in 0..(Queued - 1)
      BY <1>1 DEF BlocksInOrder
    <2> QED  BY <2>1 DEF QueueKept, Block
  <1> QED  BY <1>1, <1>2, <1>3, <1>4 DEF BlocksInOrder, QueueKept, Block

\* Every step keeps the blocks in order.
LEMMA NextOrder ==
  ASSUME RingAligned, BlocksInOrder, OneAtATime, [Next]_vars
  PROVE  BlocksInOrder'
  <1>1. /\ Queued \in Nat /\ Newest \in Int /\ last \in Nat /\ tick \in Nat
        /\ ppc = "count" => InFlight = 1 /\ Queued >= 1
        /\ ppc # "count" => InFlight = 0
        /\ \A i \in Int : Block(i) \in Nat
    BY QueueNumbers
  <1>2. CASE RxNext /\ ppc # "store"
    <2>1. /\ QueueKept /\ last' = last /\ ppc' # "count"
      BY <1>2, RxQueue, Zenon DEF RxNext, RxCallback, RxDrop, RxStore, RxCount, reader
    <2>2. \/ ppc = "idle" /\ ppc' \in {"store", "drop"} /\ tick' = tick + 1
          \/ ppc \in {"drop", "count"} /\ ppc' = "idle" /\ tick' = tick
      BY <1>2, Zenon DEF RxNext, RxCallback, RxDrop, RxStore, RxCount
    <2>3. Newest' \in Int /\ Newest <= Newest'
      BY <1>1, <2>2 DEF Newest
    <2> QED  BY <2>1, <2>3, KeptOrder, Zenon
  <1>3. CASE RxNext /\ ppc = "store"
    <2>1. /\ QueueFilled /\ ppc' = "count" /\ UNCHANGED <<last, tick>>
          /\ Newest' = tick /\ Newest = tick - 1
      BY <1>3, RxQueue DEF RxNext, RxCallback, RxDrop, RxStore, RxCount, reader, Newest
    <2>2. \A i \in 0..Queued : last < Block(i)' /\ Block(i)' <= tick
      BY <1>1, <2>1 DEF QueueFilled, BlocksInOrder
    <2>3. \A i, j \in 0..Queued : i < j => Block(i)' < Block(j)'
      BY <1>1, <2>1 DEF QueueFilled, BlocksInOrder
    <2>4. slot'[(head' + Queued) % numBuffers] = tick
      BY <1>1, <2>1 DEF QueueFilled, Block
    <2>5. Queued' - 1 = Queued
      BY <1>1, <2>1 DEF QueueFilled
    <2> QED  BY <1>1, <2>1, <2>2, <2>3, <2>4, <2>5, SMTT(30) DEF BlocksInOrder, Block
  <1>4. CASE AcquireNext /\ ~AcquireExtract
    <2>1. UNCHANGED <<last, ppc, tick>> /\ Newest' = Newest
      BY <1>4 DEF AcquireNext, AcquireReset, AcquireClearReset, AcquireClearOverflow, AcquireOverflow,
             AcquireReturnOverflow, AcquireTimeout, callback, Newest
    <2>2. CASE Drain
      <3>1. QueueDrained
        BY <1>4, <2>2, AcquireQueue, Zenon
      <3>2. CASE ppc = "count"
        <4>1. Queued' = 1 /\ Queued - 1 \in 0..(Queued - 1) /\ 0 \in 0..(InFlight - 1)
          BY <1>1, <3>1, <3>2 DEF QueueDrained
        <4>2. slot'[(head' + 0) % numBuffers] = tick
          BY <3>1, <3>2, <4>1, Zenon DEF QueueDrained, Block, BlocksInOrder
        <4>3. last < tick /\ tick <= Newest
          BY <3>2, <4>1, Zenon DEF BlocksInOrder
        <4> QED  BY <2>1, <4>1, <4>2, <4>3 DEF BlocksInOrder, Block
      <3>3. CASE ppc # "count"
        <4>1. Queued' = 0
          BY <1>1, <3>1, <3>3, Zenon DEF QueueDrained
        <4> QED  BY <2>1, <3>3, <4>1 DEF BlocksInOrder
      <3> QED  BY <3>2, <3>3
    <2>3. CASE ~Drain
      BY <1>1, <1>4, <2>1, <2>3, AcquireQueue, KeptOrder
    <2> QED  BY <2>2, <2>3, Zenon
  <1>5. CASE AcquireExtract
    <2>1. QueueTaken /\ UNCHANGED <<ppc, tick>> /\ Newest' = Newest
      BY <1>5, ExtractQueue, Zenon DEF AcquireExtract, callback, Newest
    <2>2. /\ Queued >= 1 /\ Queued' = Queued - 1 /\ last' = Block(0) /\ Block(0) \in Nat
          /\ \A i \in 0..(Queued - 2) : Block(i)' = Block(i + 1) /\ i + 1 \in 0..(Queued - 1)
      BY <1>1, <2>1 DEF QueueTaken
    <2>3. last' <= Newest'
      BY <1>1, <2>1, <2>2 DEF BlocksInOrder
    <2>4. \A i \in 0..(Queued - 2) : last' < Block(i)' /\ Block(i)' <= Newest'
      BY <1>1, <2>1, <2>2 DEF BlocksInOrder
    <2>5. \A i, j \in 0..(Queued - 2) : i < j => Block(i)' < Block(j)'
      BY <1>1, <2>2 DEF BlocksInOrder
    <2>6. ppc = "count" => slot'[(head' + (Queued - 2)) % numBuffers] = tick
      <3> SUFFICES ASSUME ppc = "count" PROVE slot'[(head' + (Queued - 2)) % numBuffers] = tick
        BY Zenon
      <3>1. Queued - 2 \in 0..(Queued - 2) /\ (Queued - 2) + 1 = Queued - 1
        <4>1. Taken = 0 /\ InFlight = 1 /\ count # 0
          BY <1>5, Zenon DEF AcquireExtract, RingAligned, ReaderHolds, Taken, InFlight
        <4> QED  BY <1>1, <4>1, QueueNumbers, RingNumbers
      <3>2. Block(Queued - 1) = tick
        BY DEF BlocksInOrder
      <3> QED  BY <2>2, <3>1, <3>2 DEF Block
    <2>7. Queued' - 1 = Queued - 2
      BY <1>1, <2>2
    <2> QED  BY <2>1, <2>2, <2>3, <2>4, <2>5, <2>6, <2>7, Zenon DEF BlocksInOrder, Block
  <1>6. CASE (UserNext \/ UNCHANGED vars) /\ ~ReopenStream
    <2>1. QueueKept /\ UNCHANGED <<ppc, tick, last>>
      BY <1>6, UserQueue
    <2>2. Newest' = Newest
      BY <2>1, Zenon DEF Newest
    <2> QED  BY <1>1, <2>1, <2>2, KeptOrder
  <1>7. CASE ReopenStream
    <2>1. UNCHANGED <<ppc, tick, last>> /\ ppc = "idle" /\ count' = 0 /\ held' = {}
      BY <1>7 DEF ReopenStream, OneAtATime
    <2>2. Queued' = 0 /\ Newest' = Newest
      BY <2>1 DEF Queued, Taken, InFlight, Newest
    <2> QED  BY <1>1, <2>1, <2>2 DEF BlocksInOrder
  <1> QED  BY <1>2, <1>3, <1>4, <1>5, <1>6, <1>7, Zenon DEF Next

-------------------------------------------------------------------------------
(* Old data.                                                                *)

\* Every step keeps old blocks behind a reset that is pending.
LEMMA NextOld ==
  ASSUME RingAligned, BlocksInOrder, OldDrained, OneAtATime, [Next]_vars
  PROVE  OldDrained'
  <1>1. /\ Queued \in Nat /\ tick \in Nat /\ oldest \in Int
        /\ ppc = "count" => InFlight = 1 /\ Queued >= 1
        /\ ppc # "count" => InFlight = 0
        /\ \A i \in Int : Block(i) \in Nat
    BY QueueNumbers
  <1> DEFINE Fresh == \A i \in 0..(Queued - 1) : Block(i) > oldest
  <1>2. CASE RxNext
    <2>1. UNCHANGED <<oldest, user, spc, rpc, resetBuffer>>
      BY <1>2, Zenon DEF RxNext, RxCallback, RxDrop, RxStore, RxCount, reader, setting
    <2>2. \/ tick' = tick + 1
          \/ tick' = tick /\ ppc # "idle"
      BY <1>2, Zenon DEF RxNext, RxCallback, RxDrop, RxStore, RxCount
    <2>3. oldest' < tick'
      BY <1>1, <2>1, <2>2 DEF OldDrained
    <2>4. Fresh => Fresh'
      <3>1. CASE ppc = "store"
        <4>1. QueueFilled /\ oldest < tick
          BY <1>2, <3>1, RxQueue DEF OldDrained
        <4> QED  BY <1>1, <2>1, <4>1 DEF QueueFilled
      <3>2. CASE ppc # "store"
        <4>1. QueueKept
          BY <1>2, <3>2, RxQueue, Zenon
        <4> QED  BY <2>1, <4>1 DEF QueueKept
      <3> QED  BY <3>1, <3>2
    <2> QED  BY <1>1, <2>1, <2>2, <2>3, <2>4 DEF OldDrained, SettingThread
  <1>3. CASE AcquireNext /\ ~AcquireExtract
    <2>1. UNCHANGED <<oldest, user, spc, ppc, tick>> /\ rpc # "idle"
      BY <1>3, Zenon DEF AcquireNext, AcquireReset, AcquireClearReset, AcquireClearOverflow, AcquireOverflow,
             AcquireReturnOverflow, AcquireTimeout, callback, setting
    <2>2. \/ resetBuffer /\ Drain /\ rpc' = "clearReset"
          \/ rpc = "clearReset" /\ resetBuffer' = FALSE /\ rpc' # "clearReset"
          \/ /\ resetBuffer' = resetBuffer /\ rpc' # "clearReset"
             /\ ~resetBuffer \/ rpc \in {"clearOverflow", "overflow", "returnOverflow", "wait"}
      BY <1>3, Zenon DEF AcquireNext, AcquireReset, AcquireClearReset, AcquireClearOverflow, AcquireOverflow,
             AcquireReturnOverflow, AcquireTimeout
    <2>3. Drain => Fresh'
      <3> SUFFICES ASSUME Drain PROVE Fresh'
        OBVIOUS
      <3>1. QueueDrained
        BY <1>3, AcquireQueue, Zenon
      <3>2. ppc = "count" => Block(Queued - 1) = tick /\ oldest < tick
        BY DEF BlocksInOrder, OldDrained
      <3> QED  BY <1>1, <2>1, <3>1, <3>2 DEF QueueDrained
    <2>4. Fresh => Fresh'
      <3>1. CASE ~Drain
        <4>1. QueueKept
          BY <1>3, <3>1, AcquireQueue, Zenon
        <4> QED  BY <2>1, <4>1 DEF QueueKept
      <3> QED  BY <2>3, <3>1
    <2>5. oldest' <= tick' /\ (ppc' # "idle" => oldest' < tick')
      BY <2>1, Zenon DEF OldDrained
    <2>6. ~SettingThread => (~resetBuffer' \/ rpc' = "clearReset" => Fresh')
      BY <2>2, <2>3, <2>4, Zenon DEF OldDrained
    <2>7. ~SettingThread => spc # "apply"
      BY <2>1 DEF OldDrained
    <2>8. ~SettingThread /\ rpc' \in {"clearOverflow", "overflow", "returnOverflow", "wait"} => ~resetBuffer'
      BY <2>2, Zenon DEF OldDrained
    <2> QED  BY <2>1, <2>5, <2>6, <2>7, <2>8, Zenon DEF OldDrained, SettingThread
  <1>4. CASE AcquireExtract
    <2>1. /\ UNCHANGED <<oldest, user, spc, ppc, tick, resetBuffer>>
          /\ rpc = "wait" /\ rpc' \in {"idle", "convert"}
      BY <1>4, Zenon DEF AcquireExtract, callback, setting
    <2>2. \A i \in 0..(Queued - 2) : Block(i)' = Block(i + 1) /\ i + 1 \in 0..(Queued - 1)
      BY <1>1, <1>4, ExtractQueue DEF QueueTaken
    <2>3. Queued' - 1 = Queued - 2
      BY <1>1, <1>4, ExtractQueue DEF QueueTaken
    <2>4. Fresh => Fresh'
      BY <2>1, <2>2, <2>3
    <2> QED  BY <2>1, <2>4, Zenon DEF OldDrained, SettingThread
  <1>5. CASE (UserNext \/ UNCHANGED vars) /\ ~ReopenStream
    <2>1. QueueKept /\ UNCHANGED <<ppc, tick, user>>
      BY <1>5, UserQueue
    <2>2. \A i \in 0..(Queued - 1) : Block(i)' = Block(i)
      BY <2>1 DEF QueueKept
    <2>3. Queued' = Queued
      BY <2>1, Zenon DEF QueueKept
    <2>4. ASSUME UNCHANGED <<spc, resetBuffer, oldest>>,
                 \/ rpc' = rpc
                 \/ /\ rpc \in {"idle", "convert"} /\ rpc' \in {"idle", "acquire", "convert"}
                    /\ rpc = "convert" \/ SettingThread \/ spc = "idle"
          PROVE  OldDrained'
      <3>1. Fresh => Fresh'
        BY <2>2, <2>3, <2>4, Zenon
      <3> QED  BY <2>1, <2>4, <3>1, Zenon DEF OldDrained, SettingThread
    <2>5. CASE \/ ReadStream \/ ReadStreamConvert \/ DirectAcquire
               \/ DeactivateStream \/ UNCHANGED vars \/ \E h \in held : DirectRelease(h)
      BY <2>4, <2>5, Zenon DEF ReadStream, ReadStreamConvert, DirectAcquire, DirectRelease, DeactivateStream,
         MayRead, vars, reader, setting
    <2>6. CASE SetSampleRate
      BY <2>1, <2>6, Zenon DEF SetSampleRate, OldDrained, SettingThread, reader, setting
    <2>7. CASE ApplySampleRate \/ ActivateStream
      <3>1. /\ oldest' = (IF ppc = "idle" THEN tick ELSE tick - 1) /\ spc' = "idle" /\ rpc' = rpc
            /\ ~SettingThread => rpc = "idle" /\ resetBuffer'
        BY <2>7 DEF ApplySampleRate, ActivateStream, MayRead, Outdate, OldDrained, reader
      <3>2. oldest' <= tick /\ (ppc # "idle" => oldest' < tick)
        BY <1>1, <3>1
      <3> QED  BY <2>1, <3>1, <3>2, Zenon DEF OldDrained, SettingThread
    <2> QED  BY <1>5, <2>5, <2>6, <2>7, Zenon DEF UserNext
  <1>6. CASE ReopenStream
    <2>1. /\ UNCHANGED <<oldest, user, spc, ppc, tick, rpc, resetBuffer>>
          /\ ppc = "idle" /\ count' = 0 /\ held' = {}
      BY <1>6 DEF ReopenStream, OneAtATime
    <2>2. Queued' = 0
      BY <2>1 DEF Queued, Taken, InFlight
    <2> QED  BY <2>1, <2>2 DEF OldDrained, SettingThread
  <1> QED  BY <1>2, <1>3, <1>4, <1>5, <1>6, Zenon DEF Next

-------------------------------------------------------------------------------
(* Gaps.                                                                    *)

\* Every step keeps the blocks without a gap, or the gap recorded.
LEMMA NextGaps ==
  ASSUME RingAligned, BlocksInOrder, GapsTold, OneAtATime, [Next]_vars
  PROVE  GapsTold'
  <1>1. /\ Queued \in Nat /\ tick \in Nat /\ last \in Nat /\ Newest \in Int
        /\ ppc = "count" => InFlight = 1 /\ Queued >= 1
        /\ ppc # "count" => InFlight = 0
        /\ \A i \in Int : Block(i) \in Nat
    BY QueueNumbers
  <1> DEFINE Dense == \A i \in 0..(Queued - 1) : Block(i) = Newest - (Queued - 1) + i
  <1>2. CASE RxNext
    <2>1. UNCHANGED <<rpc, told, last>>
      BY <1>2, Zenon DEF RxNext, RxCallback, RxDrop, RxStore, RxCount, reader
    <2>2. CASE ppc = "drop"
      <3>1. overflowEvent' = TRUE /\ (Clearing => raced')
        BY <1>2, <2>2, Zenon DEF RxNext, RxCallback, RxDrop, RxStore, RxCount, Clearing
      <3> QED  BY <2>1, <3>1 DEF GapsTold, Clearing
    <2>3. CASE ppc = "store"
      <3>1. QueueFilled /\ UNCHANGED <<overflowEvent, raced>> /\ Newest' = Newest + 1 /\ Newest' = tick
        BY <1>1, <1>2, <2>3, RxQueue DEF RxNext, RxCallback, RxDrop, RxStore, RxCount, Newest, reader
      <3>2. Queued' = Queued + 1
        BY <3>1, Zenon DEF QueueFilled
      <3>3. Dense => Dense'
        BY <1>1, <3>1, <3>2 DEF QueueFilled
      <3> QED  BY <1>1, <2>1, <3>1, <3>2, <3>3, SMTT(30) DEF GapsTold, Clearing
    <2>4. CASE ppc \notin {"drop", "store"}
      <3>0. \/ ppc = "idle" /\ ppc' \in {"store", "drop"} /\ tick' = tick + 1
            \/ ppc = "count" /\ ppc' = "idle" /\ tick' = tick
        BY <1>2, <2>4, Zenon DEF RxNext, RxCallback, RxDrop, RxStore, RxCount
      <3>a. Newest' = Newest
        BY <1>1, <3>0 DEF Newest
      <3>b. UNCHANGED <<overflowEvent, raced>>
        BY <1>2, <2>4, Zenon DEF RxNext, RxCallback, RxDrop, RxStore, RxCount, reader
      <3>1. QueueKept /\ UNCHANGED <<overflowEvent, raced>> /\ Newest' = Newest
        BY <1>2, <2>4, <3>a, <3>b, RxQueue
      <3>2. Dense => Dense'
        BY <3>1 DEF QueueKept
      <3>3. Queued' = Queued
        BY <3>1 DEF QueueKept
      <3> QED  BY <2>1, <3>1, <3>2, <3>3, Zenon DEF GapsTold, Clearing
    <2> QED  BY <2>2, <2>3, <2>4, Zenon
  <1>3. CASE AcquireNext /\ ~AcquireExtract
    <2>1. UNCHANGED <<last, ppc, tick>> /\ Newest' = Newest
      BY <1>3 DEF AcquireNext, AcquireReset, AcquireClearReset, AcquireClearOverflow, AcquireOverflow,
             AcquireReturnOverflow, AcquireTimeout, callback, Newest
    <2>2. Drain => Dense'
      <3> SUFFICES ASSUME Drain PROVE Dense'
        BY Zenon
      <3>1. QueueDrained
        BY <1>3, AcquireQueue
      <3>2. ppc = "count" => Block(Queued - 1) = tick /\ Newest = tick
        BY Zenon DEF BlocksInOrder, Newest
      <3> QED  BY <1>1, <2>1, <3>1, <3>2 DEF QueueDrained
    <2>3. CASE (AcquireReset /\ resetBuffer) \/ (AcquireOverflow /\ overflowEvent)
      <3>1. /\ Drain /\ overflowEvent' = overflowEvent
            /\ \/ rpc' = "clearReset" /\ told' = TRUE
               \/ rpc' = "returnOverflow" /\ overflowEvent
        BY <2>3, Zenon DEF AcquireReset, AcquireOverflow
      <3> QED  BY <2>2, <3>1, Zenon DEF GapsTold, Clearing
    <2>4. CASE ~((AcquireReset /\ resetBuffer) \/ (AcquireOverflow /\ overflowEvent))
      <3>0. \/ AcquireReset /\ ~resetBuffer
            \/ AcquireOverflow /\ ~overflowEvent
            \/ AcquireClearReset \/ AcquireClearOverflow \/ AcquireReturnOverflow \/ AcquireTimeout
        BY <1>3, <2>4, Zenon DEF AcquireNext
      <3>1. UNCHANGED <<head, count, slot, held, raced>>
        BY <3>0, Zenon DEF AcquireReset, AcquireClearReset, AcquireClearOverflow, AcquireOverflow,
               AcquireReturnOverflow, AcquireTimeout, callback
      <3>2. Queued' = Queued
        BY <2>1, <3>1, Zenon DEF Queued, Taken, InFlight
      <3>3. Dense => Dense'
        BY <2>1, <3>1, <3>2, KeepQueue, Zenon DEF QueueKept
      <3>4. \/ UNCHANGED <<overflowEvent, told>> /\ rpc' \notin {"clearReset", "clearOverflow", "returnOverflow"}
            \/ /\ rpc = "clearReset" /\ rpc' = "clearOverflow" /\ UNCHANGED <<overflowEvent, told>>
            \/ /\ rpc = "clearOverflow" /\ rpc' = "overflow" /\ overflowEvent' = FALSE /\ told' = told
            \/ /\ rpc = "returnOverflow" /\ rpc' = "idle" /\ overflowEvent' = FALSE /\ told' = TRUE
        BY <3>0, Zenon DEF AcquireReset, AcquireClearReset, AcquireClearOverflow, AcquireOverflow,
               AcquireReturnOverflow, AcquireTimeout
      <3> QED  BY <2>1, <3>1, <3>2, <3>3, <3>4, Zenon DEF GapsTold, Clearing
    <2> QED  BY <2>3, <2>4
  <1>4. CASE AcquireExtract
    <2>1. /\ QueueTaken /\ UNCHANGED <<raced, overflowEvent>> /\ Newest' = Newest
          /\ rpc = "wait" /\ rpc' \in {"idle", "convert"}
      BY <1>4, ExtractQueue, Zenon DEF AcquireExtract, callback, Newest
    <2>2. /\ Queued >= 1 /\ Queued' = Queued - 1 /\ last' = Block(0)
          /\ \A i \in 0..(Queued - 2) : Block(i)' = Block(i + 1) /\ i + 1 \in 0..(Queued - 1)
      BY <1>1, <2>1 DEF QueueTaken
    <2>3. Dense => Dense' /\ last' + Queued' = Newest'
      BY <1>1, <2>1, <2>2
    <2> QED  BY <2>1, <2>3, Zenon DEF GapsTold, Clearing
  <1>5. CASE (UserNext \/ UNCHANGED vars) /\ ~ReopenStream
    <2>1. QueueKept /\ UNCHANGED <<ppc, tick, last, told, raced, overflowEvent>>
      BY <1>5, UserQueue
    <2>2. rpc' \in {rpc, "idle", "acquire", "convert"}
      BY <1>5, Zenon DEF UserNext, ReadStream, ReadStreamConvert, DirectAcquire, DirectRelease, SetSampleRate,
           ApplySampleRate, ActivateStream, DeactivateStream, vars, reader
    <2>3. Queued' = Queued /\ Newest' = Newest
      BY <2>1, Zenon DEF QueueKept, Newest
    <2>4. Dense => Dense'
      BY <2>1, <2>3, Zenon DEF QueueKept
    <2> QED  BY <2>1, <2>2, <2>3, <2>4 DEF GapsTold, Clearing
  <1>6. CASE ReopenStream
    <2>1. rpc' = rpc /\ rpc = "idle" /\ told' = TRUE /\ ppc' = "idle" /\ count' = 0 /\ held' = {}
      BY <1>6 DEF ReopenStream, MayRead, OneAtATime
    <2>2. Queued' = 0
      BY <2>1 DEF Queued, Taken, InFlight
    <2> QED  BY <2>1, <2>2 DEF GapsTold
  <1> QED  BY <1>2, <1>3, <1>4, <1>5, <1>6 DEF Next

-------------------------------------------------------------------------------
\* The strengthened invariant is kept, blocks included: what rx_callback put into
\* the ring comes out in order, and the flags tell which blocks are old or
\* missing.
THEOREM RingInvariant ==
  ASSUME OneAtATime
  PROVE  Spec => []RingInv
  <1>1. Init => RingInv
    <2> SUFFICES ASSUME Init PROVE RingInv
      BY Zenon
    <2>1. RingAligned /\ Queued = 0
      BY InitRing DEF Init, Queued, Taken, InFlight
    <2>2. BlocksInOrder /\ OldDrained /\ GapsTold
      BY <2>1 DEF Init, BlocksInOrder, OldDrained, GapsTold, Clearing, Newest
    <2> QED  BY <2>1, <2>2 DEF RingInv
  <1>2. RingInv /\ [Next]_vars => RingInv'
    BY RxRing, AcquireRing, UserRing, StutterRing, NextOrder, NextOld, NextGaps, Zenon DEF Next, RingInv
  <1> QED  BY <1>1, <1>2, PTL DEF Spec

\* Only acquireReadBuffer takes a block, the oldest in the ring.
LEMMA OnlyExtract ==
  ASSUME RingInv, OneAtATime, [Next]_vars, last' # last
  PROVE  /\ rpc = "wait" /\ last' = Block(0) /\ 0 \in 0..(Queued - 1)
         /\ Queued \in Nat /\ Newest \in Int /\ oldest \in Int /\ last \in Nat
  <1>1. AcquireExtract
    BY Zenon DEF Next, RxNext, RxCallback, RxDrop, RxStore, RxCount, AcquireNext, AcquireReset,
           AcquireClearReset, AcquireClearOverflow, AcquireOverflow, AcquireReturnOverflow,
           AcquireTimeout, UserNext, ReadStream, ReadStreamConvert, DirectAcquire, DirectRelease,
           SetSampleRate, ApplySampleRate, ActivateStream, DeactivateStream, ReopenStream,
           vars, reader
  <1>2. QueueTaken
    BY <1>1, ExtractQueue DEF RingInv
  <1> QED  BY <1>1, <1>2, QueueNumbers DEF RingInv, QueueTaken, AcquireExtract

\* readStream and direct access get the blocks in the order in which rx_callback
\* was called, and none twice.
THEOREM BlocksComeInOrder ==
  ASSUME OneAtATime
  PROVE  Spec => InOrder
  <1>1. RingInv /\ [Next]_vars => [last' # last => last' > last]_vars
    BY OnlyExtract DEF RingInv, BlocksInOrder
  <1> QED  BY RingInvariant, <1>1, PTL DEF Spec, InOrder

\* After a change of the settings in the reading thread no block is acquired that
\* was queued before: the reset drains them all.
THEOREM OldDataIsDrained ==
  ASSUME OneAtATime
  PROVE  Spec => NoOldData
  <1>1. RingInv /\ [Next]_vars => [~SettingThread /\ last' # last => last' > oldest]_vars
    BY OnlyExtract DEF RingInv, OldDrained
  <1> QED  BY RingInvariant, <1>1, PTL DEF Spec, NoOldData

\* A reader that finds a block missing was told of the overflow or of the reset,
\* or is told by the next call, unless the block was dropped while the flag of an
\* earlier overflow was being cleared.
THEOREM GapsAreReported ==
  ASSUME OneAtATime
  PROVE  Spec => GapReported
  <1>1. RingInv /\ [Next]_vars =>
           [last' # last /\ ~told /\ ~overflowEvent /\ ~raced => last' = last + 1]_vars
    <2> SUFFICES ASSUME RingInv, [Next]_vars, last' # last, ~told, ~overflowEvent, ~raced
                 PROVE  last' = last + 1
      BY Zenon
    <2>1. Block(0) = Newest - (Queued - 1) + 0 /\ last + Queued = Newest
      BY OnlyExtract DEF RingInv, GapsTold
    <2> QED  BY <2>1, OnlyExtract
  <1> QED  BY RingInvariant, <1>1, PTL DEF Spec, GapReported
===============================================================================
