------------------------------- MODULE RtlRing -------------------------------
(***************************************************************************)
(* The receive queue of SoapyRTLSDR (SoapyRTLSDR/Streaming.cpp): librtlsdr *)
(* calls rx_callback in its own thread with every block of samples, the    *)
(* user's thread takes them out with readStream or with the direct buffer  *)
(* access API.  The queue is a ring with no lock around it: the callback   *)
(* owns _buf_tail, the reader owns _buf_head, and both change the atomic   *)
(* _buf_count.  Each access to an atomic is a step of its own here, unless *)
(* nobody else can tell it from the one before.                            *)
(*                                                                         *)
(* Blocks are numbered as they arrive.  The samples of a block, their      *)
(* conversion and the time stamps are left out; of bufferedElems the model *)
(* keeps whether it is zero.                                               *)
(***************************************************************************)
EXTENDS Integers, FiniteSets

CONSTANTS
    numBuffers,     \* the "buffers" argument of setupStream
    CountMod,       \* 2^64: _buf_count is a size_t
    MaxTick,        \* bound: blocks received in a behaviour
    MaxChanges,     \* bound: changes of sample rate and activations
    Users,          \* the kinds of user: does it take buffers with direct access,
                    \*   and set the sample rate in a thread of its own?
    MaxHeld,        \* buffers that a user of direct access keeps at once
    LeftOver        \* what the user may do with samples left over in a buffer:
                    \*   "activate" the stream again, "reopen" it

ASSUME RingAssumption ==
    /\ numBuffers \in Nat \ {0}
    /\ CountMod \in Nat /\ CountMod > numBuffers
    /\ MaxTick \in Nat /\ MaxChanges \in Nat
    /\ Users \subseteq [direct : BOOLEAN, settingThread : BOOLEAN]
    /\ LeftOver \subseteq {"activate", "reopen"}
    /\ MaxHeld \in 1..numBuffers

VARIABLES
    user,            \* the kind of user of this behaviour
    slot,            \* _buffs: the number of the block in each buffer, 0 for none
    head, tail,      \* _buf_head, _buf_tail
    count,           \* _buf_count
    overflowEvent,   \* _overflowEvent
    resetBuffer,     \* resetBuffer
    active,          \* _rx_async_thread runs
    ppc,             \* where the callback is
    tick,            \* blocks received so far
    rpc,             \* where the reading thread is
    held,            \* the handles the reader has and did not release
    left,            \* bufferedElems # 0
    spc,             \* where setSampleRate is
    changes,         \* settings so far
    last,            \* history: the block acquired last
    oldest,          \* history: the newest block queued before the last change
    told,            \* history: told of a gap since the last acquire
    raced            \* history: a block was dropped after the last drain, but
                     \*   before the flags were cleared

callback == <<slot, tail, ppc, tick>>
reader == <<head, rpc, held, left, last, told, raced>>
setting == <<active, spc, changes, oldest, user>>
vars == <<callback, reader, setting, count, overflowEvent, resetBuffer>>

Slots == 0..(numBuffers - 1)

Direct == user.direct
SettingThread == user.settingThread

\* setupStream clears the counts and allocates the buffers.
Init ==
    /\ user \in Users
    /\ slot = [i \in Slots |-> 0]
    /\ head = 0 /\ tail = 0 /\ count = 0
    /\ overflowEvent = FALSE /\ resetBuffer = FALSE
    /\ active = FALSE /\ ppc = "idle" /\ tick = 0
    /\ rpc = "idle" /\ held = {} /\ left = FALSE
    /\ spc = "idle" /\ changes = 0
    /\ last = 0 /\ oldest = 0 /\ told = TRUE /\ raced = FALSE

-------------------------------------------------------------------------------
(* rx_callback.                                                             *)

\* Mutant: one block too many.
RxCallback_OffByOne ==
    /\ active /\ ppc = "idle" /\ tick < MaxTick
    /\ tick' = tick + 1
    /\ ppc' = IF count > numBuffers THEN "drop" ELSE "store"
    /\ UNCHANGED <<slot, tail, reader, setting, count, overflowEvent, resetBuffer>>

\* A block arrives and the callback looks at the count.
RxCallback ==
    /\ active /\ ppc = "idle" /\ tick < MaxTick
    /\ tick' = tick + 1
    /\ ppc' = IF count = numBuffers THEN "drop" ELSE "store"
    /\ UNCHANGED <<slot, tail, reader, setting, count, overflowEvent, resetBuffer>>

\* Mutant: the event is not recorded.
RxDrop_Silent ==
    /\ ppc = "drop"
    /\ raced' = IF rpc \in {"clearReset", "clearOverflow", "returnOverflow"} THEN TRUE ELSE raced
    /\ ppc' = "idle"
    /\ UNCHANGED <<slot, tail, tick, head, rpc, held, left, last, told, setting, count,
                   overflowEvent, resetBuffer>>

RxDrop ==
    /\ ppc = "drop"
    /\ overflowEvent' = TRUE
    /\ raced' = IF rpc \in {"clearReset", "clearOverflow", "returnOverflow"} THEN TRUE ELSE raced
    /\ ppc' = "idle"
    /\ UNCHANGED <<slot, tail, tick, head, rpc, held, left, last, told, setting, count, resetBuffer>>

RxStore ==
    /\ ppc = "store"
    /\ slot' = [slot EXCEPT ![tail] = tick]
    /\ tail' = (tail + 1) % numBuffers
    /\ ppc' = "count"
    /\ UNCHANGED <<tick, reader, setting, count, overflowEvent, resetBuffer>>

RxCount ==
    /\ ppc = "count"
    /\ count' = (count + 1) % CountMod
    /\ ppc' = "idle"
    /\ UNCHANGED <<slot, tail, tick, reader, setting, overflowEvent, resetBuffer>>

-------------------------------------------------------------------------------
(* acquireReadBuffer and releaseReadBuffer.                                 *)

\* Mutant: the count is cleared and the head is left behind.
Drain_CountOnly == count' = 0 /\ UNCHANGED head

\* The head goes past everything that is queued.
Drain ==
    /\ head' = (head + count) % numBuffers
    /\ count' = 0

\* Reset is issued by various settings to drain old data out of the queue.
AcquireReset ==
    /\ rpc = "acquire"
    /\ IF resetBuffer
       THEN Drain /\ rpc' = "clearReset" /\ told' = TRUE /\ raced' = FALSE
       ELSE rpc' = "overflow" /\ UNCHANGED <<head, count, told, raced>>
    /\ UNCHANGED <<callback, setting, held, left, last, overflowEvent, resetBuffer>>

AcquireClearReset ==
    /\ rpc = "clearReset"
    /\ resetBuffer' = FALSE
    /\ rpc' = "clearOverflow"
    /\ UNCHANGED <<callback, setting, head, held, left, last, told, raced, count, overflowEvent>>

AcquireClearOverflow ==
    /\ rpc = "clearOverflow"
    /\ overflowEvent' = FALSE
    /\ rpc' = "overflow"
    /\ UNCHANGED <<callback, setting, head, held, left, last, told, raced, count, resetBuffer>>

\* Overflow: drain, and return an error.
AcquireOverflow ==
    /\ rpc = "overflow"
    /\ IF overflowEvent
       THEN Drain /\ rpc' = "returnOverflow" /\ raced' = FALSE
       ELSE rpc' = "wait" /\ UNCHANGED <<head, count, raced>>
    /\ UNCHANGED <<callback, setting, held, left, last, told, overflowEvent, resetBuffer>>

AcquireReturnOverflow ==
    /\ rpc = "returnOverflow"
    /\ overflowEvent' = FALSE
    /\ told' = TRUE
    /\ rpc' = "idle"
    /\ UNCHANGED <<callback, setting, head, held, left, last, raced, count, resetBuffer>>

AcquireTimeout ==
    /\ rpc = "wait" /\ count = 0
    /\ rpc' = "idle"
    /\ UNCHANGED <<callback, setting, head, held, left, last, told, raced, count, overflowEvent, resetBuffer>>

\* Extract the handle.  readStream goes on to convert samples out of it.
AcquireExtract ==
    /\ rpc = "wait" /\ count # 0
    /\ head' = (head + 1) % numBuffers
    /\ held' = held \cup {head}
    /\ last' = slot[head]
    /\ told' = FALSE
    /\ rpc' = IF Direct THEN "idle" ELSE "convert"
    /\ UNCHANGED <<callback, setting, left, raced, count, overflowEvent, resetBuffer>>

\* releaseReadBuffer(handle).
Release(h) ==
    /\ held' = held \ {h}
    /\ count' = (count - 1) % CountMod

-------------------------------------------------------------------------------
(* The user's calls.                                                        *)

\* setSampleRate in the reading thread itself keeps it from reading.
MayRead == rpc = "idle" /\ (SettingThread \/ spc = "idle")

\* Mutant: the remainder is dropped without releasing its buffer.
ReadStream_NoRelease ==
    /\ ~Direct /\ MayRead
    /\ left' = (left /\ ~resetBuffer)
    /\ held' = IF left /\ resetBuffer THEN {} ELSE held
    /\ rpc' = IF left' THEN "convert" ELSE "acquire"
    /\ UNCHANGED <<callback, setting, head, last, told, raced, count, overflowEvent, resetBuffer>>

\* readStream: drop the remainder on reset; acquire, or go on with the
\* remainder.
ReadStream ==
    /\ ~Direct /\ MayRead
    /\ IF resetBuffer /\ left
       THEN left' = FALSE /\ \E h \in held : Release(h)
       ELSE UNCHANGED <<left, held, count>>
    /\ rpc' = IF left' THEN "convert" ELSE "acquire"
    /\ UNCHANGED <<callback, setting, head, last, told, raced, overflowEvent, resetBuffer>>

\* The rest of readStream: the user's buffer takes all that is left in the
\* current one, which is released, or a part of it.
ReadStreamConvert ==
    /\ rpc = "convert"
    /\ \/ left' = TRUE /\ UNCHANGED <<held, count>>
       \/ left' = FALSE /\ \E h \in held : Release(h)
    /\ rpc' = "idle"
    /\ UNCHANGED <<callback, setting, head, last, told, raced, overflowEvent, resetBuffer>>

DirectAcquire ==
    /\ Direct /\ MayRead /\ Cardinality(held) < MaxHeld
    /\ rpc' = "acquire"
    /\ UNCHANGED <<callback, setting, head, held, left, last, told, raced, count, overflowEvent, resetBuffer>>

DirectRelease(h) ==
    /\ Direct /\ MayRead
    /\ Release(h)
    /\ UNCHANGED <<callback, setting, head, rpc, left, last, told, raced, overflowEvent, resetBuffer>>

\* What is in the queue now is old once the setting below is made.
Outdate == oldest' = IF ppc = "idle" THEN tick ELSE tick - 1

\* Mutant: no reset is asked for.
SetSampleRate_NoReset ==
    /\ spc = "idle" /\ (SettingThread \/ rpc = "idle") /\ changes < MaxChanges
    /\ spc' = "apply" /\ changes' = changes + 1
    /\ UNCHANGED <<callback, reader, active, oldest, user, count, overflowEvent, resetBuffer>>

\* setSampleRate asks for a reset before it changes the rate...
SetSampleRate ==
    /\ spc = "idle" /\ (SettingThread \/ rpc = "idle") /\ changes < MaxChanges
    /\ resetBuffer' = TRUE
    /\ spc' = "apply" /\ changes' = changes + 1
    /\ UNCHANGED <<callback, reader, active, oldest, user, count, overflowEvent>>

\* ... which rtlsdr_set_sample_rate does.
ApplySampleRate ==
    /\ spc = "apply"
    /\ Outdate
    /\ spc' = "idle"
    /\ UNCHANGED <<callback, reader, active, changes, user, count, overflowEvent, resetBuffer>>

\* activateStream, in the reading thread.
ActivateStream ==
    /\ MayRead /\ spc = "idle" /\ changes < MaxChanges
    /\ left => "activate" \in LeftOver
    /\ resetBuffer' = TRUE
    /\ left' = FALSE /\ held' = IF Direct THEN held ELSE {}
    /\ active' = TRUE /\ Outdate /\ changes' = changes + 1
    /\ UNCHANGED <<callback, head, rpc, last, told, raced, spc, user, count, overflowEvent>>

\* deactivateStream joins the thread, which is then out of the callback.
DeactivateStream ==
    /\ MayRead /\ active /\ ppc = "idle"
    /\ active' = FALSE
    /\ UNCHANGED <<callback, reader, spc, changes, oldest, user, count, overflowEvent, resetBuffer>>

\* closeStream stops the thread and frees the buffers, setupStream clears the
\* counts and allocates them again.  Neither touches bufferedElems.
ReopenStream ==
    /\ MayRead /\ spc = "idle" /\ ppc = "idle" /\ changes < MaxChanges
    /\ held # {} => "reopen" \in LeftOver
    /\ slot' = [i \in Slots |-> 0]
    /\ head' = 0 /\ tail' = 0 /\ count' = 0
    /\ active' = FALSE /\ told' = TRUE /\ changes' = changes + 1
    /\ UNCHANGED <<ppc, tick, rpc, held, left, last, raced, spc, oldest, user, overflowEvent, resetBuffer>>

-------------------------------------------------------------------------------
RxNext == RxCallback \/ RxDrop \/ RxStore \/ RxCount

AcquireNext ==
    \/ AcquireReset \/ AcquireClearReset \/ AcquireClearOverflow
    \/ AcquireOverflow \/ AcquireReturnOverflow
    \/ AcquireTimeout \/ AcquireExtract

UserNext ==
    \/ ReadStream \/ ReadStreamConvert
    \/ DirectAcquire \/ \E h \in held : DirectRelease(h)
    \/ SetSampleRate \/ ApplySampleRate \/ ActivateStream \/ DeactivateStream
    \/ ReopenStream

Next == RxNext \/ AcquireNext \/ UserNext

Spec == Init /\ [][Next]_vars

-------------------------------------------------------------------------------
CountersOK ==
    /\ slot \in [Slots -> Nat] /\ head \in Slots /\ tail \in Slots
    /\ count \in Nat /\ tick \in Nat /\ changes \in Nat /\ last \in Nat /\ oldest \in Int

FlagsOK ==
    /\ user \in Users
    /\ overflowEvent \in BOOLEAN /\ resetBuffer \in BOOLEAN /\ active \in BOOLEAN
    /\ left \in BOOLEAN /\ told \in BOOLEAN /\ raced \in BOOLEAN /\ held \subseteq Slots
    /\ ppc \in {"idle", "drop", "store", "count"}
    /\ rpc \in {"idle", "acquire", "clearReset", "clearOverflow", "overflow",
                "returnOverflow", "wait", "convert"}
    /\ spc \in {"idle", "apply"}

TypeOK == CountersOK /\ FlagsOK

InFlight == IF ppc = "count" THEN 1 ELSE 0

\* How many handles a reader that takes one at a time has.
Taken == IF held = {} THEN 0 ELSE 1

\* A reader that takes one at a time holds the slot before the head, and none
\* while it waits for the next.
ReaderHolds ==
    /\ held # {} => held = {(head - 1) % numBuffers}
    /\ rpc \notin {"idle", "convert"} => held = {} /\ ~left
    /\ rpc = "convert" => held # {} /\ ~Direct
    /\ left => ~Direct
    /\ rpc = "idle" /\ ~Direct => (left <=> held # {})

\* The ring stays aligned although no lock covers its three variables: the
\* blocks counted, and the one stored but not counted yet, fill the slots from
\* the one the reader holds (or from the head) up to the tail.
Aligned ==
    /\ Taken <= count /\ count + InFlight <= numBuffers
    /\ ppc = "store" => count < numBuffers
    /\ tail = (head + (count - Taken) + InFlight) % numBuffers

\* The ring as a ring, whatever its blocks are.
RingAligned == TypeOK /\ ReaderHolds /\ Aligned

\* How many blocks wait in the ring, and the i-th of them.
Queued == count - Taken + InFlight
Block(i) == slot[(head + i) % numBuffers]

\* The newest block that could be in the ring.
Newest == IF ppc \in {"store", "drop"} THEN tick - 1 ELSE tick

\* The blocks in the ring came one after the other, after the one acquired last.
BlocksInOrder ==
    /\ last <= Newest
    /\ \A i \in 0..(Queued - 1) : last < Block(i) /\ Block(i) <= Newest
    /\ \A i, j \in 0..(Queued - 1) : i < j => Block(i) < Block(j)
    /\ ppc = "count" => Block(Queued - 1) = tick

\* Old blocks are in the ring only while the reset that will drain them is
\* pending, and no acquire of the reader that makes the settings is past it.
OldDrained ==
    /\ oldest <= tick /\ (ppc # "idle" => oldest < tick)
    /\ ~SettingThread =>
          /\ spc = "apply" => rpc = "idle" /\ resetBuffer
          /\ rpc \in {"clearOverflow", "overflow", "returnOverflow", "wait"} => ~resetBuffer
          /\ ~resetBuffer \/ rpc = "clearReset" => \A i \in 0..(Queued - 1) : Block(i) > oldest

\* acquireReadBuffer has drained the ring and not cleared the overflow yet.
Clearing == rpc \in {"clearReset", "clearOverflow", "returnOverflow"}

\* No block is missing between those in the ring, up to the newest, unless the
\* overflow is recorded or was cleared by mistake; nor between the one acquired
\* last and those, unless the reader was told.
GapsTold ==
    /\ rpc = "returnOverflow" => overflowEvent
    /\ rpc \in {"clearReset", "clearOverflow"} => told
    /\ ~raced /\ (~overflowEvent \/ Clearing) =>
          \A i \in 0..(Queued - 1) : Block(i) = Newest - (Queued - 1) + i
    /\ ~raced /\ ~overflowEvent /\ ~told => last + Queued = Newest

\* The state of the queue and of its two threads is consistent: rx_callback and
\* acquireReadBuffer agree on which buffers are filled, counted and in use, the
\* blocks in them are in order, and the two flags tell which are old or missing.
RingInv == RingAligned /\ BlocksInOrder /\ OldDrained /\ GapsTold

\* rx_callback never writes a buffer that the reader still reads.
NoOverwrite == ppc = "store" => tail \notin held

\* The reader gets blocks in the order they arrived and none twice.
InOrder == [][last' # last => last' > last]_vars

\* A reset drains the old data out of the queue: nothing that was queued
\* before a setting was changed is acquired afterwards, when the thread that
\* reads makes the settings.
NoOldData == [][~SettingThread /\ last' # last => last' > oldest]_vars

\* When a block is missing between two that are acquired, the reader was told
\* of an overflow or asked for a reset in between, or the next call tells it;
\* unless the block was dropped between a drain and the clearing of the flag.
GapReported ==
    [][last' # last /\ ~told /\ ~overflowEvent /\ ~raced => last' = last + 1]_vars
===============================================================================
