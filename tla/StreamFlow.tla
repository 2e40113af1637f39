------------------------------ MODULE StreamFlow ------------------------------
(***************************************************************************)
(* One stream of SoapyRemote: the send endpoint at one end, the receive    *)
(* endpoint at the other, and the socket between them                      *)
(* (SoapyRemote/common/SoapyStreamEndpoint.cpp).  The receiver tells the   *)
(* sender how far it got and how many datagrams may be in flight; the      *)
(* sender numbers its datagrams and stops when the window is full.         *)
(*                                                                         *)
(* Sequence numbers travel in 32 bits.  The counters below are kept in     *)
(* full and every comparison the code makes in uint32_t is made modulo     *)
(* SeqMod, so that a wrong answer around the wrap would show.              *)
(*                                                                         *)
(* A datagram in flight is its (full) sequence number, an ACK in flight is *)
(* the (full) count it acknowledges; an ACK equal to one already in flight *)
(* says nothing new and is not kept twice.  Whether a datagram carries     *)
(* samples or an error code is chosen when it is received: nothing depends *)
(* on it before.  An ordered network delivers the oldest message first; on *)
(* an unordered one any message may overtake the others.                   *)
(***************************************************************************)
EXTENDS HandleRing

CONSTANTS
    Window,       \* the receiver's _maxInFlightSeqs: its socket buffer / mtu
    SeqMod,       \* 2^32
    MaxHeld,      \* handles a user keeps at once: 1 for readStream, writeStream
                  \*   and the server's workers, up to NumBuffs with direct access
    MaxSent,      \* bound: datagrams sent in a behaviour
    LossBudget,   \* bound: datagrams and ACKs the network loses, failed receives
    Ordered,      \* the network keeps the order
    ACKErrors     \* the socket may report an error where an ACK is expected

ASSUME FlowAssumption ==
    /\ Window \in Nat \ {0}
    /\ MaxHeld \in 1..NumBuffs
    /\ SeqMod \in Nat /\ SeqMod > Window + MaxHeld
    /\ MaxSent \in Nat
    /\ LossBudget \in Nat
    /\ Ordered \in BOOLEAN /\ ACKErrors \in BOOLEAN

VARIABLES
    tx,            \* sender: handle tracking
    sent,          \* sender: _lastSendSequence (64 bits, never wraps)
    acked,         \* sender: _lastRecvSequence, in full
    maxInFlight,   \* sender: _maxInFlightSeqs
    txInitial,     \* sender: _receiveInitial
    spc,           \* sender: where its caller is in waitSend
    rx,            \* receiver: handle tracking
    rcvd,          \* receiver: _lastRecvSequence, in full
    lastAck,       \* receiver: _lastSendSequence, in full
    rxInitial,     \* receiver: _receiveInitial
    rpc,           \* receiver: where its caller is in waitRecv
    data,          \* datagrams in flight
    acks,          \* ACKs in flight
    lost,          \* messages lost so far
    misread        \* history: recvACK has used a header it did not receive

sender == <<tx, sent, acked, maxInFlight, txInitial, spc, misread>>
receiver == <<rx, rcvd, lastAck, rxInitial, rpc>>
network == <<data, acks, lost>>
vars == <<sender, receiver, network>>

U32(n) == n % SeqMod

\* Mutant: an ACK per window, not per window / number of buffers.
TriggerAckWindow_Whole == Window

\* The flow control ACK condition computed by the constructor.
TriggerAckWindow == Window \div NumBuffs

\* The messages an ordered network may deliver next.
Deliverable(msgs) == {m \in msgs : Ordered => \A k \in msgs : m <= k}

-------------------------------------------------------------------------------
(* The constructors: the receiver's one sends an ACK to open the window.    *)

Init ==
    /\ tx = EmptyRing /\ rx = EmptyRing
    /\ sent = 0 /\ acked = 0 /\ maxInFlight = 0 /\ txInitial = FALSE /\ spc = "idle" /\ misread = FALSE
    /\ rcvd = 0 /\ lastAck = 0 /\ rxInitial = FALSE /\ rpc = "idle"
    /\ data = {} /\ acks = {0} /\ lost = 0

-------------------------------------------------------------------------------
(* The receive endpoint.                                                    *)

\* sendACK: the ACK carries _lastRecvSequence and the window.
SendACK(n) == acks' = acks \cup {n} /\ lastAck' = n

\* waitRecv up to the select: a gratuitous ACK until something is received.
WaitRecv ==
    /\ rpc = "idle" /\ rx.outstanding < MaxHeld
    /\ IF rxInitial THEN UNCHANGED <<acks, lastAck>> ELSE SendACK(rcvd)
    /\ rpc' = "select"
    /\ UNCHANGED <<sender, rx, rcvd, rxInitial, data, lost>>

\* waitRecv returns false.
WaitRecvTimeout ==
    /\ rpc = "select" /\ data = {}
    /\ rpc' = "idle"
    /\ UNCHANGED <<sender, rx, rcvd, lastAck, rxInitial, network>>

\* Mutant: only a sequence behind the expected one is noticed.
Notices_Behind(n) == U32(rcvd) > U32(n)

\* acquireRecv notices a gap when the sequence is not the expected one.
Notices(n) == U32(rcvd) # U32(n)

\* acquireRecv, once the socket is readable: the datagram's sequence becomes
\* the position, an ACK is sent when it is far enough from the last one, and
\* the handle is acquired unless the datagram carries an error code.
AcquireRecv(n) ==
    /\ rpc = "select" /\ ~AllAcquired(rx)
    /\ data' = data \ {n}
    /\ rxInitial' = TRUE
    /\ rcvd' = n + 1
    /\ IF U32(U32(n + 1) - U32(lastAck)) >= TriggerAckWindow
       THEN SendACK(n + 1)
       ELSE UNCHANGED <<acks, lastAck>>
    /\ Acquire(rx, rx') \/ UNCHANGED rx
    /\ rpc' = "idle"
    /\ UNCHANGED <<sender, lost>>

\* acquireRecv when the user holds every handle: a stream error, nothing read.
AcquireRecvError ==
    /\ rpc = "select" /\ data # {} /\ AllAcquired(rx)
    /\ rpc' = "idle"
    /\ UNCHANGED <<sender, rx, rcvd, lastAck, rxInitial, network>>

\* acquireRecv when the socket fails, or when the datagram is larger than the
\* buffer: a stream error, and neither the position nor the handles change.
AcquireRecvFails(n) ==
    /\ rpc = "select" /\ ~AllAcquired(rx) /\ lost < LossBudget
    /\ \/ UNCHANGED <<data, rxInitial>>
       \/ data' = data \ {n} /\ rxInitial' = TRUE
    /\ lost' = lost + 1
    /\ rpc' = "idle"
    /\ UNCHANGED <<sender, rx, rcvd, lastAck, acks>>

ReleaseRecv(h) ==
    /\ rpc = "idle"
    /\ Release(rx, h, rx')
    /\ UNCHANGED <<sender, rcvd, lastAck, rxInitial, rpc, network>>

-------------------------------------------------------------------------------
(* The send endpoint.                                                       *)

\* Mutant: one more than the window.
WindowOpen_OffByOne == txInitial /\ U32(sent - U32(acked)) <= maxInFlight

\* Mutant: the difference is not taken in 32 bits.
WindowOpen_Wide == txInitial /\ sent - U32(acked) < maxInFlight

\* Are we within the allowed number of sequences in flight?
WindowOpen == txInitial /\ U32(sent - U32(acked)) < maxInFlight

\* waitSend up to the select: no ACK is read while the window is open.
WaitSend ==
    /\ spc = "idle" /\ tx.outstanding < MaxHeld
    /\ sent + tx.outstanding < MaxSent
    /\ spc' = IF WindowOpen THEN "ready" ELSE "select"
    /\ UNCHANGED <<tx, sent, acked, maxInFlight, txInitial, misread, receiver, network>>

\* waitSend returns false.
WaitSendTimeout ==
    /\ spc = "select" /\ acks = {}
    /\ spc' = "idle"
    /\ UNCHANGED <<tx, sent, acked, maxInFlight, txInitial, misread, receiver, network>>

\* recvACK: position and window are overwritten by those of the ACK.
RecvACK(a) ==
    /\ spc \in {"select", "drain"}
    /\ acks' = acks \ {a}
    /\ acked' = a
    /\ maxInFlight' = Window
    /\ txInitial' = TRUE
    /\ spc' = "drain"
    /\ UNCHANGED <<tx, sent, misread, receiver, data, lost>>

\* recvACK when the socket fails: the error is logged and the header on the
\* stack, which nothing was received into, is used all the same.
RecvACKFails ==
    /\ ACKErrors /\ spc \in {"select", "drain"} /\ lost < LossBudget
    /\ \E a \in 0..(SeqMod - 1) : acked' = a
    /\ \E w \in 0..(SeqMod - 1) : maxInFlight' = w
    /\ txInitial' = TRUE
    /\ lost' = lost + 1 /\ misread' = TRUE
    /\ spc' = "drain"
    /\ UNCHANGED <<tx, sent, receiver, data, acks>>

\* Mutant: an if for the while, the window is not looked at again.
ACKsDrained_Once ==
    /\ spc = "drain" /\ acks = {}
    /\ spc' = "ready"
    /\ UNCHANGED <<tx, sent, acked, maxInFlight, txInitial, misread, receiver, network>>

\* No more ACK to read: back to the condition of the loop.
ACKsDrained ==
    /\ spc = "drain" /\ acks = {}
    /\ spc' = IF WindowOpen THEN "ready" ELSE "select"
    /\ UNCHANGED <<tx, sent, acked, maxInFlight, txInitial, misread, receiver, network>>

AcquireSend ==
    /\ spc = "ready"
    /\ Acquire(tx, tx')
    /\ spc' = "idle"
    /\ UNCHANGED <<sent, acked, maxInFlight, txInitial, misread, receiver, network>>

\* acquireSend when the user holds every handle: a stream error.
AcquireSendError ==
    /\ spc = "ready" /\ AllAcquired(tx)
    /\ spc' = "idle"
    /\ UNCHANGED <<tx, sent, acked, maxInFlight, txInitial, misread, receiver, network>>

\* releaseSend numbers the datagram and sends it.  A send that fails has used
\* up its number like one that the network loses.
ReleaseSend(h) ==
    /\ spc = "idle"
    /\ Release(tx, h, tx')
    /\ data' = data \cup {sent}
    /\ sent' = sent + 1
    /\ UNCHANGED <<acked, maxInFlight, txInitial, spc, misread, receiver, acks, lost>>

-------------------------------------------------------------------------------
(* The network.                                                             *)

LoseData(n) ==
    /\ lost < LossBudget
    /\ data' = data \ {n}
    /\ lost' = lost + 1
    /\ UNCHANGED <<sender, receiver, acks>>

LoseACK(a) ==
    /\ lost < LossBudget
    /\ acks' = acks \ {a}
    /\ lost' = lost + 1
    /\ UNCHANGED <<sender, receiver, data>>

-------------------------------------------------------------------------------
ReceiverStep ==
    \/ WaitRecv \/ WaitRecvTimeout \/ AcquireRecvError
    \/ \E n \in Deliverable(data) : AcquireRecv(n)

ReceiverReleases == \E h \in Handles : ReleaseRecv(h)

SenderStep ==
    \/ WaitSend \/ WaitSendTimeout \/ ACKsDrained \/ AcquireSend \/ AcquireSendError
    \/ \E a \in Deliverable(acks) : RecvACK(a)

SenderReleases == \E h \in Handles : ReleaseSend(h)

Loss ==
    \/ \E n \in data : LoseData(n)
    \/ \E a \in acks : LoseACK(a)
    \/ \E n \in Deliverable(data) : AcquireRecvFails(n)
    \/ RecvACKFails

Next == ReceiverStep \/ ReceiverReleases \/ SenderStep \/ SenderReleases \/ Loss

Spec == Init /\ [][Next]_vars

\* The users at both ends keep calling (the server's workers loop until they
\* are told to stop) and give back what they acquire.  ACKsDrained is strongly
\* fair because gratuitous ACKs are a receive timeout apart, while the sender
\* polls without waiting: they cannot keep its inner loop busy for ever.
Fairness ==
    /\ WF_vars(ReceiverStep) /\ SF_vars(ReceiverReleases)
    /\ WF_vars(SenderStep) /\ SF_vars(ACKsDrained) /\ SF_vars(SenderReleases)

-------------------------------------------------------------------------------
\* The flags and where the two callers are.
FlagsOK ==
    /\ txInitial \in BOOLEAN /\ rxInitial \in BOOLEAN /\ misread \in BOOLEAN
    /\ spc \in {"idle", "select", "drain", "ready"}
    /\ rpc \in {"idle", "select"}

\* The counters, and what the network carries.
CountersOK ==
    /\ sent \in Nat /\ acked \in Nat /\ rcvd \in Nat /\ lastAck \in Nat /\ lost \in Nat
    /\ maxInFlight \in Nat
    /\ data \subseteq Nat /\ acks \subseteq Nat

TypeOK == RingOK(tx) /\ RingOK(rx) /\ FlagsOK /\ CountersOK

\* Only datagrams that were sent are received, and only those are
\* acknowledged, on any network and across the wrap.
AckedWasSent ==
    /\ lastAck <= sent /\ rcvd <= sent /\ (~misread => acked <= sent)
    /\ \A a \in acks : a <= sent
    /\ \A n \in data : n < sent

\* On an ordered network every counter is behind the next one on the way: the
\* ACKs in flight, the last ACK, the receiver's position, the datagrams in
\* flight (and the datagrams sent).
Chain ==
    /\ lastAck <= rcvd
    /\ \A a \in acks : a <= lastAck
    /\ \A n \in data : rcvd <= n

\* What the sender knows comes from an ACK, and is behind those in flight.
SenderKnows ==
    /\ acked <= lastAck /\ \A a \in acks : acked <= a
    /\ maxInFlight \in {0, Window}

\* The window, and the handles acquired under it but not sent yet.
WindowKept ==
    /\ spc # "idle" => tx.outstanding < MaxHeld
    /\ spc = "ready" => sent - acked < Window
    /\ sent - acked + tx.outstanding <= Window - 1 + MaxHeld

\* The two ends and the socket stay consistent, whatever is lost and fails: only
\* what was sent is received or acknowledged.  On an ordered network the
\* counters keep their order and, until recvACK uses a header it did not
\* receive, the sender keeps to the window.
FlowInv ==
    /\ TypeOK /\ AckedWasSent
    /\ Ordered => Chain
    /\ Ordered /\ ~misread => SenderKnows /\ WindowKept

\* The datagrams on their way to the receiver never exceed the window it
\* granted (its socket buffer), plus the handles that a user of the direct
\* access API acquired before sending the first of them.
WithinWindow == Ordered => Cardinality(data) <= Window - 1 + MaxHeld

\* Flow control works as long as recvACK receives what it reads.
InFlightBounded == ~misread => WithinWindow

\* A datagram that is not the expected one is always noticed by acquireRecv:
\* as long as the sender keeps to the window no loss is as long as the sequence
\* numbers' period.
NoSilentGap == Ordered /\ ~misread => \A n \in data : n # rcvd => Notices(n)
===============================================================================
