----------------------------- MODULE StreamLosses -----------------------------
(***************************************************************************)
(* What the losses of a stream (StreamFlow) may amount to before the two   *)
(* ends wait on each other for good.  The receiver acknowledges every      *)
(* TriggerAckWindow datagrams and never repeats an ACK; the sender waits   *)
(* for the next one when its window is full.                               *)
(***************************************************************************)
EXTENDS StreamFlow

VARIABLE gone    \* history: the datagrams and the ACKs that were lost and would
                 \*   tell of more than the sender knows

\* A step of the network, or a receive that fails, loses what it removes.
Record ==
    LET lose(before, after) == IF lost' = lost THEN {} ELSE before \ after
    IN gone' = [data |-> {n \in gone.data \cup lose(data, data') : n >= acked'},
                acks |-> {a \in gone.acks \cup lose(acks, acks') : a > acked'}]

LossSpec ==
    /\ Init /\ gone = [data |-> {}, acks |-> {}]
    /\ [][Next /\ Record]_<<vars, gone>>
    /\ Fairness

\* The datagrams from one ACK to the next, when none of them is lost.
AckDistance == IF Window < NumBuffs THEN 1 ELSE Window \div NumBuffs

\* What was lost since the position the sender knows covers all of a window but
\* the datagrams for which no ACK was due: each lost ACK stands for those since
\* the one before it, each lost datagram for itself.
WindowLost ==
    AckDistance * Cardinality(gone.acks) + Cardinality(gone.data) > Window - AckDistance

\* The sender gets through its stream, although waitSend waits for an ACK that
\* nobody repeats: acquireRecv sends the next one before the window is used up.
\* Only when the losses cover a window do the two ends wait for good.
NeverStalls == <>(sent = MaxSent) \/ <>[]WindowLost

\* When nothing is lost the receiver gets every datagram that is sent.
AllDelivered == [](lost = 0) => <>(rcvd = MaxSent)
===============================================================================
