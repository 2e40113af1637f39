------------------------------ MODULE HandleRing ------------------------------
(***************************************************************************)
(* The acquire and release tracking of a SoapyStreamEndpoint               *)
(* (SoapyRemote/common/SoapyStreamEndpoint.cpp): a circular array of       *)
(* buffers handed out in order, given back in any order, and made          *)
(* available again in order.  The same code is repeated for the receive    *)
(* and for the send direction.  Here it is a relation between the tracking *)
(* data r before and s after a call; EndpointHandles is one endpoint by    *)
(* itself, StreamFlow has one at each end of a connection.                 *)
(*                                                                         *)
(* r.acquired is the set of handles whose BufferData::acquired flag is     *)
(* set.  r.outstanding is the user's side: how many handles it was given   *)
(* and has not given back.                                                 *)
(***************************************************************************)
EXTENDS Integers, FiniteSets

CONSTANT NumBuffs   \* SOAPY_REMOTE_ENDPOINT_NUM_BUFFS

ASSUME NumBuffsAssumption == NumBuffs \in Nat \ {0}

Handles == 0..(NumBuffs - 1)

Ring == [acquired : SUBSET Handles,
         nextAcquire : Handles,
         nextRelease : Handles,
         numAcquired : 0..NumBuffs,
         outstanding : 0..NumBuffs]

EmptyRing == [acquired |-> {}, nextAcquire |-> 0, nextRelease |-> 0, numAcquired |-> 0,
              outstanding |-> 0]

\* The i-th handle after the oldest one that is not available again.
Slot(r, i) == (r.nextRelease + i) % NumBuffs

\* The endpoint refuses to acquire when the user is hoarding every handle.
AllAcquired(r) == r.numAcquired = NumBuffs

Acquire(r, s) ==
    /\ ~AllAcquired(r)
    /\ s = [r EXCEPT !.acquired = @ \cup {r.nextAcquire},
                     !.nextAcquire = (@ + 1) % NumBuffs,
                     !.numAcquired = @ + 1,
                     !.outstanding = @ + 1]

\* k is the number of turns of the loop that makes handles available again:
\* it passes over every handle that is not acquired and stops at the first
\* that is, or when no handle is left.
Freed(r, acq, k) ==
    /\ \A i \in 0..(k - 1) : Slot(r, i) \notin acq
    /\ k < r.numAcquired => Slot(r, k) \in acq

\* Mutant: the loop does not look at the acquired flag.
Release_Unordered(r, h, s) ==
    /\ h \in r.acquired
    /\ s = [r EXCEPT !.acquired = @ \ {h},
                     !.nextRelease = Slot(r, 1),
                     !.numAcquired = @ - 1,
                     !.outstanding = @ - 1]

\* Mutant: the loop is an if, at most one handle is made available.
Release_OneTurn(r, h, s) ==
    /\ h \in r.acquired
    /\ LET k == IF r.nextRelease \in r.acquired \ {h} THEN 0 ELSE 1
       IN s = [r EXCEPT !.acquired = @ \ {h},
                        !.nextRelease = Slot(r, k),
                        !.numAcquired = @ - k,
                        !.outstanding = @ - 1]

Release(r, h, s) ==
    /\ h \in r.acquired
    /\ \E k \in 0..r.numAcquired :
          /\ Freed(r, r.acquired \ {h}, k)
          /\ s = [r EXCEPT !.acquired = @ \ {h},
                           !.nextRelease = Slot(r, k),
                           !.numAcquired = @ - k,
                           !.outstanding = @ - 1]

-------------------------------------------------------------------------------
\* The slots between the release and the acquire index are exactly the
\* numAcquired ones that are not available, and all acquired handles are there.
InWindow(r) ==
    /\ r.nextAcquire = Slot(r, r.numAcquired)
    /\ \A h \in r.acquired : \E i \in 0..(r.numAcquired - 1) : h = Slot(r, i)

\* The release loop always runs as far as it can: the oldest unavailable
\* handle is one the user still holds.
OldestHeld(r) == r.numAcquired # 0 => r.nextRelease \in r.acquired

\* The user holds as many handles as are acquired: none was handed out twice.
CountHeld(r) == r.outstanding = Cardinality(r.acquired)

RingOK(r) == r \in Ring /\ InWindow(r) /\ OldestHeld(r) /\ CountHeld(r)
===============================================================================
