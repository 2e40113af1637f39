--------------------------- MODULE EndpointHandles ---------------------------
(***************************************************************************)
(* One SoapyStreamEndpoint and its user: the handles of one direction are  *)
(* acquired and released in every order the user may choose.               *)
(***************************************************************************)
EXTENDS HandleRing

VARIABLE ring

HandlesInit == ring = EmptyRing

AcquireHandle == Acquire(ring, ring')
ReleaseHandle(h) == Release(ring, h, ring')

HandlesNext == AcquireHandle \/ \E h \in Handles : ReleaseHandle(h)

HandlesSpec == HandlesInit /\ [][HandlesNext]_ring

-------------------------------------------------------------------------------
\* The tracking data is consistent: type, window of unavailable handles, oldest
\* one held, as many acquired as the user has.
IInv == RingOK(ring)

\* When the hoarding check lets a caller through, the buffer that acquireRecv
\* is about to receive into (and both acquires to hand out) is not one that a
\* user still reads or fills, whatever order the others were released in.
NextIsFree == ~AllAcquired(ring) => ring.nextAcquire \notin ring.acquired

\* No handle is lost: a user that has given back all it acquired can acquire
\* getNumBuffs() buffers again, in whatever order they were given back.
AllReturnable == ring.acquired = {} => ring.numAcquired = 0

\* The endpoint is a buffer pool: acquireRecv and acquireSend hand out buffers
\* that nobody holds, releaseRecv and releaseSend take back the one they are
\* given and no other.
Pool == INSTANCE BufferPool WITH Buffers <- Handles, held <- ring.acquired,
                                 outstanding <- ring.outstanding
PoolSpec == Pool!Spec
===============================================================================
