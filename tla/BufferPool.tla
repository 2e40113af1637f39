------------------------------ MODULE BufferPool ------------------------------
(***************************************************************************)
(* What the direct buffer access API promises its user, whatever the       *)
(* driver behind it: a buffer handed out by acquire belongs to the user    *)
(* until it is released, so acquire only ever hands out a buffer nobody    *)
(* holds.  SoapySDR/include/SoapySDR/Device.hpp, "Direct buffer access     *)
(* API"; the implementations are EndpointHandles (SoapyRemote) and RtlRing *)
(* (SoapyRTLSDR).                                                          *)
(***************************************************************************)
EXTENDS Integers

CONSTANT Buffers

VARIABLES held,          \* the buffers in the hands of the user
          outstanding    \* acquire calls not yet matched by a release

vars == <<held, outstanding>>

Init == held = {} /\ outstanding = 0

\* acquireReadBuffer / acquireWriteBuffer
Acquire(b) == /\ b \notin held
              /\ held' = held \cup {b}
              /\ outstanding' = outstanding + 1

\* releaseReadBuffer / releaseWriteBuffer
Release(b) == /\ b \in held
              /\ held' = held \ {b}
              /\ outstanding' = outstanding - 1

Next == \E b \in Buffers : Acquire(b) \/ Release(b)

Spec == Init /\ [][Next]_vars
===============================================================================
