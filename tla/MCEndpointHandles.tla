--------------------------- MODULE MCEndpointHandles ---------------------------
(***************************************************************************)
(* EndpointHandles for TLC.  NumBuffs is 8 in the code; 5 is enough for    *)
(* every shape of the window (it wraps, it is full, it has holes).         *)
(***************************************************************************)
EXTENDS EndpointHandles
===============================================================================
