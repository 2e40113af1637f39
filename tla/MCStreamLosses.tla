---------------------------- MODULE MCStreamLosses ----------------------------
(***************************************************************************)
(* StreamLosses for TLC.  The window takes two lost ACKs, or one and a     *)
(* datagram, to be lost.                                                   *)
(***************************************************************************)
EXTENDS StreamLosses
===============================================================================
