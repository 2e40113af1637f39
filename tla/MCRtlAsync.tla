---------------------------- MODULE MCRtlAsync ----------------------------
(* Two transfers and two activations: enough for one transfer to fail,   *)
(* one to complete, and a later call to meet what an earlier one left.     *)
EXTENDS RtlAsync
=============================================================================
