------------------------------ MODULE MCRtlRing ------------------------------
(* RtlRing for TLC; the constants are in the configurations. *)
EXTENDS RtlRing

AllUsers == [direct : BOOLEAN, settingThread : BOOLEAN]
===============================================================================
