----------------------------- MODULE MCStreamFlow -----------------------------
(***************************************************************************)
(* StreamFlow for TLC; the constants are in the configuration.  SeqMod is  *)
(* small enough for the sequence numbers to wrap within MaxSent datagrams. *)
(***************************************************************************)
EXTENDS StreamFlow
===============================================================================
