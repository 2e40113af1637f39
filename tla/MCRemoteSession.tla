-------------------------- MODULE MCRemoteSession --------------------------
(* Two threads of the application, so that calls compete for the mutex, and *)
(* two calls, so that one can be given up and its reply come to the other.  *)
EXTENDS RemoteSession
=============================================================================
