----------------------------- MODULE MCDiscovery -----------------------------
(* Discovery with a server and two clients.                                 *)
EXTENDS Discovery, TLC

\* The clients are interchangeable.
ClientsAlike == Permutations(Clients)
===============================================================================
