----------------------------- MODULE MCLogStream -----------------------------
(* LogStream with two users of one server, two connections and room for one *)
(* message, so that a connection is replaced and the logger waits.          *)
EXTENDS LogStream
===============================================================================
