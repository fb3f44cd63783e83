---------------------------- MODULE MCConnection ----------------------------
(* A small instance of Connection for TLC: the socket is full before a     *)
(* command is sent, and a client may start to count just below the end.    *)
EXTENDS Connection
=============================================================================
