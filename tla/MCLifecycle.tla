---------------------------- MODULE MCLifecycle -----------------------------
(* A small instance of Lifecycle for TLC: a daemon and a second one, at    *)
(* once or one after the other, two clients, and a renderer that inherits. *)
EXTENDS Lifecycle
=============================================================================
