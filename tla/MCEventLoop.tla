---------------------------- MODULE MCEventLoop -----------------------------
(* A small instance of EventLoop for TLC: two descriptors that are used    *)
(* again by a third file.                                                  *)
EXTENDS EventLoop
=============================================================================
