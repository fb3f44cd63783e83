---------------------------- MODULE MCJobManager ----------------------------
(* A small instance of JobManager for TLC: one host of each kind, and      *)
(* enough jobs for a command that waits for a view, which waits for a      *)
(* renderer, while another one is asked for.                               *)
EXTENDS JobManager
=============================================================================
