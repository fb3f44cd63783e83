--------------------------- MODULE MCTabbedViewer ---------------------------
(* A small instance of TabbedViewer for TLC: two views, as two tabs or     *)
(* one after the other at the same address.                                *)
EXTENDS TabbedViewer
=============================================================================
