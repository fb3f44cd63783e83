--------------------------- MODULE MCPersistence ----------------------------
(* A small instance of Persistence for TLC: one file, of one record at     *)
(* first, and two storages, so that a storage can be retrieved while the   *)
(* previous one of that name waits for the sync thread.                    *)
EXTENDS Persistence, TLC

Lines == <<1>>

Symmetry == Permutations(Storages)
=============================================================================
