---------------------------- MODULE WriteBehind -----------------------------
(* What a write-behind table promises of each of its records: the file     *)
(* follows the memory.  `told` is the version of a record that the program *)
(* has stored last, `kept` the version in the file (0: none).  The file    *)
(* may lag behind and skip versions, but it never goes back, and never     *)
(* holds what the program has not stored.                                  *)
EXTENDS Naturals

CONSTANT Slots

VARIABLES told, kept

table == <<told, kept>>

Init == told = [s \in Slots |-> 0] /\ kept = [s \in Slots |-> 0]

Change(s) ==
  /\ told'[s] \in Nat
  /\ told'[s] > told[s]
  /\ told' = [told EXCEPT ![s] = told'[s]]
  /\ UNCHANGED kept

Keep(s) ==
  /\ kept'[s] \in (kept[s] + 1)..told[s]
  /\ kept' = [kept EXCEPT ![s] = kept'[s]]
  /\ UNCHANGED told

Untouched(s) == told'[s] = told[s] /\ kept'[s] = kept[s]

(* Records that appear when a file is read are in the file.                *)
Load == \A s \in Slots : Untouched(s) \/ (told[s] = 0 /\ kept'[s] = told'[s])

(* Records are removed, or their storage is given up, or the process ends. *)
Forget == \A s \in Slots : Untouched(s) \/ (told'[s] = 0 /\ kept'[s] = 0)

Next ==
  \/ \E s \in Slots : Change(s) \/ Keep(s)
  \/ Load
  \/ Forget

Promise == Init /\ [][Next]_table
=============================================================================
