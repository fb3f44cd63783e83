------------------------------ MODULE MCDaemon ------------------------------
(* Small instances of Daemon for TLC.  Addresses are model values; none of *)
(* them is distinguished, so all of them may be permuted.                  *)
EXTENDS Daemon, TLC

Symmetry == Permutations(Viewers) \cup Permutations(Renderers)
              \cup Permutations(Views) \cup Permutations(ViewIds)

(* What a dead process had in memory is of no interest.                    *)
AliveOrFault == IF Running THEN vars ELSE <<fault>>
=============================================================================
