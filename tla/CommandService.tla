--------------------------- MODULE CommandService ---------------------------
(***************************************************************************)
(* What a controller is promised for each command and request it sends:    *)
(* the daemon may settle it at once, or ask some peers (the renderer, or a *)
(* viewer and a renderer) to do it, and then answers exactly once, and     *)
(* only after every peer it asked has answered.  It is allowed to lose a   *)
(* command silently.  The tables with which the daemon keeps this promise  *)
(* are in JobManager.tla.                                                  *)
(***************************************************************************)

CONSTANTS
  Commands,  \* the commands and requests controllers send
  Peers      \* the viewers and renderers they may be passed on to

VARIABLES
  owed,      \* the peers whose answer a command still waits for
  reply      \* what the controller has heard of a command

Init ==
  /\ owed = [k \in Commands |-> {}]
  /\ reply = [k \in Commands |-> "none"]

(* The daemon passes k on to the peers P.                                  *)
Ask(k, P) ==
  /\ reply[k] = "none" /\ P # {}
  /\ owed' = [owed EXCEPT ![k] = P]
  /\ reply' = [reply EXCEPT ![k] = "waiting"]

(* The daemon acts on k itself, reports an error, or drops it.             *)
Settle(k) ==
  /\ reply[k] = "none"
  /\ \E answer \in {"done", "failed", "lost"} : reply' = [reply EXCEPT ![k] = answer]
  /\ UNCHANGED owed

(* The answer of p arrives.  The last one is passed on to the controller,  *)
(* which may have gone.                                                    *)
Answer(k, p) ==
  /\ reply[k] = "waiting" /\ p \in owed[k]
  /\ owed' = [owed EXCEPT ![k] = @ \ {p}]
  /\ IF owed[k] = {p}
     THEN \E answer \in {"done", "unheard"} : reply' = [reply EXCEPT ![k] = answer]
     ELSE UNCHANGED reply

Next ==
  \E k \in Commands :
    \/ \E P \in SUBSET Peers : Ask(k, P)
    \/ Settle(k)
    \/ \E p \in Peers : Answer(k, p)

Spec == Init /\ [][Next]_<<owed, reply>>
=============================================================================
