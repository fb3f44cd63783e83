---------------------------- MODULE HostsManager ----------------------------
(***************************************************************************)
(* The host objects of the daemon and the registry that owns them:         *)
(* daemon/src/abstract_host.cpp and daemon/src/hosts_manager.cpp.          *)
(*                                                                         *)
(* A host object is one client connection.  The sets Controllers, Viewers  *)
(* and Renderers are the ADDRESSES such objects are allocated at: the code *)
(* passes raw pointers around, so an address outlives its object and may   *)
(* later hold another one.  state[h] = "Free" means that no object lives   *)
(* at h.                                                                   *)
(*                                                                         *)
(* The daemon is one thread that runs libev callbacks to completion, so    *)
(* each callback is one action.  The module gives the pieces the handlers  *)
(* in Daemon.tla are built from, and the actions of a connection alone.    *)
(***************************************************************************)
EXTENDS Naturals, Sequences, Functions

CONSTANTS
  Controllers,  \* addresses of ControllerHost objects
  Viewers,      \* addresses of ViewerHost objects
  Renderers,    \* addresses of RendererHost objects
  NULL          \* the null pointer

ASSUME HostKindsDisjoint ==
  /\ Controllers \cap Viewers = {}
  /\ Controllers \cap Renderers = {}
  /\ Viewers \cap Renderers = {}

Hosts == Controllers \cup Viewers \cup Renderers

ASSUME NullIsNoHost == NULL \notin Hosts

VARIABLES
  state,       \* AbstractHost::state, "Free" when there is no object
  hosts,       \* HostsManager::hosts: the hosts an id can be resolved to
  scheduled,   \* HostsManager::hostsScheduledForDeletion
  unsent,      \* renderers whose sendBuffer is not empty
  fault        \* why the process died, "none" while it runs

hostVars == <<state, hosts, scheduled, unsent>>

ConnectionStates == {"Connected", "Established", "Disconnecting", "Disconnected"}

(* What ends the process: an exception no frame of the event loop catches, *)
(* or undefined behaviour with the kind of object it touched.              *)
Faults == {"io error", "shutdown of a closed socket",
           "null renderer", "freed view", "freed host"}

Running == fault = "none"

Allocated(h) == state[h] # "Free"

(* closeSocket has run: both watchers are stopped and the fd is closed.    *)
Closed(h) == h \in Range(scheduled)

-----------------------------------------------------------------------------
(* Sending.  sendPackage drops everything unless the connection is up; the *)
(* buffers of viewers and controllers are never looked at again, so only   *)
(* those of renderers are kept.                                            *)

CanSend(h) == state[h] \in {"Connected", "Established"}

SentTo(R) == unsent \cup {r \in R : CanSend(r)}

-----------------------------------------------------------------------------
(* AbstractHost::shutdownHost on the pointer r, which the callers do not   *)
(* check.  With data still buffered the half-close is left to              *)
(* writeCallback.  Without, shutdown(2) is called at once: on the number   *)
(* of a closed descriptor it throws, unless another connection has reused  *)
(* the number.                                                             *)

ShutdownFaults(r) ==
  {f \in Faults :
     \/ f = "null renderer" /\ r = NULL
     \/ f = "freed host" /\ r # NULL /\ ~Allocated(r)
     \/ f = "shutdown of a closed socket" /\ r # NULL /\ Closed(r) /\ r \notin unsent}

StateAfterShutdown(r) ==
  IF r # NULL /\ Allocated(r) THEN [state EXCEPT ![r] = "Disconnecting"] ELSE state

-----------------------------------------------------------------------------
(* Mutant of Accept: the constructor leaves the state Uninitialized.       *)
AcceptUninitialized(h) ==
  /\ ~Allocated(h)
  /\ state' = [state EXCEPT ![h] = "Uninitialized"]
  /\ hosts' = hosts \cup {h}
  /\ UNCHANGED <<scheduled, unsent, fault>>

(* An IPC listener accepts a client and registers the new host object.     *)
Accept(h) ==
  /\ ~Allocated(h)
  /\ state' = [state EXCEPT ![h] = "Connected"]
  /\ hosts' = hosts \cup {h}
  /\ UNCHANGED <<scheduled, unsent, fault>>

(* Mutant of ReadEOF: the host's id stays in HostsManager::hosts.          *)
ReadEOFKeepsId(h) ==
  /\ Allocated(h) /\ ~Closed(h)
  /\ state' = [state EXCEPT ![h] = "Disconnected"]
  /\ scheduled' = IF h \in hosts THEN Append(scheduled, h) ELSE scheduled
  /\ UNCHANGED <<hosts, unsent, fault>>

(* readCallback reads end-of-file: closeSocket closes the descriptor and   *)
(* hands the object to the idle watcher.                                   *)
ReadEOF(h) ==
  /\ Allocated(h) /\ ~Closed(h)
  /\ state' = [state EXCEPT ![h] = "Disconnected"]
  /\ hosts' = hosts \ {h}
  /\ scheduled' = IF h \in hosts THEN Append(scheduled, h) ELSE scheduled
  /\ UNCHANGED <<unsent, fault>>

(* writeCallback empties the send buffer of r; a Disconnecting host then   *)
(* shuts its write half down, which changes nothing that is kept here.     *)
WriteDrains(r) ==
  /\ r \in unsent /\ ~Closed(r)
  /\ unsent' = unsent \ {r}
  /\ UNCHANGED <<state, hosts, scheduled, fault>>
=============================================================================
