--------------------------- MODULE LifecycleProofs ---------------------------
(***************************************************************************)
(* Proof that daemons which end in order leave no socket file behind,      *)
(* however many of them there are, and whatever overlaps.                  *)
(***************************************************************************)
EXTENDS Lifecycle, TLAPS

Stages ==
  {"off", "bind", "start", "loop", "unlooped", "destroyed", "stuck", "ended", "crashed"}

TypeOK ==
  /\ at \in [Daemons -> Stages]
  /\ listening \in [Daemons -> SUBSET (Daemons \cup Renderers)]
  /\ holders \in [Clients \cup Renderers -> SUBSET (Daemons \cup Renderers)]
  /\ path \in Daemons \cup {Nobody}

(* The path leads to a daemon that holds its own listening socket and has  *)
(* not been asked to end: a daemon that ends in order passes through       *)
(* "unlooped", and then the path has been removed already.                 *)
Inv == TypeOK /\ NoStaleSocket

-----------------------------------------------------------------------------
LEMMA InitInv == Init => Inv
BY NobodyIsNoProcess DEF Init, Inv, TypeOK, NoStaleSocket, Stages

(* What leaves the listening sockets, the path and the stages alone.       *)
LEMMA OthersKeepInv ==
  ASSUME Inv, UNCHANGED <<at, path, listening>>,
         holders' \in [Clients \cup Renderers -> SUBSET (Daemons \cup Renderers)]
  PROVE  Inv'
BY DEF Inv, TypeOK, NoStaleSocket

(* A daemon that has stopped has removed the path, whoever's it was.       *)
LEMMA StopKeepsInv ==
  ASSUME Inv, NEW d \in Daemons, Stop(d), UNCHANGED holders,
         at' = [at EXCEPT ![d] = "unlooped"]
  PROVE  Inv'
BY DEF Inv, TypeOK, NoStaleSocket, Stop, Stages

(* A process that ends takes itself from every socket: to the path that    *)
(* matters only if it is the daemon that the path leads to.                *)
LEMMA EndedKeepsTypes ==
  ASSUME TypeOK, NEW p, Ended(p)
  PROVE  /\ listening' \in [Daemons -> SUBSET (Daemons \cup Renderers)]
         /\ holders' \in [Clients \cup Renderers -> SUBSET (Daemons \cup Renderers)]
         /\ \A e \in Daemons : e # p /\ e \in listening[e] => e \in listening'[e]
BY DEF TypeOK, Ended

LEMMA DaemonEndsKeepsInv ==
  ASSUME Inv, NEW d \in Daemons, NEW stage \in {"ended", "crashed"}, Ended(d), UNCHANGED path,
         at' = [at EXCEPT ![d] = stage],
         path = d => stage = "crashed"
  PROVE  Inv'
<1>1. TypeOK'
  BY EndedKeepsTypes DEF Inv, TypeOK, Stages
<1>2. ASSUME path # Nobody, path # d
      PROVE  NoStaleSocket'
  <2>1. path \in Daemons /\ at'[path] = at[path]
    BY <1>2 DEF Inv, TypeOK
  <2> QED BY <1>2, <2>1, EndedKeepsTypes DEF Inv, NoStaleSocket
<1>3. ASSUME path = d
      PROVE  NoStaleSocket'
  BY <1>3 DEF Inv, TypeOK, NoStaleSocket
<1> QED BY <1>1, <1>2, <1>3 DEF Inv, NoStaleSocket

-----------------------------------------------------------------------------
(* The main program of a daemon.                                           *)
LEMMA MainKeepsInv ==
  ASSUME Inv, NEW d \in Daemons, Main(d)
  PROVE  Inv'
<1>1. CASE BindPath(d)
  <2>1. TypeOK'
    BY <1>1 DEF BindPath, Inv, TypeOK, Stages
  <2>2. ASSUME path = Nobody
        PROVE  NoStaleSocket'
    BY <1>1, <2>2, NobodyIsNoProcess DEF BindPath, Inv, TypeOK, NoStaleSocket
  <2>3. ASSUME path # Nobody
        PROVE  NoStaleSocket'
    BY <1>1, <2>3 DEF BindPath, Inv, TypeOK, NoStaleSocket
  <2> QED BY <2>1, <2>2, <2>3 DEF Inv
<1>2. CASE StartListening(d)
  BY <1>2 DEF StartListening, socketVars, Inv, TypeOK, NoStaleSocket, Stages
<1>3. CASE Destroy(d)
  BY <1>3 DEF Destroy, Inv, TypeOK, NoStaleSocket, Stages
<1>4. CASE DestroyConfiguration(d)
  <2>1. path # d
    BY <1>4, NobodyIsNoProcess DEF DestroyConfiguration, Inv, TypeOK, NoStaleSocket
  <2>2. CASE at' = [at EXCEPT ![d] = "ended"] /\ Ended(d)
    BY <1>4, <2>1, <2>2, DaemonEndsKeepsInv DEF DestroyConfiguration
  <2>3. CASE at' = [at EXCEPT ![d] = "stuck"] /\ UNCHANGED <<holders, listening>>
    BY <1>4, <2>1, <2>3 DEF DestroyConfiguration, Inv, TypeOK, NoStaleSocket, Stages
  <2> QED BY <1>4, <2>2, <2>3 DEF DestroyConfiguration
<1>5. CASE SignalPipeCallback(d)
  BY <1>5, StopKeepsInv DEF SignalPipeCallback
<1>6. ASSUME NEW c \in Clients, AcceptClient(d, c)
      PROVE  Inv'
  BY <1>6, OthersKeepInv DEF AcceptClient, daemonVars, Inv, TypeOK
<1>7. ASSUME NEW c \in Clients, Initialize(d, c) \/ SpawnNoRenderer(d, c)
      PROVE  Inv'
  BY <1>7, OthersKeepInv DEF Initialize, SpawnNoRenderer, Inv, TypeOK
<1>8. ASSUME NEW c \in Clients, QuitServer(d, c)
      PROVE  Inv'
  BY <1>8, StopKeepsInv DEF QuitServer
<1>9. ASSUME NEW c \in Clients, NEW r \in Renderers, SpawnRenderer(d, c, r)
      PROVE  Inv'
  <2>1. holders' \in [Clients \cup Renderers -> SUBSET (Daemons \cup Renderers)]
    BY <1>9 DEF SpawnRenderer, Inherited, Inv, TypeOK
  <2>2. /\ listening' \in [Daemons -> SUBSET (Daemons \cup Renderers)]
        /\ \A e \in Daemons : listening[e] \subseteq listening'[e]
    BY <1>9 DEF SpawnRenderer, Inv, TypeOK
  <2>3. UNCHANGED <<at, path>>
    BY <1>9 DEF SpawnRenderer
  <2> QED BY <2>1, <2>2, <2>3 DEF Inv, TypeOK, NoStaleSocket
<1>10. ASSUME NEW c \in Clients, WriteAcknowledgement(d, c)
       PROVE  Inv'
  BY <1>10, OthersKeepInv DEF WriteAcknowledgement, daemonVars, socketVars, Inv, TypeOK
<1>11. ASSUME NEW c \in Clients, IoError(d, c)
       PROVE  Inv'
  BY <1>11, DaemonEndsKeepsInv DEF IoError
<1>12. ASSUME NEW c \in Clients, ReadEOF(d, c)
       PROVE  Inv'
  BY <1>12, OthersKeepInv DEF ReadEOF, daemonVars, Inv, TypeOK
<1> QED BY <1>1, <1>2, <1>3, <1>4, <1>5, <1>6, <1>7, <1>8, <1>9, <1>10, <1>11, <1>12 DEF Main

LEMMA SystemKeepsInv ==
  ASSUME Inv, System
  PROVE  Inv'
<1>1. ASSUME NEW d \in Daemons, SignalThread(d)
      PROVE  Inv'
  BY <1>1, OthersKeepInv DEF SignalThread, socketVars, Inv, TypeOK
<1>2. ASSUME NEW r \in Renderers, RendererEnds(r)
      PROVE  Inv'
  <2>1. \A e \in Daemons : e # r
    BY ProcessesDiffer
  <2>2. UNCHANGED <<at, path>> /\ Ended(r)
    BY <1>2 DEF RendererEnds, daemonVars
  <2> QED BY <2>1, <2>2, EndedKeepsTypes DEF Inv, TypeOK, NoStaleSocket
<1>3. ASSUME NEW c \in Clients, Client(c)
      PROVE  Inv'
  BY <1>3, OthersKeepInv
     DEF Client, ReadAcknowledgement, SocketClosed, daemonVars, socketVars, Inv, TypeOK
<1> QED BY <1>1, <1>2, <1>3, MainKeepsInv DEF System

LEMMA PeopleKeepInv ==
  ASSUME Inv, People
  PROVE  Inv'
<1>1. ASSUME NEW d \in Daemons, StartDaemon(d)
      PROVE  Inv'
  BY <1>1 DEF StartDaemon, Inv, TypeOK, NoStaleSocket, Stages
<1>2. ASSUME NEW d \in Daemons, Terminate(d)
      PROVE  Inv'
  BY <1>2, OthersKeepInv DEF Terminate, socketVars, Inv, TypeOK
<1>3. ASSUME NEW c \in Clients, StartClient(c)
      PROVE  Inv'
  BY <1>3, OthersKeepInv DEF StartClient, daemonVars, Inv, TypeOK
<1>4. ASSUME NEW c \in Clients, SendCommand(c) \/ Quit(c)
      PROVE  Inv'
  BY <1>4, OthersKeepInv DEF SendCommand, Quit, daemonVars, socketVars, Inv, TypeOK
<1> QED BY <1>1, <1>2, <1>3, <1>4 DEF People

LEMMA NextKeepsInv == Inv /\ [Next]_vars => Inv'
<1>1. ASSUME Inv, UNCHANGED vars
      PROVE  Inv'
  BY <1>1, OthersKeepInv DEF vars, daemonVars, socketVars, Inv, TypeOK
<1> QED BY <1>1, SystemKeepsInv, PeopleKeepInv DEF Next

(* A socket file that leads to no listening daemon was left behind by a    *)
(* daemon that crashed: never by one that got a signal or a quit-server,   *)
(* and not by two that start or end at once, or by one whose renderers     *)
(* still hold its sockets.  (ServerController::stop, the constructor and   *)
(* the destructor of IPCListener)                                          *)
THEOREM NoSocketIsStale == Spec => []NoStaleSocket
<1>1. Inv => NoStaleSocket
  BY DEF Inv
<1> QED BY <1>1, InitInv, NextKeepsInv, PTL DEF Spec
=============================================================================
