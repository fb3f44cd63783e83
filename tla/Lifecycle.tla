------------------------------ MODULE Lifecycle ------------------------------
(* How processes start and end: daemons (ServerController, IPCListener,    *)
(* main), one after the other or at once, CLI controllers, and the         *)
(* renderers that a daemon forks, with the descriptors they inherit.       *)
(*                                                                         *)
(* The two listeners of a daemon are set up and closed together and alike: *)
(* one is modelled.  A socket at the daemon's side is known by whom it     *)
(* leads to, and exists until the last process that holds it has closed it *)
(* or ended; no descriptor is closed when a renderer is executed.          *)
(*                                                                         *)
(* Abstracted: what commands do, except spawn-renderer and quit-server     *)
(* (see JobManager); what connections do between start and end (see        *)
(* Connection); renderers do nothing but end.                              *)
EXTENDS Naturals, FiniteSets

CONSTANTS
  Daemons, Clients,             \* processes, numbered as they start
  Renderers,                    \* processes
  Nobody,
  MaxCommands                   \* bound: commands a client sends

ASSUME NobodyIsNoProcess == Nobody \notin Daemons \cup Clients \cup Renderers
ASSUME ProcessesAreNumbered == Daemons \cup Clients \subseteq Nat
ASSUME ProcessesDiffer == Daemons \cap Clients = {} /\ Renderers \cap (Daemons \cup Clients) = {}
ASSUME MaxCommandsIsNat == MaxCommands \in Nat

VARIABLES
  state,      \* daemon -> its ServerState
  at,         \* daemon -> how far its main program is
  signalled,  \* daemon -> "no", "pending", "in pipe" or "read"
  path,       \* the daemon whose socket the path in the file system leads to
  listening,  \* daemon -> the processes that hold its listening socket
  holders,    \* client or renderer -> those that hold the daemon's end
  backlog,    \* daemon -> clients that it has not accepted
  outgoing,   \* clients with an acknowledgement in the daemon's send buffer
  cli,        \* client -> "off", "waiting", "prompt", "ended"
  server,     \* client -> the daemon it is connected to
  command,    \* client -> the command it has sent that was not read
  acked,      \* client -> an acknowledgement has arrived
  sent,       \* client -> the number of commands sent
  parent      \* renderer -> the daemon that forked it; Nobody if not alive

daemonVars == <<state, at, signalled>>
socketVars == <<path, listening, holders, backlog>>
clientVars == <<cli, server, command, sent>>
vars == <<daemonVars, socketVars, outgoing, clientVars, acked, parent>>

None == "none"
Commands == {"initialize", "spawn-renderer", "quit-server"}

Init ==
  /\ state = [d \in Daemons |-> "Uninitialized"]
  /\ at = [d \in Daemons |-> "off"]
  /\ signalled = [d \in Daemons |-> "no"]
  /\ path = Nobody
  /\ listening = [d \in Daemons |-> {}]
  /\ holders = [x \in Clients \cup Renderers |-> {}]
  /\ backlog = [d \in Daemons |-> {}]
  /\ outgoing = {}
  /\ cli = [c \in Clients |-> "off"]
  /\ server = [c \in Clients |-> Nobody]
  /\ command = [c \in Clients |-> None]
  /\ acked = [c \in Clients |-> FALSE]
  /\ sent = [c \in Clients |-> 0]
  /\ parent = [r \in Renderers |-> Nobody]

(* A process ends: the system closes what it holds.                        *)
Ended(p) ==
  /\ holders' = [x \in DOMAIN holders |-> holders[x] \ {p}]
  /\ listening' = [d \in Daemons |-> listening[d] \ {p}]
-----------------------------------------------------------------------------
(* A daemon starts.                                                        *)

(* main, and the constructor up to that of the listener: signals are       *)
(* blocked, the thread that waits for them started, the configuration      *)
(* read, and whatever is at the path removed ...                           *)
StartDaemon(d) ==
  /\ at[d] = "off"
  /\ \A e \in Daemons : e < d => at[e] # "off"
  /\ at' = [at EXCEPT ![d] = "bind"]
  /\ state' = [state EXCEPT ![d] = "Initializing"]
  /\ path' = Nobody
  /\ UNCHANGED <<signalled, listening, holders, backlog, outgoing, clientVars, acked, parent>>

(* ... and binds, which fails, and ends the process, if another daemon has *)
(* bound in between.                                                       *)
BindPath(d) ==
  /\ at[d] = "bind"
  /\ IF path = Nobody
     THEN /\ path' = d
          /\ listening' = [listening EXCEPT ![d] = {d}]
          /\ at' = [at EXCEPT ![d] = "start"]
          /\ state' = [state EXCEPT ![d] = "Initialized"]
     ELSE /\ at' = [at EXCEPT ![d] = "crashed"]
          /\ UNCHANGED <<path, listening, state>>
  /\ UNCHANGED <<signalled, holders, backlog, outgoing, clientVars, acked, parent>>

(* start.                                                                  *)
StartListening(d) ==
  /\ at[d] = "start"
  /\ at' = [at EXCEPT ![d] = "loop"]
  /\ state' = [state EXCEPT ![d] = "Running"]
  /\ UNCHANGED <<signalled, socketVars, outgoing, clientVars, acked, parent>>
-----------------------------------------------------------------------------
(* The event loop.  unloop lets the callbacks run that are pending: until  *)
(* then the daemon is "unlooped".                                          *)
Looping(d) == at[d] \in {"loop", "unlooped"}

AcceptClient(d, c) ==
  /\ at[d] = "loop"
  /\ c \in backlog[d]
  /\ backlog' = [backlog EXCEPT ![d] = @ \ {c}]
  /\ holders' = [holders EXCEPT ![c] = {d}]
  /\ UNCHANGED <<daemonVars, path, listening, outgoing, clientVars, acked, parent>>

(* Mutant: the socket file stays.                                          *)
StopKeepsPath(d) ==
  /\ listening' = [listening EXCEPT ![d] = @ \ {d}]
  /\ state' = [state EXCEPT ![d] = "Initialized"]
  /\ UNCHANGED path

(* stop: the listener is closed and what is at the path removed.           *)
Stop(d) ==
  /\ path' = Nobody
  /\ listening' = [listening EXCEPT ![d] = @ \ {d}]
  /\ state' = [state EXCEPT ![d] = "Initialized"]

(* waitForSignals: a signal goes to the pipe, and the thread ends.         *)
SignalThread(d) ==
  /\ at[d] \notin {"off", "ended", "crashed"}
  /\ signalled[d] = "pending"
  /\ signalled' = [signalled EXCEPT ![d] = "in pipe"]
  /\ UNCHANGED <<state, at, socketVars, outgoing, clientVars, acked, parent>>

(* Mutant: the loop goes on.                                               *)
SignalKeepsLoop(d) ==
  /\ Looping(d)
  /\ signalled[d] = "in pipe"
  /\ signalled' = [signalled EXCEPT ![d] = "read"]
  /\ Stop(d)
  /\ UNCHANGED <<at, holders, backlog, outgoing, clientVars, acked, parent>>

SignalPipeCallback(d) ==
  /\ Looping(d)
  /\ signalled[d] = "in pipe"
  /\ signalled' = [signalled EXCEPT ![d] = "read"]
  /\ at' = [at EXCEPT ![d] = "unlooped"]
  /\ Stop(d)
  /\ UNCHANGED <<holders, backlog, outgoing, clientVars, acked, parent>>

(* A command of a client is read.  What is acknowledged after unloop is    *)
(* put into a send buffer that nobody will flush.                          *)
Reads(d, c) ==
  /\ Looping(d) /\ d \in holders[c]
  /\ command[c] # None
  /\ command' = [command EXCEPT ![c] = None]
  /\ UNCHANGED <<signalled, backlog, cli, server, sent, acked>>

Acknowledge(d, c) == outgoing' = IF at[d] = "loop" THEN outgoing \cup {c} ELSE outgoing

Initialize(d, c) ==
  /\ command[c] = "initialize"
  /\ Reads(d, c)
  /\ Acknowledge(d, c)
  /\ UNCHANGED <<at, state, path, listening, holders, parent>>

(* A renderer is forked, and holds all that the daemon holds.  (Its side   *)
(* of its own connection is closed in the daemon, and the other way round.)*)
Inherited(d, r) == [x \in DOMAIN holders |->
  IF x = r THEN {d} ELSE IF d \in holders[x] THEN holders[x] \cup {r} ELSE holders[x]]

SpawnRenderer(d, c, r) ==
  /\ command[c] = "spawn-renderer"
  /\ parent[r] = Nobody /\ holders[r] = {}
  /\ Reads(d, c)
  /\ Acknowledge(d, c)
  /\ parent' = [parent EXCEPT ![r] = d]
  /\ holders' = Inherited(d, r)
  /\ listening' = [e \in Daemons |->
       IF d \in listening[e] THEN listening[e] \cup {r} ELSE listening[e]]
  /\ UNCHANGED <<at, state, path>>

(* Bound: no other renderer.                                               *)
SpawnNoRenderer(d, c) ==
  /\ command[c] = "spawn-renderer"
  /\ \A r \in Renderers : parent[r] # Nobody \/ holders[r] # {}
  /\ Reads(d, c)
  /\ Acknowledge(d, c)
  /\ UNCHANGED <<at, state, path, listening, holders, parent>>

(* quit-server is acknowledged before the loop is left, to no avail.       *)
QuitServer(d, c) ==
  /\ command[c] = "quit-server"
  /\ Reads(d, c)
  /\ at' = [at EXCEPT ![d] = "unlooped"]
  /\ Stop(d)
  /\ UNCHANGED <<outgoing, holders, parent>>

(* The write callback.  If the client is gone it throws, and nobody        *)
(* catches; so does the read callback if the client has left unread data.  *)
WriteAcknowledgement(d, c) ==
  /\ Looping(d) /\ d \in holders[c]
  /\ c \in outgoing /\ cli[c] # "ended"
  /\ outgoing' = outgoing \ {c}
  /\ acked' = [acked EXCEPT ![c] = TRUE]
  /\ UNCHANGED <<daemonVars, socketVars, clientVars, parent>>

IoError(d, c) ==
  /\ Looping(d) /\ d \in holders[c]
  /\ cli[c] = "ended" /\ (c \in outgoing \/ acked[c])
  /\ at' = [at EXCEPT ![d] = "crashed"]
  /\ Ended(d)
  /\ UNCHANGED <<state, signalled, path, backlog, outgoing, clientVars, acked, parent>>

(* Otherwise it reads the end of file.                                     *)
ReadEOF(d, c) ==
  /\ Looping(d) /\ d \in holders[c]
  /\ cli[c] = "ended" /\ command[c] = None /\ c \notin outgoing /\ ~acked[c]
  /\ holders' = [holders EXCEPT ![c] = @ \ {d}]
  /\ UNCHANGED <<daemonVars, path, listening, backlog, outgoing, clientVars, acked, parent>>

(* ~ServerController: the state in which nothing may block; connections    *)
(* stay open, and the destructor of IPCListener closes and removes what it *)
(* has closed and removed before.                                          *)
Destroy(d) ==
  /\ at[d] = "unlooped"
  /\ at' = [at EXCEPT ![d] = "destroyed"]
  /\ state' = [state EXCEPT ![d] = "Uninitialized"]
  /\ path' = Nobody
  /\ UNCHANGED <<signalled, listening, holders, backlog, outgoing, clientVars, acked, parent>>

(* ~ConfigurationManager: since nothing may block, close returns at once,  *)
(* and the condition variable that the sync thread waits for is destroyed, *)
(* which is undefined: it may wait for ever.  Otherwise main returns.      *)
MayBlock(d) == state[d] \in {"Initializing", "Starting", "ShuttingDown"}

DestroyConfiguration(d) ==
  /\ at[d] = "destroyed"
  /\ \/ /\ at' = [at EXCEPT ![d] = "ended"]
        /\ Ended(d)
     \/ /\ ~MayBlock(d)
        /\ at' = [at EXCEPT ![d] = "stuck"]
        /\ UNCHANGED <<holders, listening>>
  /\ UNCHANGED <<state, signalled, path, backlog, outgoing, clientVars, acked, parent>>

(* A signal arrives; more than one make no difference, since the thread    *)
(* takes one.                                                              *)
Terminate(d) ==
  /\ at[d] \notin {"off", "ended", "crashed"}
  /\ signalled[d] = "no"
  /\ signalled' = [signalled EXCEPT ![d] = "pending"]
  /\ UNCHANGED <<state, at, socketVars, outgoing, clientVars, acked, parent>>
-----------------------------------------------------------------------------
(* A renderer ends when nobody holds the other end of its connection.      *)
RendererEnds(r) ==
  /\ parent[r] # Nobody
  /\ holders[r] = {}
  /\ parent' = [parent EXCEPT ![r] = Nobody]
  /\ Ended(r)
  /\ UNCHANGED <<daemonVars, path, backlog, outgoing, clientVars, acked>>
-----------------------------------------------------------------------------
(* A CLI controller.                                                       *)

(* main: without a daemon that listens it ends at once.  (A second daemon  *)
(* waits in the backlog.)  The constructor of Controller sends initialize. *)
StartClient(c) ==
  /\ cli[c] = "off"
  /\ \A b \in Clients : b < c => cli[b] # "off"
  /\ IF path # Nobody /\ path \in listening[path] /\ state[path] = "Running"
     THEN /\ cli' = [cli EXCEPT ![c] = "waiting"]
          /\ server' = [server EXCEPT ![c] = path]
          /\ command' = [command EXCEPT ![c] = "initialize"]
          /\ backlog' = [backlog EXCEPT ![path] = @ \cup {c}]
     ELSE cli' = [cli EXCEPT ![c] = "ended"] /\ UNCHANGED <<server, command, backlog>>
  /\ UNCHANGED <<daemonVars, path, listening, holders, outgoing, sent, acked, parent>>

(* Mutant: an acknowledgement does not bring the prompt back.              *)
AcknowledgementIgnored(c) ==
  /\ cli[c] = "waiting" /\ acked[c]
  /\ acked' = [acked EXCEPT ![c] = FALSE]
  /\ UNCHANGED <<daemonVars, socketVars, outgoing, clientVars, parent>>

(* handlePackage: the acknowledgement it waits for; readline starts.       *)
ReadAcknowledgement(c) ==
  /\ cli[c] = "waiting" /\ acked[c]
  /\ acked' = [acked EXCEPT ![c] = FALSE]
  /\ cli' = [cli EXCEPT ![c] = "prompt"]
  /\ UNCHANGED <<daemonVars, socketVars, outgoing, server, command, sent, parent>>

(* handleLine: readline stops until the answer is there ...                *)
SendCommand(c) ==
  /\ cli[c] = "prompt" /\ sent[c] < MaxCommands
  /\ cli' = [cli EXCEPT ![c] = "waiting"]
  /\ sent' = [sent EXCEPT ![c] = @ + 1]
  /\ \E name \in Commands \ {"initialize"} : command' = [command EXCEPT ![c] = name]
  /\ UNCHANGED <<daemonVars, socketVars, outgoing, server, acked, parent>>

(* ... and the end of the input, or a signal at any time, ends the program.*)
Quit(c) ==
  /\ cli[c] \in {"prompt", "waiting"}
  /\ cli' = [cli EXCEPT ![c] = "ended"]
  /\ UNCHANGED <<daemonVars, socketVars, outgoing, server, command, sent, acked, parent>>

(* socketClosed: also if it was never accepted.                            *)
Closed(c) ==
  IF c \in backlog[server[c]] THEN listening[server[c]] = {} ELSE holders[c] = {}

SocketClosed(c) ==
  /\ cli[c] \in {"prompt", "waiting"} /\ ~acked[c]
  /\ Closed(c)
  /\ cli' = [cli EXCEPT ![c] = "ended"]
  /\ UNCHANGED <<daemonVars, socketVars, outgoing, server, command, sent, acked, parent>>
-----------------------------------------------------------------------------
Main(d) ==
  \/ BindPath(d) \/ StartListening(d)
  \/ Destroy(d) \/ DestroyConfiguration(d)
  \/ SignalPipeCallback(d)
  \/ \E c \in Clients :
       \/ AcceptClient(d, c) \/ Initialize(d, c) \/ QuitServer(d, c)
       \/ SpawnNoRenderer(d, c) \/ \E r \in Renderers : SpawnRenderer(d, c, r)
       \/ WriteAcknowledgement(d, c) \/ IoError(d, c) \/ ReadEOF(d, c)

Client(c) == ReadAcknowledgement(c) \/ SocketClosed(c)

(* What processes do, and what people do.                                  *)
System ==
  \/ \E d \in Daemons : Main(d) \/ SignalThread(d)
  \/ \E r \in Renderers : RendererEnds(r)
  \/ \E c \in Clients : Client(c)

People ==
  \/ \E d \in Daemons : StartDaemon(d) \/ Terminate(d)
  \/ \E c \in Clients : StartClient(c) \/ SendCommand(c) \/ Quit(c)

Next == System \/ People

(* The processes go on as long as they can.  (No step can be repeated for  *)
(* ever, so that no process has to be treated fairly against the others.)  *)
Fairness == WF_vars(System)

Spec == Init /\ [][Next]_vars
FairSpec == Spec /\ Fairness
-----------------------------------------------------------------------------
(* Properties.                                                             *)

(* A socket file without a daemon is left behind only by one that crashed  *)
(* (stop, Bind): the path leads to nobody, to a daemon that was not asked  *)
(* to end, or to one that crashed.                                         *)
NoStaleSocket ==
  path # Nobody =>
    \/ at[path] = "crashed"
    \/ at[path] \in {"start", "loop"} /\ path \in listening[path]

(* A daemon that gets SIGTERM or SIGINT ends, unless it is stuck in its    *)
(* destructor, whichever command or error it meets in between              *)
(* (waitForSignals, signalPipeCallback, main).                             *)
Over(d) == at[d] \in {"ended", "stuck", "crashed"}

SignalsEndDaemons == \A d \in Daemons : signalled[d] = "pending" ~> Over(d)

(* A CLI does not wait for ever: it gets its acknowledgement, or the end   *)
(* of the connection (for quit-server, only the latter), after all         *)
(* renderers that hold its connection have ended, each after those forked  *)
(* later (handleLine, handlePackage, socketClosed, doJob), unless a daemon *)
(* is stuck.                                                               *)
NobodyWaitsForEver ==
  \A c \in Clients : cli[c] = "waiting" ~> (cli[c] # "waiting" \/ \E d \in Daemons : at[d] = "stuck")
=============================================================================
