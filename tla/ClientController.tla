-------------------------- MODULE ClientController --------------------------
(* The two threads of a graphical client: the one of the user interface,   *)
(* in ClientController (shared/client_controller.cpp), and the one of the  *)
(* connection to the daemon, in ServerConnection                           *)
(* (shared/server_connection.cpp), with its event loop.  They pass         *)
(* packages through two queues, each with a mutex, and wake each other by  *)
(* writing to a pair of sockets.                                           *)
(*                                                                         *)
(* Abstracted: the four bytes of a signal are one; what is in the send     *)
(* buffer of the connection counts as sent (see Connection); the numbering *)
(* of packages.  `outbox` is what a handler of the user interface has      *)
(* still to push: it pushes and signals one package after the other.       *)
EXTENDS Naturals, Sequences

VARIABLES
  serverConnection,  \* the pointer is set
  toSendPackages,
  receivedPackages,
  toThread, toUI,    \* signals written and not read
  uiAt,              \* "idle", "popping", "signal", "quit"
  threadAt,          \* "starting", "loop", "signal", "drain"
  outbox,
  signalSocket,      \* "open", or closed by closeServerConnection: "closed"
  threadSocket,      \* "open", "shut" by socketClosed, "closed"
  connection,        \* the state of the ServerConnection as an AbstractHost
  sent,              \* what the connection has sent
  inbox,             \* what the daemon has sent
  daemonOpen,        \* the daemon has not closed the connection
  fault

queues == <<toSendPackages, receivedPackages, outbox>>
signals == <<toThread, toUI, signalSocket, threadSocket>>
places == <<uiAt, threadAt>>
stream == <<connection, sent, inbox, daemonOpen>>
clientVars == <<serverConnection, queues, signals, places, stream, fault>>

Running == fault = "none"

(* setupServerConnection starts the thread; the constructor of the program *)
(* goes on with its first packages.                                        *)
ClientInit(packages) ==
  /\ serverConnection = FALSE
  /\ toSendPackages = <<>> /\ receivedPackages = <<>> /\ outbox = packages
  /\ toThread = 0 /\ toUI = 0
  /\ uiAt = "idle" /\ threadAt = "starting"
  /\ signalSocket = "open" /\ threadSocket = "open"
  /\ connection = "Connected"
  /\ sent = <<>> /\ inbox = <<>> /\ daemonOpen = TRUE
  /\ fault = "none"
-----------------------------------------------------------------------------
(* The thread of the user interface.                                       *)

(* Mutant: no signal.                                                      *)
PushUnsignalled ==
  /\ uiAt \in {"idle", "popping"} /\ outbox # <<>>
  /\ serverConnection
  /\ toSendPackages' = Append(toSendPackages, Head(outbox))
  /\ outbox' = Tail(outbox)
  /\ UNCHANGED <<serverConnection, receivedPackages, signals, places, stream, fault>>

(* sendPackageAndDelete pushes the package ...                             *)
PushPackage ==
  /\ uiAt \in {"idle", "popping"} /\ outbox # <<>>
  /\ IF serverConnection
     THEN /\ toSendPackages' = Append(toSendPackages, Head(outbox))
          /\ outbox' = Tail(outbox)
          /\ uiAt' = IF uiAt = "idle" THEN "signal" ELSE "signal, popping"
          /\ UNCHANGED fault
     ELSE fault' = "unset pointer" /\ UNCHANGED <<toSendPackages, outbox, uiAt>>
  /\ UNCHANGED <<serverConnection, receivedPackages, signals, threadAt, stream>>

(* ... and writes a signal.  (The thread keeps its socket open as long as  *)
(* this one is.)                                                           *)
SendSignal ==
  /\ uiAt \in {"signal", "signal, popping"}
  /\ toThread' = toThread + 1
  /\ uiAt' = IF uiAt = "signal" THEN "idle" ELSE "popping"
  /\ UNCHANGED <<serverConnection, queues, toUI, signalSocket, threadSocket, threadAt,
                 stream, fault>>

(* signalCallback reads a signal, and handles packages until there are     *)
(* none.                                                                   *)
SignalCallback ==
  /\ uiAt = "idle" /\ outbox = <<>>
  /\ toUI > 0
  /\ toUI' = toUI - 1
  /\ uiAt' = "popping"
  /\ UNCHANGED <<serverConnection, queues, toThread, signalSocket, threadSocket, threadAt,
                 stream, fault>>

NoMorePackages ==
  /\ uiAt = "popping" /\ outbox = <<>>
  /\ receivedPackages = <<>>
  /\ uiAt' = "idle"
  /\ UNCHANGED <<serverConnection, queues, signals, threadAt, stream, fault>>

(* popPackage, by a handler that leaves `packages` to be pushed.           *)
PopPackage(packages) ==
  /\ uiAt = "popping" /\ outbox = <<>>
  /\ receivedPackages # <<>>
  /\ receivedPackages' = Tail(receivedPackages)
  /\ outbox' = packages
  /\ UNCHANGED <<serverConnection, toSendPackages, signals, places, stream>>

(* A handler of the user interface that was not called by a package.       *)
UserAction(packages) ==
  /\ uiAt = "idle" /\ outbox = <<>>
  /\ outbox' = packages
  /\ UNCHANGED <<serverConnection, toSendPackages, receivedPackages, signals, places, stream>>

(* closeServerConnection, and the end of the main loop.                    *)
CloseServerConnection ==
  /\ uiAt = "idle" /\ outbox = <<>>
  /\ signalSocket' = "closed"
  /\ uiAt' = "quit"
  /\ UNCHANGED <<serverConnection, queues, toThread, toUI, threadSocket, threadAt, stream, fault>>

(* signalCallback reads the end of file.                                   *)
SignalSocketClosed == toUI = 0 /\ threadSocket # "open" /\ CloseServerConnection

(* main returns, and with it ends the thread.                              *)
ProcessEnds ==
  /\ uiAt = "quit"
  /\ fault' = "ended"
  /\ UNCHANGED <<serverConnection, queues, signals, places, stream>>
-----------------------------------------------------------------------------
(* The thread of the connection.                                           *)

StartServerConnection ==
  /\ threadAt = "starting"
  /\ serverConnection' = TRUE
  /\ threadAt' = "loop"
  /\ UNCHANGED <<queues, signals, uiAt, stream, fault>>

(* handlePackage queues what the daemon has sent ...                       *)
ReceivePackage ==
  /\ threadAt = "loop" /\ connection # "Disconnected"
  /\ inbox # <<>>
  /\ receivedPackages' = Append(receivedPackages, Head(inbox))
  /\ inbox' = Tail(inbox)
  /\ threadAt' = "signal"
  /\ UNCHANGED <<serverConnection, toSendPackages, outbox, signals, uiAt, connection, sent,
                 daemonOpen, fault>>

(* ... and writes a signal.  Nobody ignores SIGPIPE.                       *)
SignalUI ==
  /\ threadAt = "signal"
  /\ threadAt' = "loop"
  /\ toUI' = IF signalSocket = "open" /\ threadSocket = "open" THEN toUI + 1 ELSE toUI
  /\ fault' = IF signalSocket = "closed" /\ threadSocket = "open" THEN "SIGPIPE" ELSE fault
  /\ UNCHANGED <<serverConnection, queues, toThread, signalSocket, threadSocket, uiAt, stream>>

(* Mutant: the user interface is not told.                                 *)
SocketClosedSilently ==
  /\ threadAt = "loop" /\ connection # "Disconnected"
  /\ inbox = <<>> /\ ~daemonOpen
  /\ connection' = "Disconnected"
  /\ UNCHANGED <<serverConnection, queues, signals, places, sent, inbox, daemonOpen, fault>>

(* The daemon has closed: socketClosed.                                    *)
SocketClosed ==
  /\ threadAt = "loop" /\ connection # "Disconnected"
  /\ inbox = <<>> /\ ~daemonOpen
  /\ connection' = "Disconnected"
  /\ threadSocket' = IF threadSocket = "open" THEN "shut" ELSE threadSocket
  /\ UNCHANGED <<serverConnection, queues, toThread, toUI, signalSocket, places, sent, inbox,
                 daemonOpen, fault>>

(* Its signalCallback reads a signal, or the end of file ...               *)
ReadSignal ==
  /\ threadAt = "loop" /\ threadSocket # "closed"
  /\ threadAt' = "drain"
  /\ \/ /\ toThread > 0
        /\ toThread' = toThread - 1
        /\ UNCHANGED <<threadSocket, connection>>
     \/ /\ toThread = 0 /\ signalSocket = "closed"
        /\ threadSocket' = "closed"
        /\ connection' = IF connection = "Connected" THEN "Disconnecting" ELSE connection
        /\ UNCHANGED toThread
  /\ UNCHANGED <<serverConnection, queues, toUI, signalSocket, uiAt, sent, inbox, daemonOpen, fault>>

(* Mutant: one package is sent, and the queue is emptied.                  *)
SendFirstPackage ==
  /\ threadAt = "drain"
  /\ threadAt' = "loop"
  /\ sent' = IF connection = "Connected" /\ toSendPackages # <<>>
             THEN Append(sent, Head(toSendPackages)) ELSE sent
  /\ toSendPackages' = <<>>
  /\ UNCHANGED <<serverConnection, receivedPackages, outbox, signals, uiAt, connection, inbox,
                 daemonOpen, fault>>

(* ... and then sends all that is queued: sendPackage ignores it unless    *)
(* the host is Connected.                                                  *)
SendPackages ==
  /\ threadAt = "drain"
  /\ threadAt' = "loop"
  /\ sent' = IF connection = "Connected" THEN sent \o toSendPackages ELSE sent
  /\ toSendPackages' = <<>>
  /\ UNCHANGED <<serverConnection, receivedPackages, outbox, signals, uiAt, connection, inbox,
                 daemonOpen, fault>>

ConnectionThread ==
  \/ StartServerConnection \/ ReceivePackage \/ SignalUI \/ SocketClosed \/ ReadSignal
  \/ SendPackages

(* The steps of the user interface that do not depend on the program.      *)
UIThread ==
  \/ PushPackage \/ SendSignal \/ SignalCallback \/ NoMorePackages \/ SignalSocketClosed
  \/ ProcessEnds
-----------------------------------------------------------------------------
(* Properties of every program.                                            *)

(* No package waits in a queue that nobody will look at: a signal is on    *)
(* its way, or about to be written, or the queue is just being emptied     *)
(* (pushPackage, handlePackage and the two signal callbacks, which may     *)
(* find nothing since an earlier signal made them take everything).        *)
QueuesSignalled ==
  Running =>
    /\ toSendPackages # <<>> =>
         toThread > 0 \/ uiAt \in {"signal", "signal, popping"} \/ threadAt = "drain"
    /\ receivedPackages # <<>> /\ signalSocket = "open" =>
         toUI > 0 \/ uiAt \in {"popping", "signal, popping"} \/ threadAt = "signal"
=============================================================================
