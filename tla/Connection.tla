----------------------------- MODULE Connection -----------------------------
(* One connection: an AbstractHost of the daemon                           *)
(* (daemon/src/abstract_host.cpp), the AbstractHost of a client            *)
(* (shared/abstract_host.cpp, the same code), and the stream between them. *)
(*                                                                         *)
(* A package is sent as its lines and an empty line.  The stream is cut    *)
(* into pieces anywhere: by the sender when the socket is full, by the     *)
(* reader at will.  `at` is how far an end is in a callback.               *)
(*                                                                         *)
(* Abstracted: a line is one token, and a command has two lines, an        *)
(* acknowledgement one.  The handshake and the check of permissions are in *)
(* Daemon.  Nothing is followed after bytes were sent twice.               *)
EXTENDS Integers, Sequences, SequencesExt

CONSTANTS
  Server, Client,
  Modulus,      \* ids are below it: ULLONG_MAX + 1
  Window,       \* the 100 of updateNextPackageID
  ClientIds,    \* where a client may start counting
  Capacity,     \* tokens that the socket holds in each direction
  MaxCommands   \* bound: commands that the two ends send

ASSUME EndsDiffer == Server # Client
ASSUME IdsFit == Modulus \in Nat \ {0, 1} /\ Window \in 1..Modulus /\ ClientIds \subseteq 0..(Modulus - 1)
ASSUME RoomForBytes == Capacity \in Nat \ {0} /\ MaxCommands \in Nat

Ends == {Server, Client}
Peer(e) == IF e = Server THEN Client ELSE Server

VARIABLES
  blocking,         \* the ends whose socket is not O_NONBLOCK
  state,            \* ConnectionState
  sendBuffer,
  watching,         \* the write watcher is active
  shut,             \* shutdown(SHUT_WR) was called
  gone,             \* "no", or how the process ended: "exited", "threw"
  reset,            \* the peer has gone without reading everything
  wire,             \* e -> what e has sent and its peer has not read
  at,               \* "idle", "read", "cut", "sending"
  received,         \* the part of receiveBuffer not looked at yet
  parseBuffer,
  receivedNewline,
  again,            \* errno is EAGAIN
  nextPackageID,
  owed,             \* ids of commands to be answered
  pending,          \* history: packages sent and not yet processed
  unanswered,       \* history: commands sent and not yet answered, by number
  commands,         \* how many commands were sent
  wrapped,          \* history: nextPackageID has gone down
  resent,           \* history: bytes were sent twice
  garbled           \* history: something else than the next package was processed

hosts == <<state, sendBuffer, watching>>
sockets == <<blocking, shut, gone, reset, wire>>
parser == <<at, received, parseBuffer, receivedNewline>>
ids == <<nextPackageID, owed, unanswered, wrapped>>
vars == <<hosts, sockets, parser, again, ids, pending, commands, resent, garbled>>

Newline == [kind |-> "newline", id |-> 0]
Line == [kind |-> "line", id |-> 0]
Command(id) == [kind |-> "command", id |-> id]
Ack(id) == [kind |-> "ack", id |-> id]

(* Package::serialize: the first line stands for the package.              *)
Lines(p) ==
  IF p.kind = "command" THEN <<p, Newline, Line, Newline>> ELSE <<p, Newline>>
Text(p) == Append(Lines(p), Newline)

(* Sockets of viewers and controllers are set O_NONBLOCK by the daemon,    *)
(* the pair shared with a renderer is not, and no client sets it.          *)
Init ==
  /\ blocking \in {{Client}, Ends}
  /\ state = [e \in Ends |-> "Connected"]
  /\ sendBuffer = [e \in Ends |-> <<>>]
  /\ watching = [e \in Ends |-> FALSE]
  /\ shut = [e \in Ends |-> FALSE]
  /\ gone = [e \in Ends |-> "no"]
  /\ reset = [e \in Ends |-> FALSE]
  /\ wire = [e \in Ends |-> <<>>]
  /\ at = [e \in Ends |-> "idle"]
  /\ received = [e \in Ends |-> <<>>]
  /\ parseBuffer = [e \in Ends |-> <<>>]
  /\ receivedNewline = [e \in Ends |-> FALSE]
  /\ again = [e \in Ends |-> FALSE]
  /\ nextPackageID \in [Ends -> ClientIds \cup {0}] /\ nextPackageID[Server] = 0
  /\ owed = [e \in Ends |-> {}]
  /\ pending = [e \in Ends |-> <<>>]
  /\ unanswered = [e \in Ends |-> {}]
  /\ commands = 0
  /\ wrapped = [e \in Ends |-> FALSE]
  /\ resent = FALSE
  /\ garbled = FALSE

Open(e) == gone[e] = "no" /\ state[e] # "Disconnected"
Free(e) == Open(e) /\ at[e] = "idle"
-----------------------------------------------------------------------------
(* Sending.                                                                *)

(* sendPackage: ignored unless the host is connected.                      *)
SendPackage(e, p) ==
  IF state[e] = "Connected"
  THEN /\ sendBuffer' = [sendBuffer EXCEPT ![e] = @ \o Text(p)]
       /\ watching' = [watching EXCEPT ![e] = TRUE]
       /\ pending' = [pending EXCEPT ![e] = Append(@, p)]
  ELSE UNCHANGED <<sendBuffer, watching, pending>>

(* Mutant: the counter is not raised.                                      *)
NoNextPackageID(id) == id

(* getNextPackageID returns the counter and raises it.                     *)
NextPackageID(id) == (id + 1) % Modulus

(* updateNextPackageID: the second case hopefully handles wrap-arounds.    *)
After(next, id) ==
  IF id >= next \/ (next > Modulus - 1 - Window /\ id < Window)
  THEN (id + 1) % Modulus ELSE next

Count(e, next) ==
  /\ nextPackageID' = [nextPackageID EXCEPT ![e] = next]
  /\ wrapped' = [wrapped EXCEPT ![e] = @ \/ next < nextPackageID[e]]

SendCommand(e) ==
  /\ Free(e) /\ state[e] = "Connected"
  /\ commands < MaxCommands
  /\ commands' = commands + 1
  /\ SendPackage(e, Command(nextPackageID[e]))
  /\ unanswered' = [unanswered EXCEPT ![e] = @ \cup {[number |-> commands, id |-> nextPackageID[e]]}]
  /\ Count(e, NextPackageID(nextPackageID[e]))
  /\ UNCHANGED <<state, sockets, parser, again, owed, resent, garbled>>

Answer(e, id) ==
  /\ Free(e)
  /\ owed' = [owed EXCEPT ![e] = @ \ {id}]
  /\ SendPackage(e, Ack(id))
  /\ UNCHANGED <<state, sockets, parser, again, nextPackageID, unanswered, wrapped,
                 commands, resent, garbled>>

(* Mutant: shutdown does not wait until everything is sent.                *)
ShutdownAtOnce(e) ==
  /\ Free(e) /\ state[e] = "Connected"
  /\ state' = [state EXCEPT ![e] = "Disconnecting"]
  /\ shut' = [shut EXCEPT ![e] = TRUE]
  /\ UNCHANGED <<sendBuffer, watching, blocking, gone, reset, wire, parser, again, ids,
                 pending, commands, resent, garbled>>

(* shutdownHost, which calls disconnect.                                   *)
ShutdownHost(e) ==
  /\ Free(e) /\ state[e] = "Connected"
  /\ state' = [state EXCEPT ![e] = "Disconnecting"]
  /\ shut' = [shut EXCEPT ![e] = (sendBuffer[e] = <<>>)]
  /\ UNCHANGED <<sendBuffer, watching, blocking, gone, reset, wire, parser, again, ids,
                 pending, commands, resent, garbled>>

(* Mutant: the socket of a host that is told to shut down stays open.      *)
WriteCallbackStops(e) == watching' = [watching EXCEPT ![e] = FALSE] /\ UNCHANGED shut

(* The end of writeCallback: the buffer is empty.                          *)
WriteCallbackDone(e) ==
  IF state[e] = "Disconnecting"
  THEN shut' = [shut EXCEPT ![e] = TRUE] /\ UNCHANGED watching
  ELSE watching' = [watching EXCEPT ![e] = FALSE] /\ UNCHANGED shut

Room(e) == Capacity - Len(wire[e])

Put(e, n) == wire' = [wire EXCEPT ![e] = @ \o SubSeq(sendBuffer[e], 1, n)]
Erase(e, n) == sendBuffer' = [sendBuffer EXCEPT ![e] = SubSeq(@, n + 1, Len(@))]

(* libev calls writeCallback when the socket has room.                     *)
Writable(e) == Free(e) /\ watching[e] /\ Room(e) > 0 /\ gone[Peer(e)] = "no" /\ Open(Peer(e))

WriteAll(e) ==
  /\ Writable(e) /\ e \notin blocking
  /\ Len(sendBuffer[e]) <= Room(e)
  /\ sendBuffer[e] = <<>> \/ ~again[e]
  /\ Put(e, Len(sendBuffer[e]))
  /\ Erase(e, Len(sendBuffer[e]))
  /\ WriteCallbackDone(e)
  /\ UNCHANGED <<state, blocking, gone, reset, parser, again, ids, pending, commands,
                 resent, garbled>>

(* The socket is full before everything is sent: send fails with EAGAIN.   *)
WriteSome(e) ==
  /\ Writable(e) /\ e \notin blocking
  /\ Len(sendBuffer[e]) > Room(e)
  /\ ~again[e]
  /\ Put(e, Room(e))
  /\ Erase(e, Room(e))
  /\ again' = [again EXCEPT ![e] = TRUE]
  /\ UNCHANGED <<state, watching, blocking, shut, gone, reset, parser, ids, pending,
                 commands, resent, garbled>>

(* A later send succeeds, which leaves errno as it was: the loop is left   *)
(* before what was sent is erased.                                         *)
WriteTwice(e) ==
  /\ Writable(e) /\ e \notin blocking
  /\ sendBuffer[e] # <<>> /\ again[e]
  /\ \E n \in 1..Len(sendBuffer[e]) : n <= Room(e) /\ Put(e, n)
  /\ resent' = TRUE
  /\ UNCHANGED <<hosts, blocking, shut, gone, reset, parser, again, ids, pending,
                 commands, garbled>>

(* Another system call fails in the meantime.                              *)
ErrnoChanges(e) ==
  /\ Free(e) /\ again[e]
  /\ again' = [again EXCEPT ![e] = FALSE]
  /\ UNCHANGED <<hosts, sockets, parser, ids, pending, commands, resent, garbled>>

(* On a blocking socket send returns when everything is in the socket.     *)
WriteBlocking(e) ==
  /\ e \in blocking
  /\ Writable(e) \/ (at[e] = "sending" /\ Open(e) /\ Room(e) > 0 /\ Open(Peer(e)))
  /\ LET n == IF Len(sendBuffer[e]) <= Room(e) THEN Len(sendBuffer[e]) ELSE Room(e) IN
     /\ Put(e, n)
     /\ Erase(e, n)
     /\ IF n = Len(sendBuffer[e])
        THEN at' = [at EXCEPT ![e] = "idle"] /\ WriteCallbackDone(e)
        ELSE at' = [at EXCEPT ![e] = "sending"] /\ UNCHANGED <<shut, watching>>
  /\ UNCHANGED <<state, blocking, gone, reset, received, parseBuffer, receivedNewline,
                 again, ids, pending, commands, resent, garbled>>
-----------------------------------------------------------------------------
(* Ends of processes, and errors.                                          *)

(* A process that ends closes its socket, and its peer will find that not  *)
(* everything was read.                                                    *)
ProcessEnds(e, how) ==
  /\ gone' = [gone EXCEPT ![e] = how]
  /\ reset' = [reset EXCEPT ![Peer(e)] = @ \/ (state[e] # "Disconnected" /\ wire[Peer(e)] # <<>>)]
  /\ wire' = [wire EXCEPT ![Peer(e)] = <<>>]
  /\ UNCHANGED <<hosts, blocking, shut, parser, again, ids, pending, commands, resent, garbled>>

Exit(e) == Open(e) /\ at[e] = "idle" /\ ProcessEnds(e, "exited")

(* send to a closed socket: EPIPE, which throws (in a client: SIGPIPE).    *)
SendFails(e) ==
  /\ Open(e)
  /\ at[e] = "sending" \/ (at[e] = "idle" /\ watching[e] /\ sendBuffer[e] # <<>>)
  /\ ~Open(Peer(e))
  /\ ProcessEnds(e, "threw")

(* recv fails with ECONNRESET, when all data are read.                     *)
ReceiveFails(e) ==
  /\ Free(e)
  /\ wire[Peer(e)] = <<>> /\ reset[e]
  /\ ProcessEnds(e, "threw")
-----------------------------------------------------------------------------
(* Receiving.                                                              *)

EndOfFile(e) ==
  /\ wire[Peer(e)] = <<>> /\ ~reset[e]
  /\ shut[Peer(e)] \/ ~Open(Peer(e))

(* recv returns 0: closeSocket.  What is left in sendBuffer is lost.       *)
ReadEOF(e) ==
  /\ Free(e)
  /\ EndOfFile(e)
  /\ state' = [state EXCEPT ![e] = "Disconnected"]
  /\ sendBuffer' = [sendBuffer EXCEPT ![e] = <<>>]
  /\ watching' = [watching EXCEPT ![e] = FALSE]
  /\ UNCHANGED <<sockets, parser, again, ids, pending, commands, resent, garbled>>

(* recv returns a piece of what was sent.                                  *)
Receive(e) ==
  /\ Free(e)
  /\ \E n \in 1..Len(wire[Peer(e)]) :
       /\ received' = [received EXCEPT ![e] = SubSeq(wire[Peer(e)], 1, n)]
       /\ wire' = [wire EXCEPT ![Peer(e)] = SubSeq(@, n + 1, Len(@))]
  /\ at' = [at EXCEPT ![e] = "read"]
  /\ UNCHANGED <<hosts, blocking, shut, gone, reset, parseBuffer, receivedNewline, again,
                 ids, pending, commands, resent, garbled>>

(* processPackage for the text in parseBuffer.  A command will be answered *)
(* (or never: its job may be lost).                                        *)
ProcessPackage(e, text) ==
  LET p == Head(pending[Peer(e)]) IN
  /\ parseBuffer' = [parseBuffer EXCEPT ![e] = <<>>]
  /\ IF pending[Peer(e)] # <<>> /\ text = Lines(p)
     THEN /\ pending' = [pending EXCEPT ![Peer(e)] = Tail(@)]
          /\ Count(e, After(nextPackageID[e], p.id))
          /\ IF p.kind = "ack"
             THEN /\ unanswered' = [unanswered EXCEPT ![e] = {c \in @ : c.id # p.id}]
                  /\ UNCHANGED owed
             ELSE /\ owed' = [owed EXCEPT ![e] = @ \cup {p.id}]
                  /\ UNCHANGED unanswered
          /\ UNCHANGED garbled
     ELSE garbled' = TRUE /\ UNCHANGED <<pending, ids>>
  /\ UNCHANGED <<hosts, sockets, again, commands, resent>>

(* Mutant: an empty line that is split over two reads is not seen.         *)
NeverCarried(e) == FALSE

(* The first half of an empty line came with the piece before.             *)
Carried(e) ==
  at[e] = "read" /\ receivedNewline[e] /\ received[e] # <<>> /\ Head(received[e]) = Newline

ProcessCarried(e) ==
  /\ Open(e) /\ Carried(e)
  /\ received' = [received EXCEPT ![e] = Tail(@)]
  /\ receivedNewline' = [receivedNewline EXCEPT ![e] = FALSE]
  /\ at' = [at EXCEPT ![e] = "cut"]
  /\ ProcessPackage(e, parseBuffer[e])

EmptyLines(e) ==
  {i \in 1..(Len(received[e]) - 1) : received[e][i] = Newline /\ received[e][i + 1] = Newline}

(* One iteration of the loop of parseReceivedData.                         *)
CutPackage(e) ==
  /\ Open(e) /\ at[e] \in {"read", "cut"} /\ ~Carried(e)
  /\ \E i \in EmptyLines(e) :
       /\ \A j \in EmptyLines(e) : i <= j
       /\ received' = [received EXCEPT ![e] = SubSeq(@, i + 2, Len(@))]
       /\ ProcessPackage(e, parseBuffer[e] \o SubSeq(received[e], 1, i))
  /\ at' = [at EXCEPT ![e] = "cut"]
  /\ UNCHANGED receivedNewline

(* The rest is kept.  If nothing is left, the code reads the character in  *)
(* front of an empty string.                                               *)
KeepRest(e) ==
  /\ Open(e) /\ at[e] \in {"read", "cut"} /\ ~Carried(e) /\ EmptyLines(e) = {}
  /\ parseBuffer' = [parseBuffer EXCEPT ![e] = @ \o received[e]]
  /\ \E newline \in IF received[e] = <<>> THEN BOOLEAN ELSE {Last(received[e]) = Newline} :
       receivedNewline' = [receivedNewline EXCEPT ![e] = newline]
  /\ received' = [received EXCEPT ![e] = <<>>]
  /\ at' = [at EXCEPT ![e] = "idle"]
  /\ UNCHANGED <<hosts, sockets, again, ids, pending, commands, resent, garbled>>
-----------------------------------------------------------------------------
WriteCallback(e) == WriteAll(e) \/ WriteSome(e) \/ WriteTwice(e) \/ WriteBlocking(e) \/ SendFails(e)
ReadCallback(e) ==
  Receive(e) \/ ReadEOF(e) \/ ReceiveFails(e) \/ ProcessCarried(e) \/ CutPackage(e) \/ KeepRest(e)

Program(e) ==
  \/ SendCommand(e)
  \/ \E id \in owed[e] : Answer(e, id)
  \/ ShutdownHost(e)
  \/ Exit(e)

Host(e) == Program(e) \/ WriteCallback(e) \/ ReadCallback(e) \/ ErrnoChanges(e)

(* The two copies of the code.                                             *)
ServerHost == Host(Server)
ClientHost == Host(Client)

Next == ~resent /\ ~garbled /\ (ServerHost \/ ClientHost)

Fairness == \A e \in Ends : WF_vars(~resent /\ WriteCallback(e)) /\ WF_vars(~resent /\ ReadCallback(e))

Spec == Init /\ [][Next]_vars
FairSpec == Spec /\ Fairness
-----------------------------------------------------------------------------
(* Properties.                                                             *)

(* Wherever the stream is cut, what is processed are the packages that     *)
(* were sent, whole and in their order, and nothing but them is under way, *)
(* unless bytes were sent twice (parseReceivedData, writeCallback).        *)
OnTheWay(e) == parseBuffer[Peer(e)] \o received[Peer(e)] \o wire[e] \o sendBuffer[e]

TextOf(packages) ==
  LET text[i \in 0..Len(packages)] == IF i = 0 THEN <<>> ELSE text[i - 1] \o Text(packages[i])
  IN  text[Len(packages)]

StreamIntact ==
  ~resent => /\ ~garbled
             /\ \A e \in Ends : Open(Peer(e)) =>
                   /\ IsPrefix(OnTheWay(e), TextOf(pending[e]))
                   /\ Open(e) => OnTheWay(e) = TextOf(pending[e])

(* No two commands that wait for an answer have the same id, until the     *)
(* counter wraps around (getNextPackageID, updateNextPackageID): answers   *)
(* name the command by its id.                                             *)
IdsDistinct ==
  \A e \in Ends : ~wrapped[e] =>
    \A c, d \in unanswered[e] : c.id = d.id => c = d

(* A host that is told to shut down sends what it has to send: its peer    *)
(* does not see the end before it has processed every package (disconnect, *)
(* writeCallback, closeSocket).                                            *)
NothingLostByShutdown ==
  [][\A e \in Ends :
       /\ state[e] # "Disconnected" /\ state'[e] = "Disconnected"
       /\ state[Peer(e)] = "Disconnecting" /\ gone[Peer(e)] = "no"
       => pending[Peer(e)] = <<>>]_vars

(* A host that is told to shut down is closed at last, or its process has  *)
(* ended; two ends that block in send both, each because the other does    *)
(* not read, stay so.                                                      *)
BothBlocked == \A e \in Ends : at[e] = "sending"

ShutdownCompletes ==
  \A e \in Ends :
    state[e] = "Disconnecting" /\ ~resent ~> (~Open(e) \/ resent \/ []BothBlocked)
=============================================================================
