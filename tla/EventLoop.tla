------------------------------ MODULE EventLoop ------------------------------
(* The event loop that all processes run (libev/ev.c with the backend of   *)
(* libev/ev_epoll.c), as the hosts and the HostsManager of the daemon use  *)
(* it: each open descriptor has a read watcher and a write watcher, and    *)
(* there is one idle watcher, all of the same priority.                    *)
(*                                                                         *)
(* What a descriptor leads to is a file (a socket).  epoll knows files by  *)
(* file and descriptor, and forgets a file when nobody holds it any more:  *)
(* not when the daemon closes it, if a renderer has inherited it (see      *)
(* Lifecycle).  libev therefore counts generations.                        *)
(*                                                                         *)
(* Abstracted: timers and the other kinds of watchers, which nobody uses;  *)
(* the list of events that one poll returns is long enough.                *)
EXTENDS Naturals, Sequences, FiniteSets, SequencesExt

CONSTANTS
  Descriptors,  \* small numbers; the system gives out the lowest free one
  MaxFiles,     \* bound: files that are ever opened
  MaxStarts     \* bound: how often a write watcher is started

ASSUME DescriptorsAreNumbers == Descriptors \subseteq Nat /\ Descriptors # {}
ASSUME BoundsAreNat == MaxFiles \in Nat \ {0} /\ MaxStarts \in Nat

VARIABLES
  (* the system *)
  file,        \* descriptor -> the file it leads to, 0: it is free
  ready,       \* file -> what its peer makes possible
  inherited,   \* files that renderers hold
  registered,  \* what epoll has: sets of [file, fd, gen, mask]
  files,       \* how many files have been opened
  (* libev *)
  at,          \* "reify", "poll", "events", "invoke", "left"
  watched,     \* descriptor -> the active watchers
  anfds,       \* descriptor -> [events, emask, egen]
  fdchanges,   \* descriptor -> "no", "changed", or "set" (EV__IOFDSET)
  polled,      \* events that the poll has returned
  pendings,    \* watchers whose callbacks are to be invoked
  idling,      \* the idle watcher is active
  postfork,
  loopDone,
  (* the program *)
  doomed,      \* hosts that wait for their deletion
  starts       \* how often a write watcher was started

system == <<file, ready, inherited, registered, files>>
watchers == <<watched, fdchanges, idling>>
program == <<doomed, starts, loopDone>>
vars == <<system, at, watchers, anfds, polled, pendings, postfork, program>>

Events == {"read", "write"}
HangUp == "hang-up"
Cleared == <<0, "cleared">>
Idle == <<0, "idle">>

Free == {fd \in Descriptors : file[fd] = 0}
Held == {file[fd] : fd \in Descriptors \ Free} \cup inherited

(* The constructor of a host on a new socket starts its read watcher.      *)
Init ==
  LET first == CHOOSE fd \in Descriptors : \A e \in Descriptors : fd <= e IN
  /\ file = [fd \in Descriptors |-> IF fd = first THEN 1 ELSE 0]
  /\ ready = [f \in 1..MaxFiles |-> {"write"}]
  /\ inherited = {}
  /\ registered = {}
  /\ files = 1
  /\ at = "reify"
  /\ watched = [fd \in Descriptors |-> IF fd = first THEN {"read"} ELSE {}]
  /\ anfds = [fd \in Descriptors |-> [events |-> {}, emask |-> {}, egen |-> 0]]
  /\ fdchanges = [fd \in Descriptors |-> IF fd = first THEN "set" ELSE "no"]
  /\ polled = {}
  /\ pendings = <<>>
  /\ idling = FALSE
  /\ postfork = FALSE
  /\ loopDone = FALSE
  /\ doomed = 0
  /\ starts = 0
-----------------------------------------------------------------------------
(* fd_reify: the changes since the last iteration are told to epoll.       *)

Registration(fd) == {r \in registered : r.fd = fd /\ r.file = file[fd]}

(* loop_fork, epoll_fork and fd_rearm_all make a new epoll instance, and   *)
(* set all events anew.                                                    *)
OldRegistration(fd) == IF postfork THEN {} ELSE Registration(fd)
OldEvents(fd) == IF postfork THEN {} ELSE anfds[fd].events
OldMask(fd) == IF postfork /\ anfds[fd].events # {} THEN {} ELSE anfds[fd].emask

(* Mutants: a change of the file is not noticed; or the new epoll instance *)
(* is told only of what changed.                                           *)
SetAfterFork(fd) == postfork /\ anfds[fd].events # {}
SetByStart(fd) == fdchanges[fd] = "set"

IsSet(fd) == fdchanges[fd] = "set" \/ (postfork /\ anfds[fd].events # {})
IsChanged(fd) == fdchanges[fd] # "no" \/ IsSet(fd)

(* epoll_modify: removals are not told.  If the file is found to be        *)
(* registered although it should not be, it is taken to be an earlier      *)
(* registration that was not removed, and has the old mask.                *)
KnownToEpoll(fd) ==
  OldEvents(fd) = {} /\ OldRegistration(fd) # {} /\ OldMask(fd) = watched[fd]

Modified(fd) ==
  /\ IsChanged(fd)
  /\ OldEvents(fd) # watched[fd] \/ IsSet(fd)
  /\ watched[fd] # {}

(* Mutant: a new registration has the generation of the last one.          *)
SameGeneration(fd) == anfds[fd].egen

NextGeneration(fd) == anfds[fd].egen + 1

Told(fd) == Modified(fd) /\ ~KnownToEpoll(fd)

Reify ==
  /\ at = "reify"
  /\ registered' =
       {r \in registered : ~postfork /\ ~(Told(r.fd) /\ r.file = file[r.fd])}
         \cup {[file |-> file[fd], fd |-> fd, gen |-> NextGeneration(fd), mask |-> watched[fd]] :
                 fd \in {fd \in Descriptors : Told(fd)}}
  /\ anfds' = [fd \in Descriptors |->
       [events |-> IF IsChanged(fd) THEN watched[fd] ELSE anfds[fd].events,
        emask |-> IF Modified(fd) THEN watched[fd] ELSE OldMask(fd),
        egen |-> IF Told(fd) THEN NextGeneration(fd) ELSE anfds[fd].egen]]
  /\ fdchanges' = [fd \in Descriptors |-> "no"]
  /\ postfork' = FALSE
  /\ at' = "poll"
  /\ UNCHANGED <<file, ready, inherited, files, watched, idling, polled, pendings, program>>
-----------------------------------------------------------------------------
(* epoll_poll.                                                             *)

(* What epoll reports of a registration: a hang-up in any case.            *)
Reported(r) == ready[r.file] \cap (r.mask \cup {HangUp})

(* It waits, unless the idle watcher is active.                            *)
Poll ==
  /\ at = "poll"
  /\ polled' = {[fd |-> r.fd, gen |-> r.gen, events |-> Reported(r)] :
                  r \in {r \in registered : Reported(r) # {}}}
  /\ polled' # {} \/ idling
  /\ at' = "events"
  /\ UNCHANGED <<system, watchers, anfds, pendings, postfork, program>>

(* ev_feed_event, for the watchers of a descriptor: the one that was       *)
(* started last comes first.                                               *)
Fed(fd, got) ==
  LET wanted == watched[fd] \cap got IN
  pendings \o (IF "write" \in wanted THEN <<<<fd, "write">>>> ELSE <<>>)
           \o (IF "read" \in wanted THEN <<<<fd, "read">>>> ELSE <<>>)

Got(x) == IF HangUp \in x.events THEN Events ELSE x.events

(* An event of an earlier generation: epoll has a file that was closed.    *)
Spurious(x) ==
  /\ anfds[x.fd].egen # x.gen
  /\ postfork' = TRUE
  /\ UNCHANGED <<registered, anfds, pendings>>

(* More than is wanted: epoll is told what is wanted, or that nothing is.  *)
Unwanted(x) ==
  LET want == anfds[x.fd].events
      known == Registration(x.fd) IN
  /\ anfds[x.fd].egen = x.gen
  /\ ~(Got(x) \subseteq want)
  /\ anfds' = [anfds EXCEPT ![x.fd].emask = want]
  /\ IF known = {}
     THEN postfork' = TRUE /\ UNCHANGED <<registered, pendings>>
     ELSE /\ registered' = (registered \ known) \cup
               (IF want = {} THEN {}
                ELSE {[file |-> file[x.fd], fd |-> x.fd, gen |-> x.gen, mask |-> want]})
          /\ pendings' = Fed(x.fd, Got(x))
          /\ UNCHANGED postfork

Wanted(x) ==
  /\ anfds[x.fd].egen = x.gen
  /\ Got(x) \subseteq anfds[x.fd].events
  /\ pendings' = Fed(x.fd, Got(x))
  /\ UNCHANGED <<registered, anfds, postfork>>

HandleEvent(x) ==
  /\ at = "events"
  /\ polled' = polled \ {x}
  /\ Spurious(x) \/ Unwanted(x) \/ Wanted(x)
  /\ UNCHANGED <<file, ready, inherited, files, at, watchers, program>>

(* idle_reify: the idle watcher is called only if nothing else is pending. *)
PollDone ==
  /\ at = "events" /\ polled = {}
  /\ pendings' = IF pendings = <<>> /\ idling THEN <<Idle>> ELSE pendings
  /\ at' = "invoke"
  /\ UNCHANGED <<system, watchers, anfds, polled, postfork, program>>
-----------------------------------------------------------------------------
(* ev_invoke_pending: the callbacks, the last one first.                   *)

Invoked(w) == at = "invoke" /\ pendings # <<>> /\ Last(pendings) = w

(* Mutant: a watcher that is stopped stays pending.                        *)
StillPending(fd, events) == Front(pendings)

(* clear_pending, in ev_io_stop.                                           *)
WithoutPending(fd, events) ==
  [i \in 1..(Len(pendings) - 1) |->
     IF pendings[i][1] = fd /\ pendings[i][2] \in events THEN Cleared ELSE pendings[i]]

Change(fd, how) ==
  fdchanges' = [fdchanges EXCEPT ![fd] = IF @ = "set" THEN @ ELSE how]

(* A read callback reads what is there ...                                 *)
Reads(fd) ==
  /\ Invoked(<<fd, "read">>)
  /\ ready' = [ready EXCEPT ![file[fd]] = @ \ {"read"}]
  /\ HangUp \notin ready[file[fd]]
  /\ pendings' = Front(pendings)
  /\ UNCHANGED <<at, anfds, polled, postfork, inherited, registered>>

(* ... and may leave the loop ...                                          *)
ReadAndUnloop(fd) ==
  /\ Reads(fd)
  /\ loopDone' \in BOOLEAN
  /\ UNCHANGED <<file, files, watchers, doomed, starts>>

(* ... start the write watcher of a host: the function start of libev's    *)
(* C++ interface sets the descriptor too ...                               *)
ReadAndSend(fd, other) ==
  /\ Reads(fd)
  /\ starts < MaxStarts /\ starts' = starts + 1
  /\ file[other] # 0 /\ "write" \notin watched[other]
  /\ watched' = [watched EXCEPT ![other] = @ \cup {"write"}]
  /\ Change(other, "set")
  /\ UNCHANGED <<file, files, idling, doomed, loopDone>>

(* ... or accept a client, or fork a renderer, which inherits.             *)
ReadAndOpen(fd) ==
  /\ Invoked(<<fd, "read">>)
  /\ ready' = [ready EXCEPT ![file[fd]] = @ \ {"read"}]
  /\ HangUp \notin ready[file[fd]]
  /\ pendings' = Front(pendings)
  /\ files < MaxFiles /\ files' = files + 1
  /\ inherited' \in {inherited, Held}
  /\ \E new \in Free :
       /\ \A e \in Free : new <= e
       /\ file' = [file EXCEPT ![new] = files + 1]
       /\ watched' = [watched EXCEPT ![new] = {"read"}]
       /\ Change(new, "set")
  /\ UNCHANGED <<registered, at, anfds, polled, postfork, idling, program>>

(* closeSocket at the end of file: both watchers are stopped and the       *)
(* descriptor closed; the HostsManager starts its idle watcher.            *)
ReadEOF(fd) ==
  /\ Invoked(<<fd, "read">>)
  /\ HangUp \in ready[file[fd]]
  /\ watched' = [watched EXCEPT ![fd] = {}]
  /\ pendings' = WithoutPending(fd, Events)
  /\ Change(fd, "changed")
  /\ file' = [file EXCEPT ![fd] = 0]
  /\ registered' = {r \in registered : r.file # file[fd] \/ r.file \in inherited}
  /\ doomed' = doomed + 1
  /\ idling' = TRUE
  /\ UNCHANGED <<ready, inherited, files, at, anfds, polled, postfork, loopDone, starts>>

(* A write callback fills the socket, or has sent everything.              *)
WriteSome(fd) ==
  /\ Invoked(<<fd, "write">>)
  /\ ready' = [ready EXCEPT ![file[fd]] = @ \ {"write"}]
  /\ pendings' = Front(pendings)
  /\ UNCHANGED <<file, inherited, registered, files, at, watchers, anfds, polled, postfork, program>>

WriteAll(fd) ==
  /\ Invoked(<<fd, "write">>)
  /\ watched' = [watched EXCEPT ![fd] = @ \ {"write"}]
  /\ pendings' = WithoutPending(fd, {"write"})
  /\ Change(fd, "changed")
  /\ UNCHANGED <<system, at, anfds, polled, postfork, idling, program>>

(* idleCallback deletes a host.                                            *)
IdleCallback ==
  /\ Invoked(Idle)
  /\ pendings' = Front(pendings)
  /\ doomed' = doomed - 1
  /\ idling' = (doomed > 1)
  /\ UNCHANGED <<system, at, watched, fdchanges, anfds, polled, postfork, loopDone, starts>>

InvokeCleared ==
  /\ Invoked(Cleared)
  /\ pendings' = Front(pendings)
  /\ UNCHANGED <<system, at, watchers, anfds, polled, postfork, program>>

(* The end of an iteration.                                                *)
NoneActive == ~idling /\ \A fd \in Descriptors : watched[fd] = {}

NextIteration ==
  /\ at = "invoke" /\ pendings = <<>>
  /\ at' = IF loopDone \/ NoneActive THEN "left" ELSE "reify"
  /\ UNCHANGED <<system, watchers, anfds, polled, pendings, postfork, program>>
-----------------------------------------------------------------------------
(* The peers, and renderers that end.                                      *)

PeerActs(f) ==
  /\ f \in Held
  /\ \E event \in Events \cup {HangUp} :
       ready' = [ready EXCEPT ![f] = @ \cup (IF event = HangUp THEN Events \cup {HangUp} ELSE {event})]
  /\ UNCHANGED <<file, inherited, registered, files, at, watchers, anfds, polled, pendings,
                 postfork, program>>

RenderersEnd ==
  /\ inherited # {}
  /\ inherited' = {}
  /\ registered' = {r \in registered : \E fd \in Descriptors : file[fd] = r.file}
  /\ UNCHANGED <<file, ready, files, at, watchers, anfds, polled, pendings, postfork, program>>
-----------------------------------------------------------------------------
Callback(fd) ==
  \/ ReadAndUnloop(fd) \/ ReadAndOpen(fd) \/ ReadEOF(fd) \/ WriteSome(fd) \/ WriteAll(fd)
  \/ \E other \in Descriptors : ReadAndSend(fd, other)

Loop ==
  \/ Reify \/ Poll \/ PollDone \/ NextIteration
  \/ \E x \in polled : HandleEvent(x)
  \/ \E fd \in Descriptors : Callback(fd)
  \/ IdleCallback \/ InvokeCleared

Environment == RenderersEnd \/ \E f \in 1..files : PeerActs(f)

Next == Loop \/ Environment

Spec == Init /\ [][Next]_vars
FairSpec == Spec /\ WF_vars(Loop)
-----------------------------------------------------------------------------
(* Properties.                                                             *)

(* No callback is invoked for a watcher that was stopped: its host may be  *)
(* deleted, or its descriptor belong to another (ev_io_stop,               *)
(* ev_invoke_pending).                                                     *)
StoppedIsNeverCalled ==
  \A i \in DOMAIN pendings :
    LET w == pendings[i] IN
    \/ w = Cleared
    \/ w = Idle /\ idling /\ doomed > 0
    \/ w[1] \in Descriptors /\ w[2] \in watched[w[1]] /\ file[w[1]] # 0

(* When libev polls, epoll has, of each descriptor that is watched, its    *)
(* present file with the events that are watched and the last generation,  *)
(* and whatever else epoll still has will be recognised (fd_reify,         *)
(* epoll_modify, epoll_poll).                                              *)
EpollKnows ==
  at = "poll" =>
    /\ \A fd \in Descriptors : watched[fd] # {} =>
         [file |-> file[fd], fd |-> fd, gen |-> anfds[fd].egen, mask |-> watched[fd]] \in registered
    /\ \A r \in registered : r.file # file[r.fd] /\ watched[r.fd] # {} => r.gen # anfds[r.fd].egen

(* A host is never called for what happens at a connection that had its    *)
(* descriptor before (epoll_modify, epoll_poll): a renderer's host would   *)
(* wait for data in its blocking socket.  A hang-up stands for both events.*)
CalledForItsOwn ==
  [][at = "events" =>
       \A i \in DOMAIN pendings' \ DOMAIN pendings :
         \/ pendings'[i] = Idle
         \/ {pendings'[i][2], HangUp} \cap ready[file[pendings'[i][1]]] # {}]_vars

(* Whoever is watched and ready is called, until the loop is left: a host  *)
(* whose peer has closed notices it.                                       *)
Ready(fd) == file[fd] # 0 /\ HangUp \in ready[file[fd]]

HangUpsAreSeen ==
  \A fd \in Descriptors : Ready(fd) ~> (~Ready(fd) \/ at = "left")
=============================================================================
