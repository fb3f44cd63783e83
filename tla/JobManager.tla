----------------------------- MODULE JobManager -----------------------------
(***************************************************************************)
(* The jobs of the daemon: daemon/src/job.cpp, daemon/src/job_manager.cpp, *)
(* and the handlers that create and finish jobs.                           *)
(*                                                                         *)
(* A command of a controller becomes a Job.  Passing it on to a peer (a    *)
(* viewer or a renderer) creates a second Job, kept in unfinishedJobs      *)
(* under the peer's host POINTER and the id of the package; the command    *)
(* depends on it.  A peer's acknowledgement finishes the job found under   *)
(* its pointer and id, and a command whose last dependency is finished is  *)
(* acknowledged to its controller.  Requests are matched with responses by *)
(* a map of their own, and need no jobs.                                   *)
(*                                                                         *)
(* Jobs are the addresses of Job objects.  An object nothing refers to any *)
(* more is not kept: the code leaks it.  Hosts are addresses as well, and  *)
(* are reused; neither table is told when a host is deleted.               *)
(***************************************************************************)
EXTENDS Naturals

CONSTANTS
  Controllers, Viewers, Renderers,  \* addresses of host objects
  Jobs,        \* addresses of Job objects
  Commands,    \* the commands and requests the controllers send
  MaxId,       \* bound: a connection is sent the ids 0 .. MaxId
  NULL         \* the null pointer

ASSUME MaxIdIsNat == MaxId \in Nat

Peers == Viewers \cup Renderers
Hosts == Controllers \cup Peers
Ids == 0 .. MaxId

ASSUME ControllersAreNoPeers == Controllers \cap Peers = {}
ASSUME ViewersAreNoRenderers == Viewers \cap Renderers = {}
ASSUME NullIsNone == NULL \notin Hosts \cup Jobs \cup Commands

VARIABLES
  conn,        \* a host can be sent to, cannot any more, or is not there
  nextId,      \* AbstractHost::nextPackageID of each peer
  job,         \* the Job object at an address; host NULL: no object
  unfinished,  \* JobManager::unfinishedJobs, NULL: no entry
  mapping,     \* JobManager::requestResponseMapping, cmd NULL: no entry
  sent,        \* what a peer's connection was sent under an id
  owed,        \* per command: the peers that were asked and have not answered
  reply,       \* per command: what its controller has heard
  mixed,       \* history: a host was created at an address a table names
  crashed      \* a deleted host was written to and the process died

tables == <<job, unfinished, mapping>>
outside == <<owed, reply>>
vars == <<conn, nextId, tables, sent, outside, mixed, crashed>>

JobObjects ==
  [host : Hosts \cup {NULL}, id : Ids, cmd : Commands \cup {NULL},
   dependencies : SUBSET Jobs, dependents : SUBSET Jobs, used : BOOLEAN]

NoJob == [host |-> NULL, id |-> 0, cmd |-> NULL,
          dependencies |-> {}, dependents |-> {}, used |-> FALSE]

Originals == [host : Controllers \cup {NULL}, cmd : Commands \cup {NULL}]
NoOriginal == [host |-> NULL, cmd |-> NULL]

Packages == [kind : {"nothing", "command", "request"}, cmd : Commands \cup {NULL}]
NoPackage == [kind |-> "nothing", cmd |-> NULL]

LiveJob(j) == job[j].host # NULL

Init ==
  /\ conn = [h \in Hosts |-> "free"]
  /\ nextId = [p \in Peers |-> 0]
  /\ job = [j \in Jobs |-> NoJob]
  /\ unfinished = [p \in Peers |-> [i \in Ids |-> NULL]]
  /\ mapping = [p \in Peers |-> [i \in Ids |-> NoOriginal]]
  /\ sent = [p \in Peers |-> [i \in Ids |-> NoPackage]]
  /\ owed = [k \in Commands |-> {}]
  /\ reply = [k \in Commands |-> "none"]
  /\ mixed = FALSE /\ crashed = FALSE

-----------------------------------------------------------------------------
(* Hosts come and go (HostsManager.tla, Daemon.tla).                       *)

(* Some job or mapping still holds the pointer h.                          *)
Named(h) ==
  \/ \E j \in Jobs : job[j].host = h
  \/ \E p \in Peers, i \in Ids :
       mapping[p][i] # NoOriginal /\ (p = h \/ mapping[p][i].host = h)

Connect(h) ==
  /\ ~crashed /\ conn[h] = "free"
  /\ conn' = [conn EXCEPT ![h] = "up"]
  /\ nextId' = [p \in Peers |-> IF p = h THEN 0 ELSE nextId[p]]
  /\ sent' = [p \in Peers |-> IF p = h THEN [i \in Ids |-> NoPackage] ELSE sent[p]]
  /\ mixed' = (mixed \/ Named(h))
  /\ UNCHANGED <<tables, outside, crashed>>

(* Mutant of Disconnect: the state is not one of ConnectionState.          *)
DisconnectOdd(h) ==
  /\ ~crashed /\ conn[h] = "up"
  /\ conn' = [conn EXCEPT ![h] = "gone"]
  /\ UNCHANGED <<nextId, tables, sent, outside, mixed, crashed>>

(* The host is told to shut down, or reads end-of-file: sendPackage drops  *)
(* everything from now on, and whatever the client sends is refused.       *)
Disconnect(h) ==
  /\ ~crashed /\ conn[h] = "up"
  /\ conn' = [conn EXCEPT ![h] = "down"]
  /\ UNCHANGED <<nextId, tables, sent, outside, mixed, crashed>>

Delete(h) ==
  /\ ~crashed /\ conn[h] = "down"
  /\ conn' = [conn EXCEPT ![h] = "free"]
  /\ UNCHANGED <<nextId, tables, sent, outside, mixed, crashed>>

-----------------------------------------------------------------------------
(* Creating jobs.  The job of a command is made by PackageRouter; it is    *)
(* not entered in unfinishedJobs.                                          *)

(* Mutant of CommandJob: addDependency does not note that it was used.     *)
CommandJobUnused(c, k, parts) ==
  [host |-> c, id |-> 0, cmd |-> k,
   dependencies |-> parts, dependents |-> {}, used |-> FALSE]

CommandJob(c, k, parts) ==
  [host |-> c, id |-> 0, cmd |-> k,
   dependencies |-> parts, dependents |-> {}, used |-> TRUE]

(* Mutant of PeerJob: the id is taken after it was incremented.            *)
PeerJobNextId(p, k, dependents) ==
  [host |-> p, id |-> nextId[p] + 1, cmd |-> k,
   dependencies |-> {}, dependents |-> dependents, used |-> FALSE]

(* The job of the package p is sent next, with the jobs that wait for it.  *)
PeerJob(p, k, dependents) ==
  [host |-> p, id |-> nextId[p], cmd |-> k,
   dependencies |-> {}, dependents |-> dependents, used |-> FALSE]

(* Mutant of AddJobs: forwardJob forgets addJob.                           *)
AddJobsNever(assigned) == UNCHANGED unfinished

(* addJob of the new job assigned[p] for each peer p in its domain: insert *)
(* keeps an entry that is there already.                                   *)
AddJobs(assigned) ==
  unfinished' =
    [p \in Peers |->
      IF p \in DOMAIN assigned /\ unfinished[p][nextId[p]] = NULL
      THEN [unfinished[p] EXCEPT ![nextId[p]] = assigned[p]]
      ELSE unfinished[p]]

(* sendPackage: the next id is taken whether the package is sent or not.   *)
SendTo(P, package) ==
  /\ \A p \in P : nextId[p] < MaxId
  /\ nextId' = [p \in Peers |-> IF p \in P THEN nextId[p] + 1 ELSE nextId[p]]
  /\ sent' = [p \in Peers |->
                IF p \in P /\ conn[p] = "up"
                THEN [sent[p] EXCEPT ![nextId[p]] = package]
                ELSE sent[p]]

(* Controller c may send the new command k.                                *)
Receives(c, k) == ~crashed /\ conn[c] = "up" /\ reply[k] = "none"

Asked(k, P) ==
  /\ owed' = [owed EXCEPT ![k] = P]
  /\ reply' = [reply EXCEPT ![k] = "waiting"]

-----------------------------------------------------------------------------
(* open-uri and its like: RendererHost::doJob forwards to r.  When r       *)
(* cannot be sent to, forwardJob returns without a word.                   *)
ForwardCommand(c, k, r, j, part) ==
  /\ Receives(c, k) /\ conn[r] = "up"
  /\ ~LiveJob(j) /\ ~LiveJob(part) /\ j # part
  /\ job' = [job EXCEPT ![j] = CommandJob(c, k, {part}), ![part] = PeerJob(r, k, {j})]
  /\ AddJobs([p \in {r} |-> part])
  /\ SendTo({r}, [kind |-> "command", cmd |-> k])
  /\ Asked(k, {r})
  /\ UNCHANGED <<conn, mapping, mixed, crashed>>

(* search-in-page sent as a request: only the mapping remembers it.        *)
ForwardRequest(c, k, r) ==
  /\ Receives(c, k) /\ conn[r] = "up"
  /\ mapping' = IF mapping[r][nextId[r]] = NoOriginal
                THEN [mapping EXCEPT ![r][nextId[r]] = [host |-> c, cmd |-> k]]
                ELSE mapping
  /\ SendTo({r}, [kind |-> "request", cmd |-> k])
  /\ Asked(k, {r})
  /\ UNCHANGED <<conn, job, unfinished, mixed, crashed>>

(* connect-view-to-renderer: DisplayManager::connect creates a job for the *)
(* viewer and one for the renderer, both of which may be past sending to.  *)
ConnectCommand(c, k, w, r, j, partW, partR) ==
  /\ Receives(c, k) /\ conn[w] # "free" /\ conn[r] # "free"
  /\ ~LiveJob(j) /\ ~LiveJob(partW) /\ ~LiveJob(partR)
  /\ j # partW /\ j # partR /\ partW # partR
  /\ job' = [job EXCEPT ![j] = CommandJob(c, k, {partW, partR}),
                        ![partW] = PeerJob(w, k, {j}),
                        ![partR] = PeerJob(r, k, {j})]
  /\ AddJobs([p \in {w, r} |-> IF p = w THEN partW ELSE partR])
  /\ SendTo({w, r}, [kind |-> "command", cmd |-> k])
  /\ Asked(k, {w, r})
  /\ UNCHANGED <<conn, mapping, mixed, crashed>>

(* The same for the view a new renderer was made for: no command waits.    *)
ConnectNewRenderer(w, r, partW, partR) ==
  /\ ~crashed /\ conn[w] # "free" /\ conn[r] = "up"
  /\ ~LiveJob(partW) /\ ~LiveJob(partR) /\ partW # partR
  /\ job' = [job EXCEPT ![partW] = PeerJob(w, NULL, {}), ![partR] = PeerJob(r, NULL, {})]
  /\ AddJobs([p \in {w, r} |-> IF p = w THEN partW ELSE partR])
  /\ SendTo({w, r}, [kind |-> "command", cmd |-> NULL])
  /\ UNCHANGED <<conn, mapping, outside, mixed, crashed>>

(* Commands no peer is asked about: spawn-renderer is done or has failed,  *)
(* an unknown command or target is an error, and three things are lost     *)
(* without an answer: a connect whose view or renderer is not known, a     *)
(* connect that does not fit, and a command for a renderer that is being   *)
(* shut down.                                                              *)
SettleCommand(c, k, answer) ==
  /\ Receives(c, k)
  /\ reply' = [reply EXCEPT ![k] = answer]
  /\ UNCHANGED <<conn, nextId, tables, sent, owed, mixed, crashed>>

-----------------------------------------------------------------------------
(* Finishing jobs.                                                         *)

(* Mutant of CompletedBy: the first finished dependency is enough.         *)
CompletedByAny(part) == {j \in job[part].dependents : job[j].used}

(* The commands jobDone is called for when part is finished.  They have no *)
(* dependents themselves (JobGraphSound), so the recursion ends there.     *)
CompletedBy(part) ==
  {j \in job[part].dependents : job[j].used /\ job[j].dependencies \ {part} = {}}

(* Mutant of FinishJob: dependents keep the deleted dependency.            *)
FinishJobKeepsDependency(part) ==
  job' = [j \in Jobs |-> IF j = part \/ j \in CompletedBy(part) THEN NoJob ELSE job[j]]

(* finishJob: dependents lose the dependency, and part and what it         *)
(* completed are deleted.                                                  *)
FinishJob(part) ==
  job' = [j \in Jobs |->
            IF j = part \/ j \in CompletedBy(part) THEN NoJob
            ELSE IF j \in job[part].dependents
                 THEN [job[j] EXCEPT !.dependencies = @ \ {part}]
                 ELSE job[j]]

(* What controller c hears of command k when it is sent an answer.         *)
Heard(c, k) ==
  IF reply[k] = "done" THEN "twice" ELSE IF conn[c] = "up" THEN "done" ELSE "unheard"

(* What p was asked under this id has been answered.                       *)
Answered(p, id) ==
  owed' = [k \in Commands |-> IF k = sent[p][id].cmd THEN owed[k] \ {p} ELSE owed[k]]

(* Writing to a deleted host may end the process; or the freed memory      *)
(* still says Disconnected and the answer is dropped.                      *)
WriteCrashes(c) ==
  /\ conn[c] = "free"
  /\ crashed' = TRUE
  /\ UNCHANGED <<conn, nextId, tables, sent, outside, mixed>>

(* The acknowledgement of p for a package it was sent, perhaps not the     *)
(* first.  It is read only while p is established.                         *)
AckArrives(p, id) ==
  LET part == unfinished[p][id]
      Done == CompletedBy(part)
  IN  /\ ~crashed /\ conn[p] = "up"
      /\ sent[p][id].kind = "command" /\ part # NULL
      /\ \/ \E j \in Done : WriteCrashes(job[j].host)
         \/ /\ FinishJob(part)
            /\ unfinished' = [unfinished EXCEPT ![p][id] = NULL]
            /\ Answered(p, id)
            /\ reply' = [k \in Commands |->
                           IF \E j \in Done : job[j].cmd = k
                           THEN Heard(job[CHOOSE j \in Done : job[j].cmd = k].host, k)
                           ELSE reply[k]]
            /\ UNCHANGED <<conn, nextId, mapping, sent, mixed, crashed>>

(* Mutant of ResponseArrives: the mapping is looked up but not deleted.    *)
ResponseKeepsMapping(p, id) ==
  LET original == mapping[p][id]
  IN  /\ ~crashed /\ conn[p] = "up"
      /\ sent[p][id].kind = "request" /\ original # NoOriginal
      /\ \/ WriteCrashes(original.host)
         \/ /\ Answered(p, id)
            /\ reply' = [reply EXCEPT ![original.cmd] = Heard(original.host, original.cmd)]
            /\ UNCHANGED <<conn, nextId, tables, sent, mixed, crashed>>

(* The response of p to a request it was sent, perhaps not the first.      *)
ResponseArrives(p, id) ==
  LET original == mapping[p][id]
  IN  /\ ~crashed /\ conn[p] = "up"
      /\ sent[p][id].kind = "request" /\ original # NoOriginal
      /\ \/ WriteCrashes(original.host)
         \/ /\ mapping' = [mapping EXCEPT ![p][id] = NoOriginal]
            /\ Answered(p, id)
            /\ reply' = [reply EXCEPT ![original.cmd] = Heard(original.host, original.cmd)]
            /\ UNCHANGED <<conn, nextId, job, unfinished, sent, mixed, crashed>>

-----------------------------------------------------------------------------
HostStep == \E h \in Hosts : Connect(h) \/ Disconnect(h) \/ Delete(h)

CommandStep(c, k) ==
  \/ \E answer \in {"done", "failed", "lost"} : SettleCommand(c, k, answer)
  \/ \E r \in Renderers :
       \/ ForwardRequest(c, k, r)
       \/ \E j, part \in Jobs : ForwardCommand(c, k, r, j, part)
       \/ \E w \in Viewers, j, partW, partR \in Jobs :
            ConnectCommand(c, k, w, r, j, partW, partR)

RendererInitialized ==
  \E w \in Viewers, r \in Renderers, partW, partR \in Jobs :
    ConnectNewRenderer(w, r, partW, partR)

AnswerArrives(p, id) == AckArrives(p, id) \/ ResponseArrives(p, id)

Next ==
  \/ HostStep
  \/ \E c \in Controllers, k \in Commands : CommandStep(c, k)
  \/ RendererInitialized
  \/ \E p \in Peers, id \in Ids : AnswerArrives(p, id)

Spec == Init /\ [][Next]_vars

(* The allocator never gives a new host an address a table still names.    *)
FreshSpec == Init /\ [][Next /\ ~mixed']_vars

(* Peers that stay connected answer what they are sent, and the daemon     *)
(* reads the answers: libev serves every readable socket.                  *)
FairSpec ==
  FreshSpec /\ \A p \in Peers : WF_vars(\E id \in Ids : AnswerArrives(p, id))

-----------------------------------------------------------------------------
TypeOK ==
  /\ conn \in [Hosts -> {"free", "up", "down"}]
  /\ nextId \in [Peers -> Ids]
  /\ job \in [Jobs -> JobObjects]
  /\ unfinished \in [Peers -> [Ids -> Jobs \cup {NULL}]]
  /\ mapping \in [Peers -> [Ids -> Originals]]
  /\ sent \in [Peers -> [Ids -> Packages]]
  /\ owed \in [Commands -> SUBSET Peers]
  /\ reply \in [Commands ->
                  {"none", "waiting", "done", "failed", "lost", "unheard", "twice"}]
  /\ mixed \in BOOLEAN /\ crashed \in BOOLEAN

(* Dependencies and dependents are inverse to each other and both ends are *)
(* alive, although finishJob deletes jobs while others point to them; and  *)
(* no job has both, so that finishJob calls itself at most once deep.      *)
(* (JobManager::addDependency, finishJob)                                  *)
JobGraphSound ==
  \A i, j \in Jobs :
    /\ i \in job[j].dependencies <=> j \in job[i].dependents
    /\ i \in job[j].dependencies =>
         /\ LiveJob(i) /\ LiveJob(j)
         /\ job[i].dependencies = {} /\ job[j].dependents = {}

(* An entry of unfinishedJobs leads to a live job of that peer and id: also *)
(* when peers have gone, and their addresses are used by others, so that   *)
(* retrieveJob never returns a deleted job.  (addJob, removeJob)           *)
JobTableSound ==
  \A p \in Peers, i \in Ids :
    unfinished[p][i] # NULL =>
      /\ job[unfinished[p][i]].host = p
      /\ job[unfinished[p][i]].id = i

(* No command is answered twice, however often peers answer, and whatever  *)
(* the reuse of addresses does to the tables.  (finishJob,                 *)
(* retrieveAndDeleteRequestResponseMapping)                                *)
AnsweredOnce == \A k \in Commands : reply[k] # "twice"

(* Unless addresses were mixed up, the tables know exactly whose answer a  *)
(* command waits for: from its job over the dependencies to their hosts,   *)
(* each of which is found under what that host was sent; or in one mapping. *)
WaitsFor(k) ==
  {p \in Peers : \E j, part \in Jobs :
     /\ job[j].cmd = k /\ job[j].used
     /\ part \in job[j].dependencies
     /\ job[part].host = p /\ unfinished[p][job[part].id] = part}
  \cup {p \in Peers : \E i \in Ids : mapping[p][i].cmd = k}

OwedIsTracked ==
  ~mixed => \A k \in Commands : reply[k] = "waiting" => owed[k] = WaitsFor(k) /\ owed[k] # {}

(* The daemon keeps the promise of CommandService.                         *)
Service == INSTANCE CommandService
  WITH Commands <- Commands, Peers <- Peers, owed <- owed, reply <- reply
KeepsPromise == Service!Spec

(* A command whose peers stay connected is answered: acknowledgements are  *)
(* not lost between the two tables.  (jobDone, finishJob, requestAnswered) *)
Hopeless(k) == crashed \/ \E p \in owed[k] : conn[p] # "up"

AnswersComeBack ==
  \A k \in Commands : reply[k] = "waiting" ~> reply[k] \in {"done", "unheard"} \/ Hopeless(k)

(* macros.h on ServerStateRunning: "no crashing is alowed".  No answer is  *)
(* written to a controller that was deleted.                               *)
NoAnswerToDeletedHost == ~crashed
=============================================================================
