------------------------------ MODULE JobProofs ------------------------------
(***************************************************************************)
(* Proofs that the job tables of the daemon stay sound, and that no        *)
(* command is answered twice, for any number of hosts, jobs, commands and  *)
(* package ids, whatever addresses the allocator gives out again.          *)
(***************************************************************************)
EXTENDS JobManager, TLAPS

(* The jobs that have dependencies are those of controllers, the jobs that *)
(* have dependents are those of peers.                                     *)
JobKinds ==
  \A j \in Jobs :
    /\ job[j].dependencies # {} => job[j].host \in Controllers
    /\ job[j].dependents # {} => job[j].host \in Peers

(* Who can answer a command still waits for it, and is the only one: one   *)
(* job, or else one mapping.                                               *)
OneAnswerer ==
  /\ \A j \in Jobs :
       job[j].host \in Controllers =>
         /\ job[j].cmd \in Commands /\ reply[job[j].cmd] = "waiting"
         /\ \A i \in Jobs :
              job[i].host \in Controllers /\ job[i].cmd = job[j].cmd => i = j
  /\ \A p \in Peers, i \in Ids :
       mapping[p][i] # NoOriginal =>
         /\ mapping[p][i].cmd \in Commands /\ reply[mapping[p][i].cmd] = "waiting"
         /\ \A j \in Jobs :
              job[j].host \in Controllers => job[j].cmd # mapping[p][i].cmd
         /\ \A q \in Peers, l \in Ids :
              mapping[q][l] # NoOriginal /\ mapping[q][l].cmd = mapping[p][i].cmd
                => q = p /\ l = i

(* The inductive invariant.                                                *)
JobInv ==
  /\ TypeOK
  /\ JobGraphSound /\ JobKinds
  /\ JobTableSound
  /\ OneAnswerer /\ AnsweredOnce

-----------------------------------------------------------------------------
(* Facts about the operators of JobManager.                                *)

LEMMA Addresses ==
  /\ \A h \in Hosts : h # NULL
  /\ \A j \in Jobs : j # NULL
  /\ \A k \in Commands : k # NULL
  /\ \A c \in Controllers : c \in Hosts /\ c \notin Peers
  /\ \A p \in Peers : p \in Hosts
  /\ 0 \in Ids
BY NullIsNone, ControllersAreNoPeers, MaxIdIsNat DEF Hosts, Ids

LEMMA NoJobIsTyped == NoJob \in JobObjects
BY Addresses DEF NoJob, JobObjects

(* A free address is in no relation with any job, and in no table.         *)
LEMMA FreeJobFacts ==
  ASSUME TypeOK, JobGraphSound, JobTableSound, NEW j \in Jobs, ~LiveJob(j)
  PROVE  /\ job[j].dependencies = {} /\ job[j].dependents = {}
         /\ \A i \in Jobs : j \notin job[i].dependencies /\ j \notin job[i].dependents
         /\ \A p \in Peers, i \in Ids : unfinished[p][i] # j
<1>1. \A i \in Jobs : job[i].dependencies \subseteq Jobs /\ job[i].dependents \subseteq Jobs
  BY DEF TypeOK, JobObjects
<1>2. \A i \in Jobs : j \notin job[i].dependencies /\ j \notin job[i].dependents
  BY DEF JobGraphSound
<1>3. job[j].dependencies = {} /\ job[j].dependents = {}
  BY <1>1 DEF JobGraphSound
<1>4. ASSUME NEW p \in Peers, NEW i \in Ids, unfinished[p][i] = j
      PROVE  FALSE
  BY <1>4, Addresses DEF JobTableSound, LiveJob
<1> QED BY <1>2, <1>3, <1>4

(* The table after addJob.                                                 *)
LEMMA AddJobsFacts ==
  ASSUME TypeOK, NEW P \in SUBSET Peers, NEW assigned \in [P -> Jobs], AddJobs(assigned)
  PROVE  /\ unfinished' \in [Peers -> [Ids -> Jobs \cup {NULL}]]
         /\ \A p \in Peers, i \in Ids :
              \/ unfinished'[p][i] = unfinished[p][i]
              \/ p \in P /\ i = nextId[p] /\ unfinished'[p][i] = assigned[p]
<1>1. /\ unfinished \in [Peers -> [Ids -> Jobs \cup {NULL}]]
      /\ nextId \in [Peers -> Ids] /\ DOMAIN assigned = P
  BY DEF TypeOK
<1>2. unfinished' =
        [p \in Peers |->
          IF p \in P /\ unfinished[p][nextId[p]] = NULL
          THEN [unfinished[p] EXCEPT ![nextId[p]] = assigned[p]]
          ELSE unfinished[p]]
  BY <1>1 DEF AddJobs
<1> QED BY <1>1, <1>2

LEMMA SendToFacts ==
  ASSUME TypeOK, NEW P \in SUBSET Peers, NEW package \in Packages, SendTo(P, package)
  PROVE  nextId' \in [Peers -> Ids] /\ sent' \in [Peers -> [Ids -> Packages]]
<1>1. \A p \in P : nextId[p] + 1 \in Ids
  BY MaxIdIsNat DEF SendTo, TypeOK, Ids
<1>2. nextId' \in [Peers -> Ids]
  BY <1>1 DEF SendTo, TypeOK
<1>3. sent' \in [Peers -> [Ids -> Packages]]
  BY DEF SendTo, TypeOK
<1> QED BY <1>2, <1>3

(* The objects new jobs are created as.                                    *)
LEMMA CommandJobFacts ==
  ASSUME NEW c \in Controllers, NEW k \in Commands, NEW S \in SUBSET Jobs
  PROVE  /\ CommandJob(c, k, S) \in JobObjects
         /\ CommandJob(c, k, S).host = c /\ CommandJob(c, k, S).cmd = k
         /\ CommandJob(c, k, S).used
         /\ CommandJob(c, k, S).dependencies = S /\ CommandJob(c, k, S).dependents = {}
<1>1. c \in Hosts \cup {NULL} /\ 0 \in Ids
  BY Addresses
<1> QED BY <1>1 DEF CommandJob, JobObjects

LEMMA PeerJobFacts ==
  ASSUME TypeOK, NEW p \in Peers, NEW k \in Commands \cup {NULL}, NEW D \in SUBSET Jobs
  PROVE  /\ PeerJob(p, k, D) \in JobObjects
         /\ PeerJob(p, k, D).host = p /\ PeerJob(p, k, D).id = nextId[p]
         /\ PeerJob(p, k, D).cmd = k
         /\ PeerJob(p, k, D).dependencies = {} /\ PeerJob(p, k, D).dependents = D
<1>1. p \in Hosts \cup {NULL} /\ nextId[p] \in Ids
  BY Addresses DEF TypeOK
<1> QED BY <1>1 DEF PeerJob, JobObjects

-----------------------------------------------------------------------------
LEMMA InitJobInv == Init => JobInv
<1> SUFFICES ASSUME Init PROVE JobInv
  OBVIOUS
<1>1. \A j \in Jobs : /\ job[j] = NoJob /\ job[j].host = NULL
                      /\ job[j].dependencies = {} /\ job[j].dependents = {}
  BY DEF Init, NoJob
<1>2. TypeOK
  BY NoJobIsTyped, Addresses DEF Init, TypeOK, Originals, NoOriginal, Packages, NoPackage
<1>3. JobGraphSound /\ JobKinds
  BY <1>1 DEF JobGraphSound, JobKinds
<1>4. JobTableSound
  BY DEF Init, JobTableSound
<1>5. OneAnswerer /\ AnsweredOnce
  BY <1>1, Addresses DEF Init, OneAnswerer, AnsweredOnce
<1> QED BY <1>2, <1>3, <1>4, <1>5 DEF JobInv

(* What depends on the tables and the replies alone is kept with them.     *)
LEMMA TablesKept ==
  ASSUME JobInv, UNCHANGED <<tables, reply>>
  PROVE  JobGraphSound' /\ JobKinds' /\ JobTableSound' /\ OneAnswerer' /\ AnsweredOnce'
<1>1. UNCHANGED <<job, unfinished, mapping, reply>>
  BY DEF tables
<1>2. JobGraphSound' /\ JobKinds'
  BY <1>1 DEF JobInv, JobGraphSound, JobKinds, LiveJob
<1>3. JobTableSound'
  BY <1>1 DEF JobInv, JobTableSound
<1>4. OneAnswerer' /\ AnsweredOnce'
  BY <1>1 DEF JobInv, OneAnswerer, AnsweredOnce
<1> QED BY <1>2, <1>3, <1>4

LEMMA HostStepKeepsJobInv == JobInv /\ HostStep => JobInv'
<1> SUFFICES ASSUME JobInv, NEW h \in Hosts, Connect(h) \/ Disconnect(h) \/ Delete(h)
             PROVE  JobInv'
  BY DEF HostStep
<1>1. UNCHANGED <<tables, outside, crashed>>
  BY DEF Connect, Disconnect, Delete
<1>2. UNCHANGED <<job, unfinished, mapping, owed, reply, crashed>>
  BY <1>1 DEF tables, outside
<1>3. CASE Connect(h)
  <2>1. NoPackage \in Packages
    BY DEF NoPackage, Packages
  <2>2. nextId' \in [Peers -> Ids] /\ sent' \in [Peers -> [Ids -> Packages]]
    BY <1>3, <2>1, Addresses DEF JobInv, TypeOK, Connect
  <2>3. mixed' \in BOOLEAN
    BY <1>3 DEF Connect, JobInv, TypeOK, Named
  <2> QED BY <1>2, <1>1, <1>3, <2>2, <2>3, TablesKept DEF JobInv, TypeOK, Connect
<1>4. CASE Disconnect(h) \/ Delete(h)
  BY <1>2, <1>1, <1>4, TablesKept DEF JobInv, TypeOK, Disconnect, Delete
<1> QED BY <1>3, <1>4

-----------------------------------------------------------------------------
(* Creating jobs.                                                          *)

(* A command job and what it depends on, put at free addresses.            *)
LEMMA NewCommandFacts ==
  ASSUME JobInv, NEW j \in Jobs, NEW S \in SUBSET Jobs, j \notin S,
         ~LiveJob(j), \A x \in S : ~LiveJob(x),
         job' \in [Jobs -> JobObjects],
         job'[j].host \in Controllers,
         job'[j].dependencies = S, job'[j].dependents = {},
         \A x \in S : /\ job'[x].host \in Peers
                      /\ job'[x].dependencies = {} /\ job'[x].dependents = {j},
         \A x \in Jobs \ (S \cup {j}) : job'[x] = job[x]
  PROVE  JobGraphSound' /\ JobKinds'
<1>1. JobKinds'
  BY DEF JobInv, JobKinds
<1>2. \A x \in S \cup {j} :
        \A y \in Jobs : x \notin job[y].dependencies /\ x \notin job[y].dependents
  BY FreeJobFacts DEF JobInv
<1>3. \A x \in S \cup {j} : LiveJob(x)'
  BY Addresses DEF LiveJob
<1>4. ASSUME NEW x \in Jobs, NEW y \in Jobs
      PROVE  /\ x \in job'[y].dependencies <=> y \in job'[x].dependents
             /\ x \in job'[y].dependencies =>
                  /\ LiveJob(x)' /\ LiveJob(y)'
                  /\ job'[x].dependencies = {} /\ job'[y].dependents = {}
  <2>1. CASE x \in S \cup {j} \/ y \in S \cup {j}
    BY <1>2, <1>3, <2>1
  <2>2. CASE x \notin S \cup {j} /\ y \notin S \cup {j}
    BY <2>2 DEF JobInv, JobGraphSound, LiveJob
  <2> QED BY <2>1, <2>2
<1> QED BY <1>1, <1>4 DEF JobGraphSound

(* Jobs of peers that nothing waits for.                                   *)
LEMMA NewLoneJobsFacts ==
  ASSUME JobInv, NEW S \in SUBSET Jobs, \A x \in S : ~LiveJob(x),
         \A x \in S : job'[x].dependencies = {} /\ job'[x].dependents = {},
         \A x \in Jobs \ S : job'[x] = job[x]
  PROVE  JobGraphSound' /\ JobKinds'
<1>1. JobKinds'
  BY DEF JobInv, JobKinds
<1>2. \A x \in S :
        \A y \in Jobs : x \notin job[y].dependencies /\ x \notin job[y].dependents
  BY FreeJobFacts DEF JobInv
<1>3. ASSUME NEW x \in Jobs, NEW y \in Jobs
      PROVE  /\ x \in job'[y].dependencies <=> y \in job'[x].dependents
             /\ x \in job'[y].dependencies =>
                  /\ LiveJob(x)' /\ LiveJob(y)'
                  /\ job'[x].dependencies = {} /\ job'[y].dependents = {}
  <2>1. CASE x \in S \/ y \in S
    BY <1>2, <2>1
  <2>2. CASE x \notin S /\ y \notin S
    BY <2>2 DEF JobInv, JobGraphSound, LiveJob
  <2> QED BY <2>1, <2>2
<1> QED BY <1>1, <1>3 DEF JobGraphSound

(* The table after new jobs were put at free addresses and entered.        *)
LEMMA NewEntriesFacts ==
  ASSUME JobInv, NEW N \in SUBSET Jobs, \A x \in N : ~LiveJob(x),
         \A x \in Jobs \ N : job'[x] = job[x],
         NEW P \in SUBSET Peers, NEW assigned \in [P -> N], AddJobs(assigned),
         \A p \in P : job'[assigned[p]].host = p /\ job'[assigned[p]].id = nextId[p]
  PROVE  unfinished' \in [Peers -> [Ids -> Jobs \cup {NULL}]] /\ JobTableSound'
<1>1. /\ unfinished' \in [Peers -> [Ids -> Jobs \cup {NULL}]]
      /\ \A p \in Peers, i \in Ids :
           \/ unfinished'[p][i] = unfinished[p][i]
           \/ p \in P /\ i = nextId[p] /\ unfinished'[p][i] = assigned[p]
  BY AddJobsFacts DEF JobInv
<1>2. ASSUME NEW p \in Peers, NEW i \in Ids, unfinished'[p][i] # NULL
      PROVE  job'[unfinished'[p][i]].host = p /\ job'[unfinished'[p][i]].id = i
  <2>1. CASE unfinished'[p][i] = unfinished[p][i]
    <3>1. unfinished[p][i] \in Jobs \ N
      BY <1>2, <2>1, FreeJobFacts DEF JobInv, TypeOK
    <3> QED BY <1>2, <2>1, <3>1 DEF JobInv, JobTableSound
  <2>2. CASE p \in P /\ i = nextId[p] /\ unfinished'[p][i] = assigned[p]
    BY <2>2
  <2> QED BY <1>1, <2>1, <2>2
<1> QED BY <1>1, <1>2 DEF JobTableSound

(* Command k is passed on, and job j, if any, is to answer it.             *)
LEMMA AskedFacts ==
  ASSUME JobInv, NEW k \in Commands, reply[k] = "none", NEW P \in SUBSET Peers, Asked(k, P)
  PROVE  /\ owed' \in [Commands -> SUBSET Peers]
         /\ reply' \in [Commands ->
                  {"none", "waiting", "done", "failed", "lost", "unheard", "twice"}]
         /\ reply'[k] = "waiting" /\ \A l \in Commands : l # k => reply'[l] = reply[l]
         /\ \A j \in Jobs : job[j].host \in Controllers => job[j].cmd # k
         /\ \A p \in Peers, i \in Ids : mapping[p][i] # NoOriginal => mapping[p][i].cmd # k
         /\ AnsweredOnce'
<1>1. /\ reply' = [reply EXCEPT ![k] = "waiting"]
      /\ owed' = [owed EXCEPT ![k] = P]
  BY DEF Asked
<1>2. /\ \A j \in Jobs : job[j].host \in Controllers => job[j].cmd # k
      /\ \A p \in Peers, i \in Ids : mapping[p][i] # NoOriginal => mapping[p][i].cmd # k
  BY DEF JobInv, OneAnswerer
<1> QED BY <1>1, <1>2 DEF JobInv, TypeOK, AnsweredOnce

LEMMA AskedByJobFacts ==
  ASSUME JobInv, NEW k \in Commands, reply[k] = "none", NEW P \in SUBSET Peers, Asked(k, P),
         UNCHANGED mapping, NEW j \in Jobs,
         job'[j].host \in Controllers, job'[j].cmd = k,
         \A x \in Jobs : x # j /\ job'[x].host \in Controllers => job'[x] = job[x]
  PROVE  OneAnswerer'
<1>1. /\ reply'[k] = "waiting" /\ \A l \in Commands : l # k => reply'[l] = reply[l]
      /\ \A x \in Jobs : job[x].host \in Controllers => job[x].cmd # k
      /\ \A p \in Peers, i \in Ids : mapping[p][i] # NoOriginal => mapping[p][i].cmd # k
  BY AskedFacts
<1>2. ASSUME NEW x \in Jobs, job'[x].host \in Controllers
      PROVE  /\ job'[x].cmd \in Commands /\ reply'[job'[x].cmd] = "waiting"
             /\ \A y \in Jobs :
                  job'[y].host \in Controllers /\ job'[y].cmd = job'[x].cmd => y = x
  <2>1. CASE x = j
    BY <1>1, <2>1
  <2>2. CASE x # j
    BY <1>1, <1>2, <2>2 DEF JobInv, OneAnswerer
  <2> QED BY <2>1, <2>2
<1>3. ASSUME NEW p \in Peers, NEW i \in Ids, mapping[p][i] # NoOriginal
      PROVE  /\ mapping[p][i].cmd \in Commands /\ reply'[mapping[p][i].cmd] = "waiting"
             /\ \A x \in Jobs :
                  job'[x].host \in Controllers => job'[x].cmd # mapping[p][i].cmd
  BY <1>1, <1>3 DEF JobInv, OneAnswerer
<1> QED BY <1>2, <1>3 DEF JobInv, OneAnswerer

-----------------------------------------------------------------------------
(* The handlers that create jobs.                                          *)

(* What forwarding does to the jobs.                                       *)
Forwarded(c, k, r, j, part) ==
  /\ r \in Peers /\ j # part /\ ~LiveJob(j) /\ ~LiveJob(part)
  /\ reply[k] = "none" /\ Asked(k, {r})
  /\ UNCHANGED <<conn, mapping, mixed, crashed>>
  /\ job' \in [Jobs -> JobObjects]
  /\ \A x \in Jobs \ {j, part} : job'[x] = job[x]
  /\ job'[j].host = c /\ job'[j].cmd = k /\ job'[j].used
  /\ job'[j].dependencies = {part} /\ job'[j].dependents = {}
  /\ job'[part].host = r /\ job'[part].id = nextId[r] /\ job'[part].cmd = k
  /\ job'[part].dependencies = {} /\ job'[part].dependents = {j}

LEMMA ForwardCommandFacts ==
  ASSUME JobInv, NEW c \in Controllers, NEW k \in Commands, NEW r \in Renderers,
         NEW j \in Jobs, NEW part \in Jobs, ForwardCommand(c, k, r, j, part)
  PROVE  Forwarded(c, k, r, j, part)
<1>1. /\ r \in Peers /\ TypeOK /\ j # part /\ ~LiveJob(j) /\ ~LiveJob(part)
      /\ reply[k] = "none" /\ Asked(k, {r})
      /\ UNCHANGED <<conn, mapping, mixed, crashed>>
  BY DEF ForwardCommand, Receives, JobInv, Peers
<1>2. CommandJob(c, k, {part}) \in JobObjects /\ PeerJob(r, k, {j}) \in JobObjects
  BY <1>1, CommandJobFacts, PeerJobFacts
<1>3. /\ job' \in [Jobs -> JobObjects]
      /\ job'[j] = CommandJob(c, k, {part}) /\ job'[part] = PeerJob(r, k, {j})
      /\ \A x \in Jobs \ {j, part} : job'[x] = job[x]
  BY <1>1, <1>2 DEF ForwardCommand, TypeOK
<1>4. /\ job'[j].host = c /\ job'[j].cmd = k /\ job'[j].used
      /\ job'[j].dependencies = {part} /\ job'[j].dependents = {}
  BY <1>3, CommandJobFacts
<1>5. /\ job'[part].host = r /\ job'[part].id = nextId[r] /\ job'[part].cmd = k
      /\ job'[part].dependencies = {} /\ job'[part].dependents = {j}
  BY <1>1, <1>3, PeerJobFacts
<1> QED BY <1>1, <1>3, <1>4, <1>5 DEF Forwarded

LEMMA ForwardCommandKeepsJobInv ==
  ASSUME JobInv, NEW c \in Controllers, NEW k \in Commands, NEW r \in Renderers,
         NEW j \in Jobs, NEW part \in Jobs, ForwardCommand(c, k, r, j, part)
  PROVE  JobInv'
<1>0. Forwarded(c, k, r, j, part)
  BY ForwardCommandFacts
<1>1. /\ r \in Peers /\ j # part /\ ~LiveJob(j) /\ ~LiveJob(part)
      /\ reply[k] = "none" /\ Asked(k, {r})
      /\ UNCHANGED <<conn, mapping, mixed, crashed>>
      /\ TypeOK
  BY <1>0 DEF Forwarded, JobInv
<1>2. /\ job' \in [Jobs -> JobObjects]
      /\ \A x \in Jobs \ {j, part} : job'[x] = job[x]
  BY <1>0 DEF Forwarded
<1>3. /\ job'[j].host = c /\ job'[j].cmd = k
      /\ job'[j].dependencies = {part} /\ job'[j].dependents = {}
      /\ job'[part].host = r /\ job'[part].id = nextId[r]
      /\ job'[part].dependencies = {} /\ job'[part].dependents = {j}
  BY <1>0 DEF Forwarded
<1>4. JobGraphSound' /\ JobKinds'
  BY <1>1, <1>2, <1>3, NewCommandFacts
<1>5. unfinished' \in [Peers -> [Ids -> Jobs \cup {NULL}]] /\ JobTableSound'
  <2> DEFINE assigned == [p \in {r} |-> part]
  <2>1. assigned \in [{r} -> {j, part}] /\ assigned[r] = part /\ AddJobs(assigned)
    BY DEF ForwardCommand
  <2> HIDE DEF assigned
  <2>2. \A p \in {r} : job'[assigned[p]].host = p /\ job'[assigned[p]].id = nextId[p]
    BY <1>3, <2>1
  <2>3. /\ {j, part} \in SUBSET Jobs /\ {r} \in SUBSET Peers
        /\ \A x \in {j, part} : ~LiveJob(x)
    BY <1>1
  <2> QED BY <1>2, <2>1, <2>2, <2>3, NewEntriesFacts
<1>6. nextId' \in [Peers -> Ids] /\ sent' \in [Peers -> [Ids -> Packages]]
  <2>1. [kind |-> "command", cmd |-> k] \in Packages
    BY DEF Packages
  <2>2. SendTo({r}, [kind |-> "command", cmd |-> k])
    BY DEF ForwardCommand
  <2> QED BY <1>1, <2>1, <2>2, SendToFacts
<1>7. /\ owed' \in [Commands -> SUBSET Peers]
      /\ reply' \in [Commands ->
                  {"none", "waiting", "done", "failed", "lost", "unheard", "twice"}]
      /\ AnsweredOnce'
  BY <1>1, AskedFacts
<1>8. OneAnswerer'
  <2>1. \A x \in Jobs : x # j /\ job'[x].host \in Controllers => job'[x] = job[x]
    BY <1>1, <1>2, <1>3, Addresses
  <2> QED BY <1>1, <1>3, <2>1, AskedByJobFacts
<1>9. TypeOK'
  BY <1>1, <1>2, <1>5, <1>6, <1>7 DEF TypeOK
<1> QED BY <1>4, <1>5, <1>7, <1>8, <1>9 DEF JobInv

(* What connecting a view to a renderer does to the jobs.                  *)
Connected(c, k, w, r, j, partW, partR) ==
  /\ w \in Peers /\ r \in Peers /\ w # r
  /\ j # partW /\ j # partR /\ partW # partR
  /\ ~LiveJob(j) /\ ~LiveJob(partW) /\ ~LiveJob(partR)
  /\ reply[k] = "none" /\ Asked(k, {w, r})
  /\ UNCHANGED <<conn, mapping, mixed, crashed>>
  /\ job' \in [Jobs -> JobObjects]
  /\ \A x \in Jobs \ {j, partW, partR} : job'[x] = job[x]
  /\ job'[j].host = c /\ job'[j].cmd = k /\ job'[j].used
  /\ job'[j].dependencies = {partW, partR} /\ job'[j].dependents = {}
  /\ job'[partW].host = w /\ job'[partW].id = nextId[w] /\ job'[partW].cmd = k
  /\ job'[partR].host = r /\ job'[partR].id = nextId[r] /\ job'[partR].cmd = k
  /\ \A x \in {partW, partR} :
       job'[x].dependencies = {} /\ job'[x].dependents = {j}

LEMMA ConnectCommandFacts ==
  ASSUME JobInv, NEW c \in Controllers, NEW k \in Commands,
         NEW w \in Viewers, NEW r \in Renderers,
         NEW j \in Jobs, NEW partW \in Jobs, NEW partR \in Jobs,
         ConnectCommand(c, k, w, r, j, partW, partR)
  PROVE  Connected(c, k, w, r, j, partW, partR)
<1>1. /\ w \in Peers /\ r \in Peers /\ w # r /\ TypeOK
      /\ j # partW /\ j # partR /\ partW # partR
      /\ ~LiveJob(j) /\ ~LiveJob(partW) /\ ~LiveJob(partR)
      /\ reply[k] = "none" /\ Asked(k, {w, r})
      /\ UNCHANGED <<conn, mapping, mixed, crashed>>
  BY ViewersAreNoRenderers DEF ConnectCommand, Receives, JobInv, Peers
<1>2. /\ CommandJob(c, k, {partW, partR}) \in JobObjects
      /\ PeerJob(w, k, {j}) \in JobObjects /\ PeerJob(r, k, {j}) \in JobObjects
  BY <1>1, CommandJobFacts, PeerJobFacts
<1>3. /\ job' \in [Jobs -> JobObjects]
      /\ job'[j] = CommandJob(c, k, {partW, partR})
      /\ job'[partW] = PeerJob(w, k, {j}) /\ job'[partR] = PeerJob(r, k, {j})
      /\ \A x \in Jobs \ {j, partW, partR} : job'[x] = job[x]
  BY <1>1, <1>2 DEF ConnectCommand, TypeOK
<1>4. /\ job'[j].host = c /\ job'[j].cmd = k /\ job'[j].used
      /\ job'[j].dependencies = {partW, partR} /\ job'[j].dependents = {}
  BY <1>3, CommandJobFacts
<1>5. /\ job'[partW].host = w /\ job'[partW].id = nextId[w] /\ job'[partW].cmd = k
      /\ job'[partR].host = r /\ job'[partR].id = nextId[r] /\ job'[partR].cmd = k
      /\ \A x \in {partW, partR} :
           job'[x].dependencies = {} /\ job'[x].dependents = {j}
  BY <1>1, <1>3, PeerJobFacts
<1> QED BY <1>1, <1>3, <1>4, <1>5 DEF Connected

LEMMA ConnectCommandKeepsJobInv ==
  ASSUME JobInv, NEW c \in Controllers, NEW k \in Commands,
         NEW w \in Viewers, NEW r \in Renderers,
         NEW j \in Jobs, NEW partW \in Jobs, NEW partR \in Jobs,
         ConnectCommand(c, k, w, r, j, partW, partR)
  PROVE  JobInv'
<1>0. Connected(c, k, w, r, j, partW, partR)
  BY ConnectCommandFacts
<1>1. /\ w \in Peers /\ r \in Peers /\ w # r /\ TypeOK
      /\ j # partW /\ j # partR /\ partW # partR
      /\ ~LiveJob(j) /\ ~LiveJob(partW) /\ ~LiveJob(partR)
      /\ reply[k] = "none" /\ Asked(k, {w, r})
      /\ UNCHANGED <<conn, mapping, mixed, crashed>>
  BY <1>0 DEF Connected, JobInv
<1>2. /\ job' \in [Jobs -> JobObjects]
      /\ \A x \in Jobs \ {j, partW, partR} : job'[x] = job[x]
  BY <1>0 DEF Connected
<1>3. /\ job'[j].host = c /\ job'[j].cmd = k
      /\ job'[j].dependencies = {partW, partR} /\ job'[j].dependents = {}
      /\ job'[partW].host = w /\ job'[partW].id = nextId[w]
      /\ job'[partR].host = r /\ job'[partR].id = nextId[r]
      /\ \A x \in {partW, partR} : job'[x].dependencies = {} /\ job'[x].dependents = {j}
  BY <1>0 DEF Connected
<1>4. JobGraphSound' /\ JobKinds'
  <2> DEFINE S == {partW, partR}
  <2>1. /\ S \in SUBSET Jobs /\ j \notin S /\ \A x \in S : ~LiveJob(x)
        /\ job'[j].dependencies = S
        /\ \A x \in S : /\ job'[x].host \in Peers
                        /\ job'[x].dependencies = {} /\ job'[x].dependents = {j}
        /\ \A x \in Jobs \ (S \cup {j}) : job'[x] = job[x]
    BY <1>1, <1>2, <1>3
  <2> HIDE DEF S
  <2> QED BY <1>1, <1>2, <1>3, <2>1, NewCommandFacts
<1>5. unfinished' \in [Peers -> [Ids -> Jobs \cup {NULL}]] /\ JobTableSound'
  <2> DEFINE assigned == [p \in {w, r} |-> IF p = w THEN partW ELSE partR]
  <2>1. /\ assigned \in [{w, r} -> {j, partW, partR}] /\ AddJobs(assigned)
        /\ assigned[w] = partW /\ assigned[r] = partR
    BY <1>1 DEF ConnectCommand
  <2> HIDE DEF assigned
  <2>2. \A p \in {w, r} : job'[assigned[p]].host = p /\ job'[assigned[p]].id = nextId[p]
    BY <1>3, <2>1
  <2>3. /\ {j, partW, partR} \in SUBSET Jobs /\ {w, r} \in SUBSET Peers
        /\ \A x \in {j, partW, partR} : ~LiveJob(x)
    BY <1>1
  <2> QED BY <1>2, <2>1, <2>2, <2>3, NewEntriesFacts
<1>6. nextId' \in [Peers -> Ids] /\ sent' \in [Peers -> [Ids -> Packages]]
  <2>1. [kind |-> "command", cmd |-> k] \in Packages
    BY DEF Packages
  <2>2. SendTo({w, r}, [kind |-> "command", cmd |-> k])
    BY DEF ConnectCommand
  <2> QED BY <1>1, <2>1, <2>2, SendToFacts
<1>7. /\ owed' \in [Commands -> SUBSET Peers]
      /\ reply' \in [Commands ->
                  {"none", "waiting", "done", "failed", "lost", "unheard", "twice"}]
      /\ AnsweredOnce'
  BY <1>1, AskedFacts
<1>8. OneAnswerer'
  <2>1. \A x \in Jobs : x # j /\ job'[x].host \in Controllers => job'[x] = job[x]
    BY <1>1, <1>2, <1>3, Addresses
  <2> QED BY <1>1, <1>3, <2>1, AskedByJobFacts
<1>9. TypeOK'
  BY <1>1, <1>2, <1>5, <1>6, <1>7 DEF TypeOK
<1> QED BY <1>4, <1>5, <1>7, <1>8, <1>9 DEF JobInv

(* What connecting the view of a new renderer does to the jobs.            *)
NewRendererConnected(w, r, partW, partR) ==
  /\ w \in Peers /\ r \in Peers /\ w # r
  /\ partW # partR /\ ~LiveJob(partW) /\ ~LiveJob(partR)
  /\ UNCHANGED <<conn, mapping, owed, reply, mixed, crashed>>
  /\ job' \in [Jobs -> JobObjects]
  /\ \A x \in Jobs \ {partW, partR} : job'[x] = job[x]
  /\ job'[partW].host = w /\ job'[partW].id = nextId[w] /\ job'[partW].cmd = NULL
  /\ job'[partR].host = r /\ job'[partR].id = nextId[r] /\ job'[partR].cmd = NULL
  /\ \A x \in {partW, partR} : job'[x].dependencies = {} /\ job'[x].dependents = {}

LEMMA ConnectNewRendererFacts ==
  ASSUME JobInv, NEW w \in Viewers, NEW r \in Renderers,
         NEW partW \in Jobs, NEW partR \in Jobs, ConnectNewRenderer(w, r, partW, partR)
  PROVE  NewRendererConnected(w, r, partW, partR)
<1>1. /\ w \in Peers /\ r \in Peers /\ w # r /\ TypeOK
      /\ partW # partR /\ ~LiveJob(partW) /\ ~LiveJob(partR)
      /\ UNCHANGED <<conn, mapping, owed, reply, mixed, crashed>>
  BY ViewersAreNoRenderers DEF ConnectNewRenderer, JobInv, Peers, outside
<1>2. PeerJob(w, NULL, {}) \in JobObjects /\ PeerJob(r, NULL, {}) \in JobObjects
  BY <1>1, PeerJobFacts
<1>3. /\ job' \in [Jobs -> JobObjects]
      /\ job'[partW] = PeerJob(w, NULL, {}) /\ job'[partR] = PeerJob(r, NULL, {})
      /\ \A x \in Jobs \ {partW, partR} : job'[x] = job[x]
  BY <1>1, <1>2 DEF ConnectNewRenderer, TypeOK
<1>4. /\ job'[partW].host = w /\ job'[partW].id = nextId[w] /\ job'[partW].cmd = NULL
      /\ job'[partR].host = r /\ job'[partR].id = nextId[r] /\ job'[partR].cmd = NULL
      /\ \A x \in {partW, partR} : job'[x].dependencies = {} /\ job'[x].dependents = {}
  BY <1>1, <1>3, PeerJobFacts
<1> QED BY <1>1, <1>3, <1>4 DEF NewRendererConnected

LEMMA ConnectNewRendererKeepsJobInv ==
  ASSUME JobInv, NEW w \in Viewers, NEW r \in Renderers,
         NEW partW \in Jobs, NEW partR \in Jobs, ConnectNewRenderer(w, r, partW, partR)
  PROVE  JobInv'
<1>0. NewRendererConnected(w, r, partW, partR)
  BY ConnectNewRendererFacts
<1>1. /\ w \in Peers /\ r \in Peers /\ w # r /\ TypeOK
      /\ partW # partR /\ ~LiveJob(partW) /\ ~LiveJob(partR)
      /\ UNCHANGED <<conn, mapping, owed, reply, mixed, crashed>>
  BY <1>0 DEF NewRendererConnected, JobInv
<1>2. /\ job' \in [Jobs -> JobObjects]
      /\ \A x \in Jobs \ {partW, partR} : job'[x] = job[x]
  BY <1>0 DEF NewRendererConnected
<1>3. /\ job'[partW].host = w /\ job'[partW].id = nextId[w]
      /\ job'[partR].host = r /\ job'[partR].id = nextId[r]
      /\ \A x \in {partW, partR} : job'[x].dependencies = {} /\ job'[x].dependents = {}
  BY <1>0 DEF NewRendererConnected
<1>4. JobGraphSound' /\ JobKinds'
  <2>1. {partW, partR} \in SUBSET Jobs /\ \A x \in {partW, partR} : ~LiveJob(x)
    BY <1>1
  <2> QED BY <1>2, <1>3, <2>1, NewLoneJobsFacts
<1>5. unfinished' \in [Peers -> [Ids -> Jobs \cup {NULL}]] /\ JobTableSound'
  <2> DEFINE assigned == [p \in {w, r} |-> IF p = w THEN partW ELSE partR]
  <2>1. /\ assigned \in [{w, r} -> {partW, partR}] /\ AddJobs(assigned)
        /\ assigned[w] = partW /\ assigned[r] = partR
    BY <1>1 DEF ConnectNewRenderer
  <2> HIDE DEF assigned
  <2>2. \A p \in {w, r} : job'[assigned[p]].host = p /\ job'[assigned[p]].id = nextId[p]
    BY <1>3, <2>1
  <2>3. /\ {partW, partR} \in SUBSET Jobs /\ {w, r} \in SUBSET Peers
        /\ \A x \in {partW, partR} : ~LiveJob(x)
    BY <1>1
  <2> QED BY <1>2, <2>1, <2>2, <2>3, NewEntriesFacts
<1>6. nextId' \in [Peers -> Ids] /\ sent' \in [Peers -> [Ids -> Packages]]
  <2>1. [kind |-> "command", cmd |-> NULL] \in Packages
    BY DEF Packages
  <2>2. SendTo({w, r}, [kind |-> "command", cmd |-> NULL])
    BY DEF ConnectNewRenderer
  <2> QED BY <1>1, <2>1, <2>2, SendToFacts
<1>7. OneAnswerer' /\ AnsweredOnce'
  <2>1. \A x \in Jobs : job'[x].host \in Controllers => job'[x] = job[x]
    BY <1>1, <1>2, <1>3, Addresses
  <2> QED BY <1>1, <2>1 DEF JobInv, OneAnswerer, AnsweredOnce
<1>8. TypeOK'
  BY <1>1, <1>2, <1>5, <1>6 DEF TypeOK
<1> QED BY <1>4, <1>5, <1>7, <1>8 DEF JobInv

LEMMA ForwardRequestKeepsJobInv ==
  ASSUME JobInv, NEW c \in Controllers, NEW k \in Commands, NEW r \in Renderers,
         ForwardRequest(c, k, r)
  PROVE  JobInv'
<1> DEFINE new == [host |-> c, cmd |-> k]
<1>1. /\ r \in Peers /\ TypeOK /\ nextId[r] \in Ids
      /\ reply[k] = "none" /\ Asked(k, {r})
      /\ UNCHANGED <<conn, job, unfinished, mixed, crashed>>
  BY DEF ForwardRequest, Receives, JobInv, Peers, TypeOK
<1>2. new \in Originals /\ new # NoOriginal
  <2>1. new.host = c /\ NoOriginal.host = NULL /\ c # NULL
    BY Addresses DEF NoOriginal
  <2> QED BY <2>1 DEF Originals
<1>3. /\ mapping' \in [Peers -> [Ids -> Originals]]
      /\ \A p \in Peers, i \in Ids :
           \/ mapping'[p][i] = mapping[p][i]
           \/ p = r /\ i = nextId[r] /\ mapping'[p][i] = new
  BY <1>1, <1>2 DEF ForwardRequest, TypeOK
<1>4. nextId' \in [Peers -> Ids] /\ sent' \in [Peers -> [Ids -> Packages]]
  <2>1. [kind |-> "request", cmd |-> k] \in Packages
    BY DEF Packages
  <2>2. SendTo({r}, [kind |-> "request", cmd |-> k])
    BY DEF ForwardRequest
  <2> QED BY <1>1, <2>1, <2>2, SendToFacts
<1>5. /\ owed' \in [Commands -> SUBSET Peers]
      /\ reply' \in [Commands ->
                  {"none", "waiting", "done", "failed", "lost", "unheard", "twice"}]
      /\ reply'[k] = "waiting" /\ \A l \in Commands : l # k => reply'[l] = reply[l]
      /\ \A j \in Jobs : job[j].host \in Controllers => job[j].cmd # k
      /\ \A p \in Peers, i \in Ids : mapping[p][i] # NoOriginal => mapping[p][i].cmd # k
      /\ AnsweredOnce'
  BY <1>1, AskedFacts
<1>6. JobGraphSound' /\ JobKinds' /\ JobTableSound'
  BY <1>1 DEF JobInv, JobGraphSound, JobKinds, JobTableSound, LiveJob
<1>7. OneAnswerer'
  <2>1. \A j \in Jobs :
          job'[j].host \in Controllers =>
            /\ job'[j].cmd \in Commands /\ reply'[job'[j].cmd] = "waiting"
            /\ \A i \in Jobs :
                 job'[i].host \in Controllers /\ job'[i].cmd = job'[j].cmd => i = j
    BY <1>1, <1>5 DEF JobInv, OneAnswerer
  <2>2. ASSUME NEW p \in Peers, NEW i \in Ids, mapping'[p][i] # NoOriginal
        PROVE  /\ mapping'[p][i].cmd \in Commands /\ reply'[mapping'[p][i].cmd] = "waiting"
               /\ \A j \in Jobs :
                    job'[j].host \in Controllers => job'[j].cmd # mapping'[p][i].cmd
               /\ \A q \in Peers, l \in Ids :
                    mapping'[q][l] # NoOriginal /\ mapping'[q][l].cmd = mapping'[p][i].cmd
                      => q = p /\ l = i
    <3>1. CASE mapping'[p][i] = mapping[p][i]
      <4>1. /\ mapping[p][i] # NoOriginal /\ mapping[p][i].cmd # k
            /\ mapping[p][i].cmd \in Commands /\ reply[mapping[p][i].cmd] = "waiting"
            /\ \A j \in Jobs :
                 job[j].host \in Controllers => job[j].cmd # mapping[p][i].cmd
            /\ \A q \in Peers, l \in Ids :
                 mapping[q][l] # NoOriginal /\ mapping[q][l].cmd = mapping[p][i].cmd
                   => q = p /\ l = i
        BY <1>5, <2>2, <3>1 DEF JobInv, OneAnswerer
      <4>2. ASSUME NEW q \in Peers, NEW l \in Ids, mapping'[q][l] # NoOriginal,
                   mapping'[q][l].cmd = mapping'[p][i].cmd
            PROVE  q = p /\ l = i
        <5>1. mapping'[q][l] = mapping[q][l]
          BY <1>3, <3>1, <4>1, <4>2
        <5> QED BY <3>1, <4>1, <4>2, <5>1
      <4> QED BY <1>1, <1>5, <3>1, <4>1, <4>2
    <3>2. CASE p = r /\ i = nextId[r] /\ mapping'[p][i] = new
      BY <1>1, <1>3, <1>5, <3>2
    <3> QED BY <1>3, <3>1, <3>2
  <2> QED BY <2>1, <2>2 DEF OneAnswerer
<1>8. TypeOK'
  BY <1>1, <1>3, <1>4, <1>5 DEF TypeOK
<1> QED BY <1>5, <1>6, <1>7, <1>8 DEF JobInv

LEMMA SettleCommandKeepsJobInv ==
  ASSUME JobInv, NEW c \in Controllers, NEW k \in Commands,
         NEW answer \in {"done", "failed", "lost"}, SettleCommand(c, k, answer)
  PROVE  JobInv'
<1>1. /\ reply[k] = "none" /\ reply' = [reply EXCEPT ![k] = answer]
      /\ UNCHANGED <<conn, nextId, job, unfinished, mapping, sent, owed, mixed, crashed>>
  BY DEF SettleCommand, Receives, tables
<1>2. TypeOK' /\ AnsweredOnce'
  BY <1>1 DEF JobInv, TypeOK, AnsweredOnce
<1>3. JobGraphSound' /\ JobKinds' /\ JobTableSound'
  BY <1>1 DEF JobInv, JobGraphSound, JobKinds, JobTableSound, LiveJob
<1>4. OneAnswerer'
  BY <1>1 DEF JobInv, TypeOK, OneAnswerer
<1> QED BY <1>2, <1>3, <1>4 DEF JobInv

-----------------------------------------------------------------------------
(* Finishing jobs.                                                         *)

(* What the finished job of a peer is related to: only commands, and those *)
(* it completes were waiting for nothing else.                             *)
LEMMA FinishedFacts ==
  ASSUME JobInv, NEW part \in Jobs, job[part].host \in Peers
  PROVE  /\ job[part].dependencies = {} /\ job[part].dependents \subseteq Jobs
         /\ \A j \in job[part].dependents :
              part \in job[j].dependencies /\ job[j].host \in Controllers /\ j # part
         /\ CompletedBy(part) \subseteq job[part].dependents
         /\ \A j \in CompletedBy(part) : job[j].dependencies = {part}
<1>1. job[part].dependencies = {} /\ job[part].dependents \subseteq Jobs
  BY Addresses DEF JobInv, TypeOK, JobObjects, JobKinds
<1>2. \A j \in job[part].dependents :
        part \in job[j].dependencies /\ job[j].host \in Controllers /\ j # part
  BY <1>1 DEF JobInv, JobGraphSound, JobKinds
<1> QED BY <1>1, <1>2 DEF CompletedBy

LEMMA FinishJobFacts ==
  ASSUME JobInv, NEW part \in Jobs, job[part].host \in Peers, FinishJob(part)
  PROVE  /\ job' \in [Jobs -> JobObjects]
         /\ \A j \in Jobs :
              IF j = part \/ j \in CompletedBy(part) THEN job'[j] = NoJob
              ELSE /\ job'[j].host = job[j].host /\ job'[j].id = job[j].id
                   /\ job'[j].cmd = job[j].cmd /\ job'[j].used = job[j].used
                   /\ job'[j].dependencies = job[j].dependencies \ {part}
                   /\ job'[j].dependents = job[j].dependents
<1>1. \A j \in Jobs : job[j] \in JobObjects
  BY DEF JobInv, TypeOK
<1>2. ASSUME NEW j \in Jobs
      PROVE  [job[j] EXCEPT !.dependencies = @ \ {part}] \in JobObjects
  BY <1>1 DEF JobObjects
<1>3. \A j \in Jobs :
        job'[j] = IF j = part \/ j \in CompletedBy(part) THEN NoJob
                  ELSE IF j \in job[part].dependents
                       THEN [job[j] EXCEPT !.dependencies = @ \ {part}]
                       ELSE job[j]
  BY DEF FinishJob
<1>4. \A j \in Jobs : j \notin job[part].dependents => part \notin job[j].dependencies
  BY DEF JobInv, JobGraphSound
<1>5. job' \in [Jobs -> JobObjects]
  BY <1>1, <1>2, NoJobIsTyped DEF FinishJob
<1>6. ASSUME NEW j \in Jobs, j # part, j \notin CompletedBy(part)
      PROVE  /\ job'[j].host = job[j].host /\ job'[j].id = job[j].id
             /\ job'[j].cmd = job[j].cmd /\ job'[j].used = job[j].used
             /\ job'[j].dependencies = job[j].dependencies \ {part}
             /\ job'[j].dependents = job[j].dependents
  <2>1. CASE j \in job[part].dependents
    <3>1. job'[j] = [job[j] EXCEPT !.dependencies = @ \ {part}]
      BY <1>3, <1>6, <2>1
    <3> QED BY <1>1, <3>1 DEF JobObjects
  <2>2. CASE j \notin job[part].dependents
    <3>1. job'[j] = job[j]
      BY <1>3, <1>6, <2>2
    <3>2. job[j].dependencies \ {part} = job[j].dependencies
      BY <1>4, <2>2
    <3> QED BY <3>1, <3>2
  <2> QED BY <2>1, <2>2
<1> QED BY <1>3, <1>5, <1>6

LEMMA FinishJobKeepsGraph ==
  ASSUME JobInv, NEW part \in Jobs, job[part].host \in Peers, FinishJob(part)
  PROVE  JobGraphSound' /\ JobKinds'
<1> DEFINE Gone == {part} \cup CompletedBy(part)
<1>1. /\ \A j \in Jobs \cap Gone :
           /\ job'[j].dependencies = {} /\ job'[j].dependents = {} /\ job'[j].host = NULL
      /\ \A j \in Jobs \ Gone :
           /\ job'[j].host = job[j].host
           /\ job'[j].dependencies = job[j].dependencies \ {part}
           /\ job'[j].dependents = job[j].dependents
  BY FinishJobFacts DEF NoJob
<1>2. /\ job[part].dependencies = {}
      /\ \A j \in CompletedBy(part) : job[j].dependencies = {part}
  BY FinishedFacts
<1> HIDE DEF Gone
<1>3. part \in Gone /\ \A j \in Gone : j # part => job[j].dependencies = {part}
  BY <1>2 DEF Gone
<1>4. JobKinds'
  BY <1>1 DEF JobInv, JobKinds
<1>5. ASSUME NEW x \in Jobs, NEW y \in Jobs
      PROVE  /\ x \in job'[y].dependencies <=> y \in job'[x].dependents
             /\ x \in job'[y].dependencies =>
                  /\ LiveJob(x)' /\ LiveJob(y)'
                  /\ job'[x].dependencies = {} /\ job'[y].dependents = {}
  <2>1. /\ x \in job[y].dependencies <=> y \in job[x].dependents
        /\ x \in job[y].dependencies =>
             /\ LiveJob(x) /\ LiveJob(y)
             /\ job[x].dependencies = {} /\ job[y].dependents = {}
    BY DEF JobInv, JobGraphSound
  <2>2. CASE y \in Gone
    <3>1. x \in Gone \/ y \notin job[x].dependents
      BY <1>2, <1>3, <2>1, <2>2
    <3> QED BY <1>1, <2>2, <3>1
  <2>3. CASE y \notin Gone /\ x \in Gone
    <3>1. x = part \/ x \notin job[y].dependencies
      BY <1>3, <2>1, <2>3
    <3> QED BY <1>1, <2>3, <3>1
  <2>4. CASE y \notin Gone /\ x \notin Gone
    BY <1>1, <1>3, <2>1, <2>4 DEF LiveJob
  <2> QED BY <2>2, <2>3, <2>4
<1> QED BY <1>4, <1>5 DEF JobGraphSound

(* The process may die on writing to a deleted host: nothing else changes. *)
LEMMA WriteCrashesKeepsJobInv ==
  ASSUME JobInv, NEW c, WriteCrashes(c)
  PROVE  JobInv'
<1>1. UNCHANGED <<conn, nextId, job, unfinished, mapping, sent, owed, reply, mixed>>
      /\ UNCHANGED tables /\ crashed' = TRUE
  BY DEF WriteCrashes, tables, outside
<1> QED BY <1>1, TablesKept DEF JobInv, TypeOK

LEMMA AnsweredFacts ==
  ASSUME TypeOK, NEW p \in Peers, NEW id \in Ids, Answered(p, id)
  PROVE  owed' \in [Commands -> SUBSET Peers]
BY DEF Answered, TypeOK

LEMMA HeardFacts ==
  ASSUME NEW c, NEW k \in Commands, reply[k] = "waiting"
  PROVE  Heard(c, k) \in {"done", "unheard"}
BY DEF Heard

LEMMA AckArrivesKeepsJobInv ==
  ASSUME JobInv, NEW p \in Peers, NEW id \in Ids, AckArrives(p, id)
  PROVE  JobInv'
<1> DEFINE part == unfinished[p][id]
           Done == CompletedBy(part)
<1>1. /\ part \in Jobs /\ job[part].host = p /\ job[part].id = id
      /\ job[part].host \in Peers
  BY DEF AckArrives, JobInv, TypeOK, JobTableSound
<1>2. CASE \E j \in Done : WriteCrashes(job[j].host)
  BY <1>2, WriteCrashesKeepsJobInv
<1>3. CASE ~ \E j \in Done : WriteCrashes(job[j].host)
  <2>1. /\ FinishJob(part) /\ Answered(p, id)
        /\ unfinished' = [unfinished EXCEPT ![p][id] = NULL]
        /\ reply' = [k \in Commands |->
                       IF \E j \in Done : job[j].cmd = k
                       THEN Heard(job[CHOOSE j \in Done : job[j].cmd = k].host, k)
                       ELSE reply[k]]
        /\ UNCHANGED <<conn, nextId, mapping, sent, mixed, crashed>>
    BY <1>3 DEF AckArrives
  <2>2. /\ Done \subseteq Jobs /\ \A j \in Done : job[j].host \in Controllers
    BY <1>1, FinishedFacts
  <2>3. /\ job' \in [Jobs -> JobObjects]
        /\ \A j \in Jobs :
             IF j = part \/ j \in Done THEN job'[j].host = NULL
             ELSE job'[j].host = job[j].host /\ job'[j].id = job[j].id
                    /\ job'[j].cmd = job[j].cmd
    BY <1>1, <2>1, FinishJobFacts DEF NoJob
  <2>4. JobGraphSound' /\ JobKinds'
    BY <1>1, <2>1, FinishJobKeepsGraph
  <2> HIDE DEF Done, part
  <2>5. unfinished' \in [Peers -> [Ids -> Jobs \cup {NULL}]] /\ JobTableSound'
    <3>1. /\ unfinished' \in [Peers -> [Ids -> Jobs \cup {NULL}]]
          /\ \A q \in Peers, i \in Ids :
               unfinished'[q][i] = IF q = p /\ i = id THEN NULL ELSE unfinished[q][i]
      BY <2>1 DEF JobInv, TypeOK
    <3>2. ASSUME NEW q \in Peers, NEW i \in Ids, unfinished'[q][i] # NULL
          PROVE  job'[unfinished'[q][i]].host = q /\ job'[unfinished'[q][i]].id = i
      <4>1. /\ unfinished'[q][i] = unfinished[q][i] /\ unfinished[q][i] \in Jobs
            /\ ~(q = p /\ i = id)
            /\ job[unfinished[q][i]].host = q /\ job[unfinished[q][i]].id = i
        BY <3>1, <3>2 DEF JobInv, TypeOK, JobTableSound
      <4>2. unfinished[q][i] # part /\ unfinished[q][i] \notin Done
        BY <1>1, <2>2, <4>1, Addresses
      <4> QED BY <2>3, <4>1, <4>2
    <3> QED BY <3>1, <3>2 DEF JobTableSound
  <2>6. \A k \in Commands :
          /\ (\E j \in Done : job[j].cmd = k) => reply'[k] \in {"done", "unheard"}
          /\ ~ (\E j \in Done : job[j].cmd = k) => reply'[k] = reply[k]
    <3>1. \A j \in Done : reply[job[j].cmd] = "waiting"
      BY <2>2 DEF JobInv, OneAnswerer
    <3> QED BY <2>1, <3>1, HeardFacts
  <2>7. AnsweredOnce' /\ reply' \in [Commands ->
                  {"none", "waiting", "done", "failed", "lost", "unheard", "twice"}]
    <3>1. \A k \in Commands :
            /\ reply'[k] # "twice"
            /\ reply'[k] \in {"none", "waiting", "done", "failed", "lost", "unheard", "twice"}
      BY <2>6 DEF JobInv, TypeOK, AnsweredOnce
    <3> QED BY <2>1, <3>1 DEF AnsweredOnce
  <2>8. OneAnswerer'
    <3>1. ASSUME NEW j \in Jobs, job'[j].host \in Controllers
          PROVE  /\ j \notin Done /\ job[j].host \in Controllers /\ job'[j].cmd = job[j].cmd
                 /\ \A i \in Done : job[i].cmd # job[j].cmd
      <4>1. j \notin Done /\ job[j].host \in Controllers /\ job'[j].cmd = job[j].cmd
        BY <2>3, <3>1, Addresses
      <4> QED BY <2>2, <4>1 DEF JobInv, OneAnswerer
    <3>2. ASSUME NEW j \in Jobs, job'[j].host \in Controllers
          PROVE  /\ job'[j].cmd \in Commands /\ reply'[job'[j].cmd] = "waiting"
                 /\ \A i \in Jobs :
                      job'[i].host \in Controllers /\ job'[i].cmd = job'[j].cmd => i = j
      BY <2>6, <3>1, <3>2 DEF JobInv, OneAnswerer
    <3>3. ASSUME NEW q \in Peers, NEW i \in Ids, mapping[q][i] # NoOriginal
          PROVE  /\ mapping[q][i].cmd \in Commands /\ reply'[mapping[q][i].cmd] = "waiting"
                 /\ \A j \in Jobs :
                      job'[j].host \in Controllers => job'[j].cmd # mapping[q][i].cmd
      <4>1. /\ mapping[q][i].cmd \in Commands /\ reply[mapping[q][i].cmd] = "waiting"
            /\ \A j \in Jobs :
                 job[j].host \in Controllers => job[j].cmd # mapping[q][i].cmd
        BY <3>3 DEF JobInv, OneAnswerer
      <4> QED BY <2>2, <2>6, <3>1, <4>1
    <3> QED BY <2>1, <3>2, <3>3 DEF JobInv, OneAnswerer
  <2>9. TypeOK'
    BY <2>1, <2>3, <2>5, <2>7, AnsweredFacts DEF JobInv, TypeOK
  <2> QED BY <2>4, <2>5, <2>7, <2>8, <2>9 DEF JobInv
<1> QED BY <1>2, <1>3

LEMMA ResponseArrivesKeepsJobInv ==
  ASSUME JobInv, NEW p \in Peers, NEW id \in Ids, ResponseArrives(p, id)
  PROVE  JobInv'
<1> DEFINE original == mapping[p][id]
           k == original.cmd
<1>1. CASE WriteCrashes(original.host)
  BY <1>1, WriteCrashesKeepsJobInv
<1>2. CASE ~ WriteCrashes(original.host)
  <2>1. /\ original # NoOriginal
        /\ mapping' = [mapping EXCEPT ![p][id] = NoOriginal] /\ Answered(p, id)
        /\ reply' = [reply EXCEPT ![k] = Heard(original.host, k)]
        /\ UNCHANGED <<conn, nextId, job, unfinished, sent, mixed, crashed>>
    BY <1>2 DEF ResponseArrives
  <2>2. /\ k \in Commands /\ reply[k] = "waiting"
        /\ \A j \in Jobs : job[j].host \in Controllers => job[j].cmd # k
        /\ \A q \in Peers, i \in Ids :
             mapping[q][i] # NoOriginal /\ mapping[q][i].cmd = k => q = p /\ i = id
    BY <2>1 DEF JobInv, OneAnswerer
  <2>3. /\ mapping' \in [Peers -> [Ids -> Originals]]
        /\ \A q \in Peers, i \in Ids :
             mapping'[q][i] = IF q = p /\ i = id THEN NoOriginal ELSE mapping[q][i]
    <3>1. NoOriginal \in Originals
      BY DEF NoOriginal, Originals
    <3> QED BY <2>1, <3>1 DEF JobInv, TypeOK
  <2> HIDE DEF original, k
  <2>4. /\ reply' \in [Commands ->
                  {"none", "waiting", "done", "failed", "lost", "unheard", "twice"}]
        /\ \A l \in Commands : l # k => reply'[l] = reply[l]
        /\ reply'[k] # "twice"
    BY <2>1, <2>2, HeardFacts DEF JobInv, TypeOK
  <2>5. JobGraphSound' /\ JobKinds' /\ JobTableSound'
    BY <2>1 DEF JobInv, JobGraphSound, JobKinds, JobTableSound, LiveJob
  <2>6. OneAnswerer' /\ AnsweredOnce'
    <3>1. AnsweredOnce'
      BY <2>4 DEF JobInv, AnsweredOnce
    <3>2. ASSUME NEW q \in Peers, NEW i \in Ids, mapping'[q][i] # NoOriginal
          PROVE  mapping'[q][i] = mapping[q][i] /\ mapping[q][i].cmd # k
      BY <2>2, <2>3, <3>2
    <3>3. OneAnswerer'
      BY <2>1, <2>2, <2>4, <3>2 DEF JobInv, OneAnswerer
    <3> QED BY <3>1, <3>3
  <2>7. TypeOK'
    BY <2>1, <2>3, <2>4, AnsweredFacts DEF JobInv, TypeOK
  <2> QED BY <2>5, <2>6, <2>7 DEF JobInv
<1> QED BY <1>1, <1>2

-----------------------------------------------------------------------------
LEMMA NextKeepsJobInv == JobInv /\ [Next]_vars => JobInv'
<1> SUFFICES ASSUME JobInv, [Next]_vars PROVE JobInv'
  OBVIOUS
<1>1. CASE HostStep
  BY <1>1, HostStepKeepsJobInv
<1>2. ASSUME NEW c \in Controllers, NEW k \in Commands, CommandStep(c, k)
      PROVE  JobInv'
  BY <1>2, SettleCommandKeepsJobInv, ForwardRequestKeepsJobInv, ForwardCommandKeepsJobInv,
     ConnectCommandKeepsJobInv DEF CommandStep
<1>3. CASE RendererInitialized
  BY <1>3, ConnectNewRendererKeepsJobInv DEF RendererInitialized
<1>4. ASSUME NEW p \in Peers, NEW id \in Ids, AnswerArrives(p, id)
      PROVE  JobInv'
  BY <1>4, AckArrivesKeepsJobInv, ResponseArrivesKeepsJobInv DEF AnswerArrives
<1>5. CASE UNCHANGED vars
  <2>1. UNCHANGED <<tables, reply>> /\ UNCHANGED <<conn, nextId, job, unfinished, mapping,
                                                  sent, owed, reply, mixed, crashed>>
    BY <1>5 DEF vars, tables, outside
  <2> QED BY <2>1, TablesKept DEF JobInv, TypeOK
<1> QED BY <1>1, <1>2, <1>3, <1>4, <1>5 DEF Next

(* The invariant holds in every execution of the daemon.                   *)
THEOREM JobInvariant == Spec => []JobInv
BY InitJobInv, NextKeepsJobInv, PTL DEF Spec

(* Every table holds values of its type, whatever hosts come and go.       *)
THEOREM JobTypeCorrect == Spec => []TypeOK
<1>1. JobInv => TypeOK
  BY DEF JobInv
<1> QED BY <1>1, JobInvariant, PTL

(* Dependencies and dependents stay inverse to each other, between jobs    *)
(* that are alive (JobManager::addDependency, finishJob).                  *)
THEOREM JobGraphStaysSound == Spec => []JobGraphSound
<1>1. JobInv => JobGraphSound
  BY DEF JobInv
<1> QED BY <1>1, JobInvariant, PTL

(* Every entry of unfinishedJobs leads to a live job of that peer and id   *)
(* (JobManager::addJob, retrieveJob, removeJob).                           *)
THEOREM JobTableStaysSound == Spec => []JobTableSound
<1>1. JobInv => JobTableSound
  BY DEF JobInv
<1> QED BY <1>1, JobInvariant, PTL

(* No command is answered twice (JobManager::finishJob,                    *)
(* retrieveAndDeleteRequestResponseMapping).                               *)
THEOREM NoCommandAnsweredTwice == Spec => []AnsweredOnce
<1>1. JobInv => AnsweredOnce
  BY DEF JobInv
<1> QED BY <1>1, JobInvariant, PTL
-----------------------------------------------------------------------------
(* The tables of JobManager know whose answer each command waits for, and  *)
(* so implement CommandService, as long as no new host gets the address of *)
(* a deleted one that a table still names.                                 *)

(* The job of a peer is found under the id of the package it was made for, *)
(* and while the peer is connected that package names its command.         *)
PartsKnown ==
  \A x \in Jobs :
    job[x].host \in Peers =>
      /\ unfinished[job[x].host][job[x].id] = x
      /\ job[x].id < nextId[job[x].host]
      /\ conn[job[x].host] = "up" =>
           sent[job[x].host][job[x].id] = [kind |-> "command", cmd |-> job[x].cmd]

(* The same for a mapping, which is all that a request waits for.          *)
RequestsKnown ==
  \A p \in Peers, i \in Ids :
    mapping[p][i] # NoOriginal =>
      /\ i < nextId[p]
      /\ conn[p] = "up" => sent[p][i] = [kind |-> "request", cmd |-> mapping[p][i].cmd]
      /\ owed[mapping[p][i].cmd] = {p}

(* The job of a command waits for one job of each peer that owes an answer *)
(* to the command, and a peer's job for a command has one waiting for it.  *)
PartsOfCommand ==
  /\ \A j \in Jobs :
       job[j].host \in Controllers =>
         /\ job[j].used /\ job[j].dependencies # {}
         /\ owed[job[j].cmd] = {job[x].host : x \in job[j].dependencies}
         /\ \A x \in job[j].dependencies : job[x].cmd = job[j].cmd
         /\ \A x, y \in job[j].dependencies : job[x].host = job[y].host => x = y
  /\ \A x \in Jobs : job[x].host \in Peers /\ job[x].cmd # NULL => job[x].dependents # {}

(* Something remembers every command that waits.                           *)
SomeAnswerer ==
  \A k \in Commands :
    reply[k] = "waiting" =>
      \/ \E j \in Jobs : job[j].host \in Controllers /\ job[j].cmd = k
      \/ \E p \in Peers, i \in Ids : mapping[p][i] # NoOriginal /\ mapping[p][i].cmd = k

(* The inductive invariant, on top of JobInv.                              *)
Tracked == PartsKnown /\ RequestsKnown /\ PartsOfCommand /\ SomeAnswerer

-----------------------------------------------------------------------------
LEMMA InitTracked == Init => Tracked
<1> SUFFICES ASSUME Init PROVE Tracked
  OBVIOUS
<1>1. \A j \in Jobs : job[j].host = NULL
  BY DEF Init, NoJob
<1> QED BY <1>1, Addresses
        DEF Init, Tracked, PartsKnown, RequestsKnown, PartsOfCommand, SomeAnswerer

(* The host of a live job is a controller or a peer.                       *)
LEMMA HostKinds ==
  ASSUME TypeOK, NEW j \in Jobs
  PROVE  /\ LiveJob(j) <=> (job[j].host \in Controllers \/ job[j].host \in Peers)
         /\ job[j].id \in Ids /\ job[j].cmd \in Commands \cup {NULL}
         /\ job[j].dependencies \subseteq Jobs /\ job[j].dependents \subseteq Jobs
BY Addresses DEF TypeOK, JobObjects, LiveJob, Hosts

(* Steps that leave the tables and the commands alone.                     *)
LEMMA HostStepKeepsTracked == JobInv /\ Tracked /\ HostStep /\ ~mixed' => Tracked'
<1> SUFFICES ASSUME JobInv, Tracked, ~mixed', NEW h \in Hosts,
                    Connect(h) \/ Disconnect(h) \/ Delete(h)
             PROVE  Tracked'
  BY DEF HostStep
<1>1. UNCHANGED <<job, unfinished, mapping, owed, reply>>
  BY DEF Connect, Disconnect, Delete, tables, outside
<1>2. \A p \in Peers :
        \/ nextId'[p] = nextId[p] /\ sent'[p] = sent[p] /\ (conn'[p] = "up" => conn[p] = "up")
        \/ /\ \A j \in Jobs : job[j].host # p
           /\ \A i \in Ids : mapping[p][i] = NoOriginal
  <2>1. CASE Connect(h)
    <3>1. ~Named(h)
      BY <2>1 DEF Connect
    <3> QED BY <2>1, <3>1, Addresses DEF Connect, Named, JobInv, TypeOK
  <2>2. CASE Disconnect(h) \/ Delete(h)
    BY <2>2, Addresses DEF Disconnect, Delete, JobInv, TypeOK
  <2> QED BY <2>1, <2>2
<1>3. PartsKnown'
  BY <1>1, <1>2 DEF Tracked, PartsKnown
<1>4. RequestsKnown'
  BY <1>1, <1>2 DEF Tracked, RequestsKnown
<1>5. PartsOfCommand' /\ SomeAnswerer'
  BY <1>1 DEF Tracked, PartsOfCommand, SomeAnswerer
<1> QED BY <1>3, <1>4, <1>5 DEF Tracked

-----------------------------------------------------------------------------
(* What sending leaves of the packages that were sent before.              *)
LEMMA SendToEffect ==
  ASSUME TypeOK, NEW P \in SUBSET Peers, NEW package \in Packages, SendTo(P, package)
  PROVE  /\ \A p \in Peers, i \in Ids :
              i < nextId[p] => i < nextId'[p] /\ sent'[p][i] = sent[p][i]
         /\ \A p \in P : /\ nextId[p] \in Ids /\ nextId[p] < nextId'[p]
                         /\ conn[p] = "up" => sent'[p][nextId[p]] = package
<1>1. \A p \in Peers : nextId[p] \in Ids /\ nextId[p] \in Nat
  BY MaxIdIsNat DEF TypeOK, Ids
<1>2. \A p \in Peers : nextId'[p] = IF p \in P THEN nextId[p] + 1 ELSE nextId[p]
  BY DEF SendTo
<1>3. \A p \in Peers, i \in Ids :
        sent'[p][i] = IF p \in P /\ conn[p] = "up" /\ i = nextId[p]
                      THEN package ELSE sent[p][i]
  BY DEF SendTo, TypeOK
<1>4. \A i \in Ids : i \in Nat
  BY MaxIdIsNat DEF Ids
<1> QED BY <1>1, <1>2, <1>3, <1>4

(* Under the next id of a peer there is nothing yet.                       *)
LEMMA NextIdIsFree ==
  ASSUME JobInv, Tracked, NEW p \in Peers
  PROVE  /\ nextId[p] \in Ids
         /\ unfinished[p][nextId[p]] = NULL /\ mapping[p][nextId[p]] = NoOriginal
<1>1. nextId[p] \in Ids /\ ~(nextId[p] < nextId[p])
  BY MaxIdIsNat DEF JobInv, TypeOK, Ids
<1>2. mapping[p][nextId[p]] = NoOriginal
  BY <1>1 DEF Tracked, RequestsKnown
<1>3. ASSUME unfinished[p][nextId[p]] # NULL PROVE FALSE
  <2>1. /\ unfinished[p][nextId[p]] \in Jobs
        /\ job[unfinished[p][nextId[p]]].host = p
        /\ job[unfinished[p][nextId[p]]].id = nextId[p]
    BY <1>1, <1>3 DEF JobInv, TypeOK, JobTableSound
  <2> QED BY <1>1, <2>1 DEF Tracked, PartsKnown
<1> QED BY <1>1, <1>2, <1>3

(* The jobs in N are new, those of peers are entered and sent for.         *)
LEMMA NewPartsKnown ==
  ASSUME JobInv, Tracked, NEW N \in SUBSET Jobs,
         \A x \in Jobs \ N : job'[x] = job[x],
         NEW P \in SUBSET Peers, NEW assigned \in [P -> N], AddJobs(assigned),
         NEW k \in Commands \cup {NULL}, SendTo(P, [kind |-> "command", cmd |-> k]),
         UNCHANGED conn,
         \A p \in P : /\ job'[assigned[p]].host = p /\ job'[assigned[p]].id = nextId[p]
                      /\ job'[assigned[p]].cmd = k,
         \A x \in N : job'[x].host \in Peers => \E p \in P : x = assigned[p]
  PROVE  PartsKnown'
<1>1. [kind |-> "command", cmd |-> k] \in Packages /\ TypeOK
  BY DEF Packages, JobInv
<1>2. /\ \A p \in Peers, i \in Ids :
           i < nextId[p] => i < nextId'[p] /\ sent'[p][i] = sent[p][i]
      /\ \A p \in P : /\ nextId[p] \in Ids /\ nextId[p] < nextId'[p]
                      /\ conn[p] = "up" =>
                           sent'[p][nextId[p]] = [kind |-> "command", cmd |-> k]
  BY <1>1, SendToEffect
<1>3. /\ \A p \in P : unfinished'[p][nextId[p]] = assigned[p]
      /\ \A p \in Peers, i \in Ids :
           i < nextId[p] => unfinished'[p][i] = unfinished[p][i]
  <2>1. \A p \in P : unfinished[p][nextId[p]] = NULL
    BY NextIdIsFree
  <2>2. \A p \in Peers, i \in Ids : i < nextId[p] => i # nextId[p]
    BY MaxIdIsNat DEF JobInv, TypeOK, Ids
  <2>3. \A p \in Peers : nextId[p] \in Ids /\ unfinished[p] \in [Ids -> Jobs \cup {NULL}]
    BY <1>1 DEF TypeOK
  <2>4. \A p \in Peers :
          unfinished'[p] = IF p \in P /\ unfinished[p][nextId[p]] = NULL
                           THEN [unfinished[p] EXCEPT ![nextId[p]] = assigned[p]]
                           ELSE unfinished[p]
    <3>1. DOMAIN assigned = P
      OBVIOUS
    <3> QED BY <3>1 DEF AddJobs
  <2>5. ASSUME NEW p \in P
        PROVE  unfinished'[p][nextId[p]] = assigned[p]
    <3>1. p \in Peers
      OBVIOUS
    <3>2. unfinished'[p] = [unfinished[p] EXCEPT ![nextId[p]] = assigned[p]]
      BY <2>1, <2>4, <3>1
    <3> QED BY <2>3, <3>1, <3>2
  <2>6. ASSUME NEW p \in Peers, NEW i \in Ids, i < nextId[p]
        PROVE  unfinished'[p][i] = unfinished[p][i]
    <3>1. CASE p \in P /\ unfinished[p][nextId[p]] = NULL
      <4>1. unfinished'[p] = [unfinished[p] EXCEPT ![nextId[p]] = assigned[p]]
        BY <2>4, <3>1
      <4> QED BY <2>2, <2>3, <2>6, <4>1
    <3>2. CASE ~(p \in P /\ unfinished[p][nextId[p]] = NULL)
      BY <2>4, <3>2
    <3> QED BY <3>1, <3>2
  <2> QED BY <2>5, <2>6
<1>4. ASSUME NEW x \in Jobs, job'[x].host \in Peers
      PROVE  /\ unfinished'[job'[x].host][job'[x].id] = x
             /\ job'[x].id < nextId'[job'[x].host]
             /\ conn'[job'[x].host] = "up" =>
                  sent'[job'[x].host][job'[x].id] = [kind |-> "command", cmd |-> job'[x].cmd]
  <2>1. CASE x \in N
    <3> PICK p \in P : x = assigned[p]
      BY <1>4, <2>1
    <3> QED BY <1>2, <1>3
  <2>2. CASE x \notin N
    <3>1. /\ job'[x] = job[x] /\ job[x].id \in Ids
          /\ unfinished[job[x].host][job[x].id] = x
          /\ job[x].id < nextId[job[x].host]
          /\ conn[job[x].host] = "up" =>
               sent[job[x].host][job[x].id] = [kind |-> "command", cmd |-> job[x].cmd]
      BY <1>1, <1>4, <2>2, HostKinds DEF Tracked, PartsKnown
    <3> QED BY <1>2, <1>3, <1>4, <3>1
  <2> QED BY <2>1, <2>2
<1> QED BY <1>4 DEF PartsKnown

(* Command k waits for the new job j and its parts S.                      *)
LEMMA NewPartsOfCommand ==
  ASSUME JobInv, Tracked, NEW k \in Commands, reply[k] = "none",
         NEW j \in Jobs, NEW S \in SUBSET Jobs, j \notin S, S # {},
         ~LiveJob(j), \A x \in S : ~LiveJob(x),
         NEW P \in SUBSET Peers, P = {job'[x].host : x \in S}, Asked(k, P),
         \A x, y \in S : job'[x].host = job'[y].host => x = y,
         job'[j].host \in Controllers, job'[j].cmd = k, job'[j].used,
         job'[j].dependencies = S,
         \A x \in S : job'[x].host \in Peers /\ job'[x].cmd = k /\ job'[x].dependents = {j},
         \A x \in Jobs \ (S \cup {j}) : job'[x] = job[x],
         UNCHANGED mapping
  PROVE  PartsOfCommand' /\ SomeAnswerer'
<1>1. /\ reply'[k] = "waiting" /\ \A l \in Commands : l # k => reply'[l] = reply[l]
      /\ \A x \in Jobs : job[x].host \in Controllers => job[x].cmd # k
  BY AskedFacts
<1>2. owed'[k] = P /\ \A l \in Commands : l # k => owed'[l] = owed[l]
  BY DEF Asked, JobInv, TypeOK
<1>3. ASSUME NEW i \in Jobs, job'[i].host \in Controllers
      PROVE  /\ job'[i].used /\ job'[i].dependencies # {}
             /\ owed'[job'[i].cmd] = {job'[x].host : x \in job'[i].dependencies}
             /\ \A x \in job'[i].dependencies : job'[x].cmd = job'[i].cmd
             /\ \A x, y \in job'[i].dependencies : job'[x].host = job'[y].host => x = y
  <2>1. CASE i = j
    BY <1>2, <2>1
  <2>2. CASE i # j
    <3>1. i \notin S /\ job'[i] = job[i]
      BY <1>3, <2>2, Addresses
    <3>2. /\ job[i].cmd \in Commands /\ job[i].cmd # k /\ job[i].dependencies \subseteq Jobs
          /\ \A x \in job[i].dependencies : x \notin S \cup {j}
      BY <1>1, <1>3, <3>1, HostKinds, FreeJobFacts DEF JobInv, OneAnswerer
    <3>3. \A x \in job[i].dependencies : job'[x] = job[x]
      BY <3>2
    <3>4. {job'[x].host : x \in job[i].dependencies}
            = {job[x].host : x \in job[i].dependencies}
      BY <3>3
    <3> QED BY <1>2, <1>3, <3>1, <3>2, <3>3, <3>4 DEF Tracked, PartsOfCommand
  <2> QED BY <2>1, <2>2
<1>4. \A x \in Jobs : job'[x].host \in Peers /\ job'[x].cmd # NULL => job'[x].dependents # {}
  BY Addresses DEF Tracked, PartsOfCommand
<1>5. ASSUME NEW l \in Commands, reply'[l] = "waiting"
      PROVE  \/ \E i \in Jobs : job'[i].host \in Controllers /\ job'[i].cmd = l
             \/ \E p \in Peers, i \in Ids :
                  mapping'[p][i] # NoOriginal /\ mapping'[p][i].cmd = l
  <2>1. CASE l = k
    BY <2>1
  <2>2. CASE l # k
    <3>1. reply[l] = "waiting"
      BY <1>1, <1>5, <2>2
    <3>2. \A i \in Jobs : job[i].host \in Controllers => job'[i] = job[i]
      BY HostKinds DEF JobInv
    <3> QED BY <3>1, <3>2 DEF Tracked, SomeAnswerer
  <2> QED BY <2>1, <2>2
<1> QED BY <1>3, <1>4, <1>5 DEF PartsOfCommand, SomeAnswerer

(* Sending for another command disturbs no mapping.                        *)
LEMMA RequestsKept ==
  ASSUME JobInv, Tracked, NEW P \in SUBSET Peers, NEW package \in Packages,
         SendTo(P, package), UNCHANGED <<conn, mapping>>,
         \A p \in Peers, i \in Ids :
           mapping[p][i] # NoOriginal => owed'[mapping[p][i].cmd] = owed[mapping[p][i].cmd]
  PROVE  RequestsKnown'
<1>1. \A p \in Peers, i \in Ids :
        i < nextId[p] => i < nextId'[p] /\ sent'[p][i] = sent[p][i]
  BY SendToEffect DEF JobInv
<1> QED BY <1>1 DEF Tracked, RequestsKnown

LEMMA AskedKeepsRequests ==
  ASSUME JobInv, NEW k \in Commands, reply[k] = "none", NEW P \in SUBSET Peers, Asked(k, P)
  PROVE  \A p \in Peers, i \in Ids :
           mapping[p][i] # NoOriginal => owed'[mapping[p][i].cmd] = owed[mapping[p][i].cmd]
<1>1. \A p \in Peers, i \in Ids :
        mapping[p][i] # NoOriginal => mapping[p][i].cmd # k /\ mapping[p][i].cmd \in Commands
  BY AskedFacts DEF JobInv, OneAnswerer
<1> QED BY <1>1 DEF Asked, JobInv, TypeOK

-----------------------------------------------------------------------------
(* The handlers that pass commands on.                                     *)

LEMMA ForwardCommandKeepsTracked ==
  ASSUME JobInv, Tracked, NEW c \in Controllers, NEW k \in Commands, NEW r \in Renderers,
         NEW j \in Jobs, NEW part \in Jobs, ForwardCommand(c, k, r, j, part)
  PROVE  Tracked'
<1> DEFINE assigned == [p \in {r} |-> part]
           N == {j, part}
           S == {part}
           P == {r}
<1>0. Forwarded(c, k, r, j, part)
  BY ForwardCommandFacts
<1>1. /\ P \in SUBSET Peers /\ N \in SUBSET Jobs /\ S \in SUBSET Jobs /\ j \notin S /\ S # {}
      /\ ~LiveJob(j) /\ (\A x \in S : ~LiveJob(x))
      /\ reply[k] = "none" /\ Asked(k, P) /\ UNCHANGED <<conn, mapping>>
  BY <1>0 DEF Forwarded
<1>2. /\ assigned \in [P -> N] /\ AddJobs(assigned)
      /\ SendTo(P, [kind |-> "command", cmd |-> k])
  BY DEF ForwardCommand
<1>3. /\ \A x \in Jobs \ N : job'[x] = job[x]
      /\ \A x \in Jobs \ (S \cup {j}) : job'[x] = job[x]
      /\ \A p \in P : /\ job'[assigned[p]].host = p /\ job'[assigned[p]].id = nextId[p]
                      /\ job'[assigned[p]].cmd = k
      /\ \A x \in N : job'[x].host \in Peers => \E p \in P : x = assigned[p]
  BY <1>0, Addresses DEF Forwarded
<1>4. /\ P = {job'[x].host : x \in S}
      /\ \A x, y \in S : job'[x].host = job'[y].host => x = y
      /\ job'[j].host \in Controllers /\ job'[j].cmd = k /\ job'[j].used
      /\ job'[j].dependencies = S
      /\ \A x \in S : job'[x].host \in Peers /\ job'[x].cmd = k /\ job'[x].dependents = {j}
  BY <1>0 DEF Forwarded
<1> HIDE DEF assigned, N, S, P
<1>5. PartsKnown'
  BY <1>1, <1>2, <1>3, NewPartsKnown
<1>6. PartsOfCommand' /\ SomeAnswerer'
  BY <1>1, <1>3, <1>4, NewPartsOfCommand
<1>7. RequestsKnown'
  <2>1. [kind |-> "command", cmd |-> k] \in Packages
    BY DEF Packages
  <2> QED BY <1>1, <1>2, <2>1, AskedKeepsRequests, RequestsKept
<1> QED BY <1>5, <1>6, <1>7 DEF Tracked

LEMMA ConnectCommandKeepsTracked ==
  ASSUME JobInv, Tracked, NEW c \in Controllers, NEW k \in Commands,
         NEW w \in Viewers, NEW r \in Renderers,
         NEW j \in Jobs, NEW partW \in Jobs, NEW partR \in Jobs,
         ConnectCommand(c, k, w, r, j, partW, partR)
  PROVE  Tracked'
<1> DEFINE assigned == [p \in {w, r} |-> IF p = w THEN partW ELSE partR]
           N == {j, partW, partR}
           S == {partW, partR}
           P == {w, r}
<1>0. Connected(c, k, w, r, j, partW, partR)
  BY ConnectCommandFacts
<1>1. /\ P \in SUBSET Peers /\ N \in SUBSET Jobs /\ S \in SUBSET Jobs /\ j \notin S /\ S # {}
      /\ ~LiveJob(j) /\ (\A x \in S : ~LiveJob(x))
      /\ reply[k] = "none" /\ Asked(k, P) /\ UNCHANGED <<conn, mapping>>
  BY <1>0 DEF Connected
<1>2. /\ assigned \in [P -> N] /\ AddJobs(assigned)
      /\ SendTo(P, [kind |-> "command", cmd |-> k])
      /\ assigned[w] = partW /\ assigned[r] = partR
  BY <1>0 DEF ConnectCommand, Connected
<1> HIDE DEF assigned
<1>3. /\ \A x \in Jobs \ N : job'[x] = job[x]
      /\ \A x \in Jobs \ (S \cup {j}) : job'[x] = job[x]
      /\ \A p \in P : /\ job'[assigned[p]].host = p /\ job'[assigned[p]].id = nextId[p]
                      /\ job'[assigned[p]].cmd = k
      /\ \A x \in N : job'[x].host \in Peers => \E p \in P : x = assigned[p]
  BY <1>0, <1>2, Addresses DEF Connected
<1>4. /\ P = {job'[x].host : x \in S}
      /\ \A x, y \in S : job'[x].host = job'[y].host => x = y
      /\ job'[j].host \in Controllers /\ job'[j].cmd = k /\ job'[j].used
      /\ job'[j].dependencies = S
      /\ \A x \in S : job'[x].host \in Peers /\ job'[x].cmd = k /\ job'[x].dependents = {j}
  BY <1>0 DEF Connected
<1> HIDE DEF N, S, P
<1>5. PartsKnown'
  BY <1>1, <1>2, <1>3, NewPartsKnown
<1>6. PartsOfCommand' /\ SomeAnswerer'
  BY <1>1, <1>3, <1>4, NewPartsOfCommand
<1>7. RequestsKnown'
  <2>1. [kind |-> "command", cmd |-> k] \in Packages
    BY DEF Packages
  <2> QED BY <1>1, <1>2, <2>1, AskedKeepsRequests, RequestsKept
<1> QED BY <1>5, <1>6, <1>7 DEF Tracked

LEMMA ConnectNewRendererKeepsTracked ==
  ASSUME JobInv, Tracked, NEW w \in Viewers, NEW r \in Renderers,
         NEW partW \in Jobs, NEW partR \in Jobs, ConnectNewRenderer(w, r, partW, partR)
  PROVE  Tracked'
<1> DEFINE assigned == [p \in {w, r} |-> IF p = w THEN partW ELSE partR]
           N == {partW, partR}
           P == {w, r}
<1>0. NewRendererConnected(w, r, partW, partR)
  BY ConnectNewRendererFacts
<1>1. /\ P \in SUBSET Peers /\ N \in SUBSET Jobs /\ (\A x \in N : ~LiveJob(x))
      /\ UNCHANGED <<conn, mapping, owed, reply>>
  BY <1>0 DEF NewRendererConnected
<1>2. /\ assigned \in [P -> N] /\ AddJobs(assigned)
      /\ SendTo(P, [kind |-> "command", cmd |-> NULL])
      /\ assigned[w] = partW /\ assigned[r] = partR
  BY <1>0 DEF ConnectNewRenderer, NewRendererConnected
<1> HIDE DEF assigned
<1>3. /\ \A x \in Jobs \ N : job'[x] = job[x]
      /\ \A p \in P : /\ job'[assigned[p]].host = p /\ job'[assigned[p]].id = nextId[p]
                      /\ job'[assigned[p]].cmd = NULL
      /\ \A x \in N : job'[x].host \in Peers => \E p \in P : x = assigned[p]
      /\ \A x \in N : job'[x].host \in Peers /\ job'[x].cmd = NULL
  BY <1>0, <1>2 DEF NewRendererConnected
<1> HIDE DEF N, P
<1>4. PartsKnown'
  <2>1. NULL \in Commands \cup {NULL}
    OBVIOUS
  <2> QED BY <1>1, <1>2, <1>3, <2>1, NewPartsKnown
<1>5. RequestsKnown'
  <2>1. [kind |-> "command", cmd |-> NULL] \in Packages
    BY DEF Packages
  <2> QED BY <1>1, <1>2, <2>1, RequestsKept
<1>6. PartsOfCommand' /\ SomeAnswerer'
  <2>1. \A x \in Jobs : job'[x].host \in Controllers => job'[x] = job[x] /\ x \notin N
    BY <1>3, Addresses
  <2>2. \A x \in Jobs : job[x].host \in Controllers => job'[x] = job[x]
    BY <1>1, <1>3, HostKinds DEF JobInv
  <2>3. ASSUME NEW i \in Jobs, job'[i].host \in Controllers
        PROVE  /\ job'[i].used /\ job'[i].dependencies # {}
               /\ owed'[job'[i].cmd] = {job'[x].host : x \in job'[i].dependencies}
               /\ \A x \in job'[i].dependencies : job'[x].cmd = job'[i].cmd
               /\ \A x, y \in job'[i].dependencies : job'[x].host = job'[y].host => x = y
    <3>1. \A x \in job[i].dependencies : job'[x] = job[x]
      BY <1>1, <1>3, HostKinds, FreeJobFacts DEF JobInv
    <3>2. {job'[x].host : x \in job[i].dependencies} = {job[x].host : x \in job[i].dependencies}
      BY <3>1
    <3> QED BY <1>1, <2>1, <2>3, <3>1, <3>2 DEF Tracked, PartsOfCommand
  <2>4. \A x \in Jobs : job'[x].host \in Peers /\ job'[x].cmd # NULL => job'[x].dependents # {}
    BY <1>3 DEF Tracked, PartsOfCommand
  <2>5. SomeAnswerer'
    BY <1>1, <2>2 DEF Tracked, SomeAnswerer
  <2> QED BY <2>3, <2>4, <2>5 DEF PartsOfCommand
<1> QED BY <1>4, <1>5, <1>6 DEF Tracked

LEMMA ForwardRequestKeepsTracked ==
  ASSUME JobInv, Tracked, NEW c \in Controllers, NEW k \in Commands, NEW r \in Renderers,
         ForwardRequest(c, k, r)
  PROVE  Tracked'
<1> DEFINE new == [host |-> c, cmd |-> k]
           package == [kind |-> "request", cmd |-> k]
<1>1. /\ r \in Peers /\ {r} \in SUBSET Peers /\ TypeOK /\ package \in Packages
      /\ reply[k] = "none" /\ Asked(k, {r}) /\ SendTo({r}, package)
      /\ UNCHANGED <<conn, job, unfinished>>
  BY DEF ForwardRequest, Receives, JobInv, Peers, Packages
<1>2. /\ nextId[r] \in Ids /\ mapping[r][nextId[r]] = NoOriginal
      /\ mapping' = [mapping EXCEPT ![r][nextId[r]] = new]
  BY <1>1, NextIdIsFree DEF ForwardRequest
<1>3. \A p \in Peers, i \in Ids :
        mapping'[p][i] = IF p = r /\ i = nextId[r] THEN new ELSE mapping[p][i]
  BY <1>1, <1>2 DEF TypeOK
<1>4. new # NoOriginal /\ new.cmd = k
  <2>1. new.host = c /\ NoOriginal.host = NULL
    BY DEF NoOriginal
  <2> QED BY <2>1, Addresses
<1> HIDE DEF package, new
<1>5. /\ \A p \in Peers, i \in Ids :
           i < nextId[p] => i < nextId'[p] /\ sent'[p][i] = sent[p][i]
      /\ nextId[r] < nextId'[r] /\ (conn[r] = "up" => sent'[r][nextId[r]] = package)
  BY <1>1, SendToEffect
<1>6. /\ \A j \in Jobs : job[j].host \in Controllers => job[j].cmd # k /\ job[j].cmd \in Commands
      /\ \A l \in Commands : l # k => reply'[l] = reply[l]
      /\ \A p \in Peers, i \in Ids :
           mapping[p][i] # NoOriginal => owed'[mapping[p][i].cmd] = owed[mapping[p][i].cmd]
  BY <1>1, AskedFacts, AskedKeepsRequests DEF JobInv, OneAnswerer
<1>7. owed'[k] = {r} /\ \A l \in Commands : l # k => owed'[l] = owed[l]
  BY <1>1 DEF Asked, TypeOK
<1>8. PartsKnown'
  <2>1. ASSUME NEW x \in Jobs, job[x].host \in Peers
        PROVE  /\ unfinished[job[x].host][job[x].id] = x
               /\ job[x].id < nextId'[job[x].host]
               /\ conn[job[x].host] = "up" =>
                    sent'[job[x].host][job[x].id] = [kind |-> "command", cmd |-> job[x].cmd]
    <3>1. job[x].id \in Ids
      BY <1>1, HostKinds
    <3> QED BY <1>5, <2>1, <3>1 DEF Tracked, PartsKnown
  <2> QED BY <1>1, <2>1 DEF PartsKnown
<1>9. RequestsKnown'
  <2>1. ASSUME NEW p \in Peers, NEW i \in Ids, mapping'[p][i] # NoOriginal
        PROVE  /\ i < nextId'[p]
               /\ conn'[p] = "up" => sent'[p][i] = [kind |-> "request", cmd |-> mapping'[p][i].cmd]
               /\ owed'[mapping'[p][i].cmd] = {p}
    <3>1. CASE p = r /\ i = nextId[r]
      BY <1>1, <1>3, <1>4, <1>5, <1>7, <3>1 DEF package
    <3>2. CASE ~(p = r /\ i = nextId[r])
      <4>1. mapping'[p][i] = mapping[p][i] /\ mapping[p][i] # NoOriginal
        BY <1>3, <2>1, <3>2
      <4> QED BY <1>1, <1>5, <1>6, <4>1 DEF Tracked, RequestsKnown
    <3> QED BY <3>1, <3>2
  <2> QED BY <2>1 DEF RequestsKnown
<1>10. PartsOfCommand'
  BY <1>1, <1>6, <1>7 DEF Tracked, PartsOfCommand
<1>11. SomeAnswerer'
  <2>1. ASSUME NEW l \in Commands, reply'[l] = "waiting"
        PROVE  \/ \E i \in Jobs : job'[i].host \in Controllers /\ job'[i].cmd = l
               \/ \E p \in Peers, i \in Ids :
                    mapping'[p][i] # NoOriginal /\ mapping'[p][i].cmd = l
    <3>1. CASE l = k
      BY <1>1, <1>2, <1>3, <1>4, <3>1
    <3>2. CASE l # k
      <4>1. reply[l] = "waiting"
        BY <1>6, <2>1, <3>2
      <4>2. \A p \in Peers, i \in Ids :
              mapping[p][i] # NoOriginal => mapping'[p][i] = mapping[p][i]
        BY <1>2, <1>3
      <4> QED BY <1>1, <4>1, <4>2 DEF Tracked, SomeAnswerer
    <3> QED BY <3>1, <3>2
  <2> QED BY <2>1 DEF SomeAnswerer
<1> QED BY <1>8, <1>9, <1>10, <1>11 DEF Tracked

LEMMA SettleCommandKeepsTracked ==
  ASSUME JobInv, Tracked, NEW c \in Controllers, NEW k \in Commands,
         NEW answer \in {"done", "failed", "lost"}, SettleCommand(c, k, answer)
  PROVE  Tracked'
<1>1. /\ reply[k] = "none" /\ reply' = [reply EXCEPT ![k] = answer]
      /\ UNCHANGED <<conn, nextId, job, unfinished, mapping, sent, owed>>
  BY DEF SettleCommand, Receives, tables
<1>2. PartsKnown' /\ RequestsKnown' /\ PartsOfCommand'
  BY <1>1 DEF Tracked, PartsKnown, RequestsKnown, PartsOfCommand
<1>3. SomeAnswerer'
  BY <1>1 DEF Tracked, SomeAnswerer, JobInv, TypeOK
<1> QED BY <1>2, <1>3 DEF Tracked

-----------------------------------------------------------------------------
(* Answers.                                                                *)

(* The job found for an acknowledgement is the one for the command that    *)
(* the peer was sent; it is a part of that command's job.                  *)
LEMMA AckFacts ==
  ASSUME JobInv, Tracked, NEW p \in Peers, NEW id \in Ids, AckArrives(p, id)
  PROVE  /\ unfinished[p][id] \in Jobs
         /\ job[unfinished[p][id]].host = p /\ job[unfinished[p][id]].id = id
         /\ sent[p][id].cmd = job[unfinished[p][id]].cmd
         /\ job[unfinished[p][id]].cmd \in Commands =>
              \E j \in Jobs :
                /\ job[j].host \in Controllers
                /\ job[j].cmd = job[unfinished[p][id]].cmd
                /\ unfinished[p][id] \in job[j].dependencies
         /\ \A i \in Jobs :
              job[i].host \in Controllers /\ job[i].cmd # job[unfinished[p][id]].cmd
                => unfinished[p][id] \notin job[i].dependencies
<1> DEFINE part == unfinished[p][id]
<1>1. part \in Jobs /\ job[part].host = p /\ job[part].id = id /\ conn[p] = "up"
  BY DEF AckArrives, JobInv, TypeOK, JobTableSound
<1>2. sent[p][id] = [kind |-> "command", cmd |-> job[part].cmd]
  BY <1>1 DEF Tracked, PartsKnown
<1>3. \A i \in Jobs :
        job[i].host \in Controllers /\ job[i].cmd # job[part].cmd => part \notin job[i].dependencies
  BY DEF Tracked, PartsOfCommand
<1>4. ASSUME job[part].cmd \in Commands
      PROVE  \E j \in Jobs : /\ job[j].host \in Controllers /\ job[j].cmd = job[part].cmd
                             /\ part \in job[j].dependencies
  <2>1. job[part].dependents # {} /\ job[part].dependents \subseteq Jobs
    BY <1>1, <1>4, Addresses, HostKinds DEF Tracked, PartsOfCommand, JobInv
  <2>2. PICK j \in job[part].dependents : TRUE
    BY <2>1
  <2>3. j \in Jobs /\ part \in job[j].dependencies /\ job[j].host \in Controllers
    BY <1>1, <2>1, <2>2, FinishedFacts
  <2> QED BY <2>3 DEF Tracked, PartsOfCommand
<1> QED BY <1>1, <1>2, <1>3, <1>4

(* What an acknowledgement that is dealt with does to the commands.        *)
LEMMA AckEffect ==
  ASSUME JobInv, Tracked, NEW p \in Peers, NEW id \in Ids, AckArrives(p, id),
         ~ \E j \in CompletedBy(unfinished[p][id]) : WriteCrashes(job[j].host)
  PROVE  /\ FinishJob(unfinished[p][id])
         /\ unfinished' = [unfinished EXCEPT ![p][id] = NULL]
         /\ UNCHANGED <<conn, nextId, mapping, sent>>
         /\ \A k \in Commands :
              owed'[k] = IF k = job[unfinished[p][id]].cmd THEN owed[k] \ {p} ELSE owed[k]
         /\ \A k \in Commands :
              IF \E j \in CompletedBy(unfinished[p][id]) : job[j].cmd = k
              THEN reply'[k] \in {"done", "unheard"} ELSE reply'[k] = reply[k]
<1> DEFINE part == unfinished[p][id]
           Done == CompletedBy(part)
<1>1. part \in Jobs /\ job[part].host \in Peers /\ sent[p][id].cmd = job[part].cmd
  BY AckFacts
<1>2. /\ FinishJob(part) /\ Answered(p, id)
      /\ unfinished' = [unfinished EXCEPT ![p][id] = NULL]
      /\ UNCHANGED <<conn, nextId, mapping, sent>>
      /\ reply' = [k \in Commands |->
                     IF \E j \in Done : job[j].cmd = k
                     THEN Heard(job[CHOOSE j \in Done : job[j].cmd = k].host, k)
                     ELSE reply[k]]
  BY DEF AckArrives
<1>3. \A j \in Done : j \in Jobs /\ job[j].host \in Controllers
  BY <1>1, FinishedFacts
<1> HIDE DEF Done
<1>4. \A j \in Done : reply[job[j].cmd] = "waiting"
  BY <1>3 DEF JobInv, OneAnswerer
<1>5. \A k \in Commands :
        IF \E j \in Done : job[j].cmd = k
        THEN reply'[k] \in {"done", "unheard"} ELSE reply'[k] = reply[k]
  BY <1>2, <1>4, HeardFacts
<1>6. \A k \in Commands :
        owed'[k] = IF k = job[part].cmd THEN owed[k] \ {p} ELSE owed[k]
  BY <1>1, <1>2 DEF Answered
<1> QED BY <1>2, <1>5, <1>6 DEF Done

LEMMA AckArrivesKeepsTracked ==
  ASSUME JobInv, Tracked, NEW p \in Peers, NEW id \in Ids, AckArrives(p, id),
         ~ \E j \in CompletedBy(unfinished[p][id]) : WriteCrashes(job[j].host)
  PROVE  Tracked'
<1> DEFINE part == unfinished[p][id]
           Done == CompletedBy(part)
<1>1. /\ part \in Jobs /\ job[part].host = p /\ job[part].id = id /\ job[part].host \in Peers
      /\ job[part].cmd \in Commands =>
           \E j \in Jobs : /\ job[j].host \in Controllers /\ job[j].cmd = job[part].cmd
                           /\ part \in job[j].dependencies
      /\ \A i \in Jobs :
           job[i].host \in Controllers /\ job[i].cmd # job[part].cmd
             => part \notin job[i].dependencies
  BY AckFacts
<1>2. /\ FinishJob(part)
      /\ unfinished' = [unfinished EXCEPT ![p][id] = NULL]
      /\ UNCHANGED <<conn, nextId, mapping, sent>>
      /\ \A k \in Commands :
           owed'[k] = IF k = job[part].cmd THEN owed[k] \ {p} ELSE owed[k]
      /\ \A k \in Commands :
           IF \E j \in Done : job[j].cmd = k
           THEN reply'[k] \in {"done", "unheard"} ELSE reply'[k] = reply[k]
  BY AckEffect
<1>3. /\ \A j \in Done : j \in Jobs /\ job[j].host \in Controllers
      /\ \A j \in Jobs :
           job[j].host \in Controllers /\ j \notin Done /\ part \in job[j].dependencies
             => ~job[j].used \/ job[j].dependencies \ {part} # {}
  <2>1. \A j \in Jobs : part \in job[j].dependencies => j \in job[part].dependents
    BY <1>1 DEF JobInv, JobGraphSound
  <2> QED BY <1>1, <2>1, FinishedFacts DEF CompletedBy
<1>4. \A j \in Jobs :
        /\ j = part \/ j \in Done => job'[j].host = NULL
        /\ ~(j = part \/ j \in Done) =>
             /\ job'[j].host = job[j].host /\ job'[j].id = job[j].id
             /\ job'[j].cmd = job[j].cmd /\ job'[j].used = job[j].used
             /\ job'[j].dependencies = job[j].dependencies \ {part}
             /\ job'[j].dependents = job[j].dependents
  BY <1>1, <1>2, FinishJobFacts DEF NoJob
<1>5. \A q \in Peers, i \in Ids :
        unfinished'[q][i] = IF q = p /\ i = id THEN NULL ELSE unfinished[q][i]
  BY <1>2 DEF JobInv, TypeOK
<1>6. /\ \A j \in Jobs : job[j].host \in Controllers => job[j].cmd \in Commands
      /\ \A i, j \in Jobs : /\ job[i].host \in Controllers /\ job[j].host \in Controllers
                            /\ job[i].cmd = job[j].cmd
                            => i = j
      /\ \A q \in Peers, i \in Ids, j \in Jobs :
           mapping[q][i] # NoOriginal /\ job[j].host \in Controllers
             => mapping[q][i].cmd # job[j].cmd
      /\ \A q \in Peers, i \in Ids : mapping[q][i] # NoOriginal => mapping[q][i].cmd \in Commands
  BY DEF JobInv, OneAnswerer
<1> HIDE DEF part, Done
<1>7. PartsKnown'
  <2>1. ASSUME NEW x \in Jobs, job'[x].host \in Peers
        PROVE  /\ unfinished'[job'[x].host][job'[x].id] = x
               /\ job'[x].id < nextId[job'[x].host]
               /\ conn[job'[x].host] = "up" =>
                    sent[job'[x].host][job'[x].id] = [kind |-> "command", cmd |-> job'[x].cmd]
    <3>1. /\ x # part /\ job[x].host = job'[x].host /\ job[x].id = job'[x].id
          /\ job[x].cmd = job'[x].cmd
      BY <1>4, <2>1, Addresses
    <3>2. unfinished[job[x].host][job[x].id] = x /\ job[x].id \in Ids
      BY <2>1, <3>1, HostKinds DEF Tracked, PartsKnown, JobInv
    <3>3. ~(job[x].host = p /\ job[x].id = id)
      BY <3>1, <3>2 DEF part
    <3> QED BY <1>5, <2>1, <3>1, <3>2, <3>3 DEF Tracked, PartsKnown
  <2> QED BY <1>2, <2>1 DEF PartsKnown
<1>8. RequestsKnown'
  <2>1. \A q \in Peers, i \in Ids :
          mapping[q][i] # NoOriginal => owed'[mapping[q][i].cmd] = owed[mapping[q][i].cmd]
    <3>1. ASSUME NEW q \in Peers, NEW i \in Ids, mapping[q][i] # NoOriginal
          PROVE  mapping[q][i].cmd \in Commands /\ mapping[q][i].cmd # job[part].cmd
      BY <1>1, <1>6, <3>1
    <3> QED BY <1>2, <3>1
  <2> QED BY <1>2, <2>1 DEF Tracked, RequestsKnown
<1>9. ASSUME NEW i \in Jobs, job'[i].host \in Controllers
      PROVE  /\ job'[i].used /\ job'[i].dependencies # {}
             /\ owed'[job'[i].cmd] = {job'[x].host : x \in job'[i].dependencies}
             /\ \A x \in job'[i].dependencies : job'[x].cmd = job'[i].cmd
             /\ \A x, y \in job'[i].dependencies : job'[x].host = job'[y].host => x = y
  <2>1. /\ i # part /\ i \notin Done /\ job[i].host \in Controllers
        /\ job'[i].cmd = job[i].cmd /\ job'[i].used = job[i].used
        /\ job'[i].dependencies = job[i].dependencies \ {part}
    BY <1>4, <1>9, Addresses
  <2>2. /\ job[i].used /\ job[i].dependencies # {} /\ job[i].cmd \in Commands
        /\ owed[job[i].cmd] = {job[x].host : x \in job[i].dependencies}
        /\ \A x \in job[i].dependencies : job[x].cmd = job[i].cmd
        /\ \A x, y \in job[i].dependencies : job[x].host = job[y].host => x = y
    BY <1>6, <2>1 DEF Tracked, PartsOfCommand
  <2>3. \A x \in job[i].dependencies \ {part} :
          job'[x].host = job[x].host /\ job'[x].cmd = job[x].cmd
    <3>1. \A x \in job[i].dependencies : x \in Jobs /\ x \notin Done
      BY <1>3, <1>6, HostKinds DEF JobInv, JobGraphSound, Tracked, PartsOfCommand
    <3> QED BY <1>4, <3>1
  <2>4. {job'[x].host : x \in job'[i].dependencies}
          = {job[x].host : x \in job[i].dependencies \ {part}}
    BY <2>1, <2>3
  <2>5. /\ job'[i].used
        /\ \A x \in job'[i].dependencies : job'[x].cmd = job'[i].cmd
        /\ \A x, y \in job'[i].dependencies : job'[x].host = job'[y].host => x = y
    BY <2>1, <2>2, <2>3
  <2>6. CASE part \in job[i].dependencies
    <3>1. job[i].cmd = job[part].cmd
      BY <2>2, <2>6
    <3>2. {job[x].host : x \in job[i].dependencies \ {part}} = owed[job[i].cmd] \ {p}
      BY <1>1, <2>2, <2>6
    <3>3. job'[i].dependencies # {}
      BY <1>3, <2>1, <2>2, <2>6
    <3>4. owed'[job'[i].cmd] = {job'[x].host : x \in job'[i].dependencies}
      BY <1>2, <2>1, <2>2, <2>4, <3>1, <3>2
    <3> QED BY <2>1, <2>5, <3>3, <3>4
  <2>7. CASE part \notin job[i].dependencies
    <3>1. job[i].cmd # job[part].cmd
      BY <1>1, <1>6, <2>1, <2>2, <2>7
    <3>2. job[i].dependencies \ {part} = job[i].dependencies
      BY <2>7
    <3>3. owed'[job'[i].cmd] = {job'[x].host : x \in job'[i].dependencies}
      <4>1. owed'[job'[i].cmd] = owed[job[i].cmd]
        BY <1>2, <2>1, <2>2, <3>1
      <4>2. {job[x].host : x \in job[i].dependencies \ {part}} = owed[job[i].cmd]
        BY <2>2, <3>2
      <4> QED BY <2>4, <4>1, <4>2
    <3>4. job'[i].dependencies # {}
      BY <2>1, <2>2, <3>2
    <3> QED BY <2>1, <2>5, <3>3, <3>4
  <2> QED BY <2>6, <2>7
<1>10. \A x \in Jobs : job'[x].host \in Peers /\ job'[x].cmd # NULL => job'[x].dependents # {}
  BY <1>4, Addresses DEF Tracked, PartsOfCommand
<1>11. ASSUME NEW l \in Commands, reply'[l] = "waiting"
       PROVE  \/ \E i \in Jobs : job'[i].host \in Controllers /\ job'[i].cmd = l
              \/ \E q \in Peers, i \in Ids : mapping'[q][i] # NoOriginal /\ mapping'[q][i].cmd = l
  <2>1. reply[l] = "waiting" /\ ~ \E j \in Done : job[j].cmd = l
    BY <1>2, <1>11
  <2>2. \A i \in Jobs : job[i].host \in Controllers /\ job[i].cmd = l =>
          job'[i].host \in Controllers /\ job'[i].cmd = l
    BY <1>1, <1>4, <2>1, Addresses
  <2> QED BY <1>2, <2>1, <2>2 DEF Tracked, SomeAnswerer
<1>12. PartsOfCommand'
  BY <1>9, <1>10 DEF PartsOfCommand
<1>13. SomeAnswerer'
  BY <1>11 DEF SomeAnswerer
<1> QED BY <1>7, <1>8, <1>12, <1>13 DEF Tracked

(* The mapping found for a response is for the request the peer was sent.  *)
LEMMA ResponseEffect ==
  ASSUME JobInv, Tracked, NEW p \in Peers, NEW id \in Ids, ResponseArrives(p, id),
         ~ WriteCrashes(mapping[p][id].host)
  PROVE  \E k \in Commands :
           /\ mapping[p][id] # NoOriginal /\ mapping[p][id].cmd = k
           /\ owed[k] = {p} /\ reply[k] = "waiting"
           /\ mapping' = [mapping EXCEPT ![p][id] = NoOriginal]
           /\ UNCHANGED <<conn, nextId, job, unfinished, sent>>
           /\ owed' = [owed EXCEPT ![k] = owed[k] \ {p}]
           /\ \E answer \in {"done", "unheard"} : reply' = [reply EXCEPT ![k] = answer]
<1> DEFINE original == mapping[p][id]
           k == original.cmd
<1>1. /\ original # NoOriginal /\ conn[p] = "up"
      /\ mapping' = [mapping EXCEPT ![p][id] = NoOriginal] /\ Answered(p, id)
      /\ reply' = [reply EXCEPT ![k] = Heard(original.host, k)]
      /\ UNCHANGED <<conn, nextId, job, unfinished, sent>>
  BY DEF ResponseArrives
<1>2. k \in Commands /\ reply[k] = "waiting"
  BY <1>1 DEF JobInv, OneAnswerer
<1>3. owed[k] = {p} /\ sent[p][id].cmd = k
  <2>1. owed[k] = {p} /\ sent[p][id] = [kind |-> "request", cmd |-> k]
    BY <1>1 DEF Tracked, RequestsKnown
  <2> QED BY <2>1
<1>4. Heard(original.host, k) \in {"done", "unheard"}
  BY <1>2, HeardFacts
<1>5. owed' = [owed EXCEPT ![k] = owed[k] \ {p}]
  BY <1>1, <1>3 DEF Answered, JobInv, TypeOK
<1> QED BY <1>1, <1>2, <1>3, <1>4, <1>5

LEMMA ResponseArrivesKeepsTracked ==
  ASSUME JobInv, Tracked, NEW p \in Peers, NEW id \in Ids, ResponseArrives(p, id),
         ~ WriteCrashes(mapping[p][id].host)
  PROVE  Tracked'
<1>0. PICK k \in Commands :
      /\ mapping[p][id] # NoOriginal /\ mapping[p][id].cmd = k
      /\ owed[k] = {p} /\ reply[k] = "waiting"
      /\ mapping' = [mapping EXCEPT ![p][id] = NoOriginal]
      /\ UNCHANGED <<conn, nextId, job, unfinished, sent>>
      /\ owed' = [owed EXCEPT ![k] = owed[k] \ {p}]
      /\ \E answer \in {"done", "unheard"} : reply' = [reply EXCEPT ![k] = answer]
  BY ResponseEffect
<1>1. \A q \in Peers, i \in Ids :
        mapping'[q][i] = IF q = p /\ i = id THEN NoOriginal ELSE mapping[q][i]
  BY <1>0 DEF JobInv, TypeOK
<1>2. /\ reply'[k] # "waiting"
      /\ \A l \in Commands : l # k => owed'[l] = owed[l] /\ reply'[l] = reply[l]
  BY <1>0 DEF JobInv, TypeOK
<1>3. /\ \A j \in Jobs : job[j].host \in Controllers => job[j].cmd # k /\ job[j].cmd \in Commands
      /\ \A q \in Peers, i \in Ids :
           mapping[q][i] # NoOriginal =>
             /\ mapping[q][i].cmd \in Commands
             /\ mapping[q][i].cmd = k => q = p /\ i = id
  BY <1>0 DEF JobInv, OneAnswerer
<1>4. PartsKnown'
  BY <1>0 DEF Tracked, PartsKnown
<1>5. RequestsKnown'
  <2>1. \A q \in Peers, i \in Ids :
          mapping'[q][i] # NoOriginal =>
            /\ mapping'[q][i] = mapping[q][i] /\ mapping[q][i] # NoOriginal
            /\ owed'[mapping[q][i].cmd] = owed[mapping[q][i].cmd]
    BY <1>1, <1>2, <1>3
  <2>2. UNCHANGED <<conn, nextId, sent>>
    BY <1>0
  <2>3. ASSUME NEW q \in Peers, NEW i \in Ids, mapping'[q][i] # NoOriginal
        PROVE  /\ i < nextId'[q]
               /\ conn'[q] = "up" => sent'[q][i] = [kind |-> "request", cmd |-> mapping'[q][i].cmd]
               /\ owed'[mapping'[q][i].cmd] = {q}
    BY <2>1, <2>2, <2>3 DEF Tracked, RequestsKnown
  <2> QED BY <2>3 DEF RequestsKnown
<1>6. PartsOfCommand'
  <2>1. UNCHANGED job
    BY <1>0
  <2>2. \A j \in Jobs : job[j].host \in Controllers => owed'[job[j].cmd] = owed[job[j].cmd]
    BY <1>2, <1>3
  <2> QED BY <2>1, <2>2 DEF Tracked, PartsOfCommand
<1>7. SomeAnswerer'
  <2>1. ASSUME NEW l \in Commands, reply'[l] = "waiting"
        PROVE  \/ \E i \in Jobs : job'[i].host \in Controllers /\ job'[i].cmd = l
               \/ \E q \in Peers, i \in Ids :
                    mapping'[q][i] # NoOriginal /\ mapping'[q][i].cmd = l
    <3>1. l # k /\ reply[l] = "waiting"
      BY <1>2, <2>1
    <3>2. \A q \in Peers, i \in Ids : mapping[q][i].cmd = l => mapping'[q][i] = mapping[q][i]
      BY <1>0, <1>1, <3>1
    <3> QED BY <1>0, <3>1, <3>2 DEF Tracked, SomeAnswerer
  <2> QED BY <2>1 DEF SomeAnswerer
<1> QED BY <1>4, <1>5, <1>6, <1>7 DEF Tracked

LEMMA WriteCrashesKeepsTracked ==
  ASSUME Tracked, NEW c, WriteCrashes(c)
  PROVE  Tracked' /\ UNCHANGED <<owed, reply>>
<1>1. UNCHANGED <<conn, nextId, job, unfinished, mapping, sent, owed, reply>>
  BY DEF WriteCrashes, tables, outside
<1>2. PartsKnown' /\ RequestsKnown'
  BY <1>1 DEF Tracked, PartsKnown, RequestsKnown
<1>3. PartsOfCommand' /\ SomeAnswerer'
  BY <1>1 DEF Tracked, PartsOfCommand, SomeAnswerer
<1> QED BY <1>1, <1>2, <1>3 DEF Tracked

-----------------------------------------------------------------------------
LEMMA NextKeepsTracked == JobInv /\ Tracked /\ Next /\ ~mixed' => Tracked'
<1> SUFFICES ASSUME JobInv, Tracked, Next, ~mixed' PROVE Tracked'
  OBVIOUS
<1>1. CASE HostStep
  BY <1>1, HostStepKeepsTracked
<1>2. ASSUME NEW c \in Controllers, NEW k \in Commands, CommandStep(c, k)
      PROVE  Tracked'
  BY <1>2, SettleCommandKeepsTracked, ForwardRequestKeepsTracked, ForwardCommandKeepsTracked,
     ConnectCommandKeepsTracked DEF CommandStep
<1>3. CASE RendererInitialized
  BY <1>3, ConnectNewRendererKeepsTracked DEF RendererInitialized
<1>4. ASSUME NEW p \in Peers, NEW id \in Ids, AckArrives(p, id)
      PROVE  Tracked'
  <2>1. CASE \E j \in CompletedBy(unfinished[p][id]) : WriteCrashes(job[j].host)
    BY <2>1, WriteCrashesKeepsTracked
  <2>2. CASE ~ \E j \in CompletedBy(unfinished[p][id]) : WriteCrashes(job[j].host)
    BY <1>4, <2>2, AckArrivesKeepsTracked
  <2> QED BY <2>1, <2>2
<1>5. ASSUME NEW p \in Peers, NEW id \in Ids, ResponseArrives(p, id)
      PROVE  Tracked'
  BY <1>5, WriteCrashesKeepsTracked, ResponseArrivesKeepsTracked
<1> QED BY <1>1, <1>2, <1>3, <1>4, <1>5 DEF Next, AnswerArrives

LEMMA StutterKeepsTracked == Tracked /\ UNCHANGED vars => Tracked' /\ UNCHANGED <<owed, reply>>
<1> SUFFICES ASSUME Tracked, UNCHANGED vars PROVE Tracked' /\ UNCHANGED <<owed, reply>>
  OBVIOUS
<1>1. UNCHANGED <<conn, nextId, job, unfinished, mapping, sent, owed, reply>>
  BY DEF vars, tables, outside
<1>2. PartsKnown' /\ RequestsKnown'
  BY <1>1 DEF Tracked, PartsKnown, RequestsKnown
<1>3. PartsOfCommand' /\ SomeAnswerer'
  BY <1>1 DEF Tracked, PartsOfCommand, SomeAnswerer
<1> QED BY <1>1, <1>2, <1>3 DEF Tracked

(* Once an address was mixed up, it stays so.                              *)
LEMMA MixedStays == JobInv /\ Next /\ ~mixed' => ~mixed
<1> SUFFICES ASSUME JobInv, Next, mixed PROVE mixed'
  BY DEF JobInv, TypeOK
<1>1. CASE HostStep
  BY <1>1 DEF HostStep, Connect, Disconnect, Delete
<1>2. ASSUME NEW c \in Controllers, NEW k \in Commands, CommandStep(c, k)
      PROVE  mixed'
  <2>1. ASSUME NEW answer, SettleCommand(c, k, answer) PROVE mixed'
    BY <2>1 DEF SettleCommand
  <2>2. ASSUME NEW r, ForwardRequest(c, k, r) PROVE mixed'
    BY <2>2 DEF ForwardRequest
  <2>3. ASSUME NEW r, NEW j, NEW part, ForwardCommand(c, k, r, j, part) PROVE mixed'
    BY <2>3 DEF ForwardCommand
  <2>4. ASSUME NEW w, NEW r, NEW j, NEW partW, NEW partR,
               ConnectCommand(c, k, w, r, j, partW, partR)
        PROVE  mixed'
    BY <2>4 DEF ConnectCommand
  <2> QED BY <1>2, <2>1, <2>2, <2>3, <2>4 DEF CommandStep
<1>3. CASE RendererInitialized
  BY <1>3 DEF RendererInitialized, ConnectNewRenderer
<1>4. ASSUME NEW p \in Peers, NEW id \in Ids, AnswerArrives(p, id)
      PROVE  mixed'
  BY <1>4 DEF AnswerArrives, AckArrives, ResponseArrives, WriteCrashes
<1> QED BY <1>1, <1>2, <1>3, <1>4 DEF Next

LEMMA TrackedTracksOwed ==
  ASSUME JobInv, Tracked
  PROVE  OwedIsTracked
<1> SUFFICES ASSUME NEW k \in Commands, reply[k] = "waiting"
             PROVE  owed[k] = WaitsFor(k) /\ owed[k] # {}
  BY DEF OwedIsTracked
<1> DEFINE ByJob == {p \in Peers : \E j, part \in Jobs :
                       /\ job[j].cmd = k /\ job[j].used
                       /\ part \in job[j].dependencies
                       /\ job[part].host = p /\ unfinished[p][job[part].id] = part}
           ByMapping == {p \in Peers : \E i \in Ids : mapping[p][i].cmd = k}
<1>1. WaitsFor(k) = ByJob \cup ByMapping
  BY DEF WaitsFor
<1>2. \A p \in Peers, i \in Ids : mapping[p][i].cmd = k => mapping[p][i] # NoOriginal
  BY Addresses DEF NoOriginal
<1>3. \A j \in Jobs : job[j].dependencies # {} => job[j].host \in Controllers
  BY DEF JobInv, JobKinds
<1>4. CASE \E j \in Jobs : job[j].host \in Controllers /\ job[j].cmd = k
  <2> PICK j \in Jobs : job[j].host \in Controllers /\ job[j].cmd = k
    BY <1>4
  <2>1. ByMapping = {}
    BY <1>2 DEF JobInv, OneAnswerer
  <2>2. /\ job[j].used /\ job[j].dependencies # {} /\ job[j].dependencies \subseteq Jobs
        /\ owed[k] = {job[x].host : x \in job[j].dependencies}
    BY HostKinds DEF Tracked, PartsOfCommand, JobInv
  <2>3. \A x \in job[j].dependencies : job[x].host \in Peers
    <3>1. \A x \in job[j].dependencies : job[x].dependents # {}
      BY <2>2 DEF JobInv, JobGraphSound
    <3> QED BY <2>2, <3>1 DEF JobInv, JobKinds
  <2>4. ASSUME NEW p \in owed[k] PROVE p \in ByJob
    <3> PICK x \in job[j].dependencies : job[x].host = p
      BY <2>2
    <3> QED BY <2>2, <2>3 DEF Tracked, PartsKnown
  <2>5. ByJob \subseteq owed[k]
    <3>1. \A i \in Jobs : job[i].cmd = k /\ job[i].dependencies # {} => i = j
      BY <1>3 DEF JobInv, OneAnswerer
    <3> QED BY <2>2, <3>1
  <2> QED BY <1>1, <2>1, <2>2, <2>4, <2>5
<1>5. CASE \E p \in Peers, i \in Ids : mapping[p][i] # NoOriginal /\ mapping[p][i].cmd = k
  <2> PICK p \in Peers, i \in Ids : mapping[p][i] # NoOriginal /\ mapping[p][i].cmd = k
    BY <1>5
  <2>1. owed[k] = {p}
    BY DEF Tracked, RequestsKnown
  <2>2. ByMapping = {p}
    BY <1>2 DEF JobInv, OneAnswerer
  <2>3. ByJob = {}
    BY <1>3 DEF JobInv, OneAnswerer
  <2> QED BY <1>1, <2>1, <2>2, <2>3
<1> QED BY <1>4, <1>5 DEF Tracked, SomeAnswerer

(* Unless an address was mixed up, the tables know exactly which peers     *)
(* each waiting command needs an answer of (JobManager::addJob,            *)
(* addDependency, addRequestResponseMapping, and what removes them).       *)
THEOREM TablesTrackOwed == Spec => []OwedIsTracked
<1> DEFINE Inv == JobInv /\ (~mixed => Tracked)
<1>1. Init => Inv
  BY InitJobInv, InitTracked
<1>2. Inv /\ [Next]_vars => Inv'
  <2> SUFFICES ASSUME Inv, [Next]_vars PROVE Inv'
    OBVIOUS
  <2>1. JobInv'
    BY NextKeepsJobInv
  <2>2. ~mixed' => Tracked'
    <3>1. CASE Next
      BY <3>1, MixedStays, NextKeepsTracked
    <3>2. CASE UNCHANGED vars
      BY <3>2, StutterKeepsTracked DEF vars
    <3> QED BY <3>1, <3>2
  <2> QED BY <2>1, <2>2
<1>3. Inv => OwedIsTracked
  <2>1. CASE mixed
    BY <2>1 DEF OwedIsTracked
  <2>2. CASE ~mixed
    BY <2>2, TrackedTracksOwed
  <2> QED BY <2>1, <2>2
<1> QED BY <1>1, <1>2, <1>3, PTL DEF Spec

-----------------------------------------------------------------------------
(* The tables implement CommandService.                                    *)

(* The acknowledgement of p is the answer of p to the command k that p was *)
(* sent, unless it was sent for no command.                                *)
LEMMA AckImplementsAnswer ==
  ASSUME JobInv, Tracked, NEW p \in Peers, NEW id \in Ids, AckArrives(p, id),
         ~ \E j \in CompletedBy(unfinished[p][id]) : WriteCrashes(job[j].host)
  PROVE  \/ \E k \in Commands : Service!Answer(k, p)
         \/ UNCHANGED <<owed, reply>>
<1> DEFINE part == unfinished[p][id]
           Done == CompletedBy(part)
           k == job[part].cmd
<1>1. /\ part \in Jobs /\ job[part].host = p /\ job[part].host \in Peers
      /\ k \in Commands =>
           \E j \in Jobs : /\ job[j].host \in Controllers /\ job[j].cmd = k
                           /\ part \in job[j].dependencies
      /\ \A i \in Jobs :
           job[i].host \in Controllers /\ job[i].cmd # k => part \notin job[i].dependencies
  BY AckFacts
<1>2. /\ \A l \in Commands : owed'[l] = IF l = k THEN owed[l] \ {p} ELSE owed[l]
      /\ \A l \in Commands :
           IF \E j \in Done : job[j].cmd = l
           THEN reply'[l] \in {"done", "unheard"} ELSE reply'[l] = reply[l]
  BY AckEffect
<1>3. /\ owed \in [Commands -> SUBSET Peers] /\ owed' \in [Commands -> SUBSET Peers]
      /\ DOMAIN reply = Commands /\ DOMAIN reply' = Commands
      /\ reply = [l \in Commands |-> reply[l]] /\ reply' = [l \in Commands |-> reply'[l]]
  <2>1. JobInv'
    BY AckArrivesKeepsJobInv
  <2> QED BY <2>1 DEF JobInv, TypeOK
<1>4. \A j \in Done : j \in Jobs /\ job[j].host \in Controllers /\ job[j].cmd = k
  <2>1. \A j \in Done : /\ j \in Jobs /\ job[j].host \in Controllers
                        /\ part \in job[j].dependencies
    BY <1>1, FinishedFacts
  <2> QED BY <1>1, <2>1
<1>5. CASE k \notin Commands
  <2>1. \A j \in Jobs : job[j].host \in Controllers => job[j].cmd \in Commands
    BY DEF JobInv, OneAnswerer
  <2>2. \A l \in Commands : owed'[l] = owed[l] /\ reply'[l] = reply[l]
    BY <1>2, <1>4, <1>5, <2>1
  <2> QED BY <1>3, <2>2
<1>6. CASE k \in Commands
  <2>1. PICK j \in Jobs : /\ job[j].host \in Controllers /\ job[j].cmd = k
                          /\ part \in job[j].dependencies
    BY <1>1, <1>6
  <2>2. /\ job[j].used
        /\ owed[k] = {job[x].host : x \in job[j].dependencies}
        /\ \A x, y \in job[j].dependencies : job[x].host = job[y].host => x = y
    BY <2>1 DEF Tracked, PartsOfCommand
  <2>3. reply[k] = "waiting" /\ p \in owed[k]
    <3>1. reply[k] = "waiting"
      BY <2>1 DEF JobInv, OneAnswerer
    <3> QED BY <1>1, <2>1, <2>2, <3>1
  <2>4. j \in Done <=> job[j].dependencies = {part}
    <3>1. j \in job[part].dependents
      BY <1>1, <2>1 DEF JobInv, JobGraphSound
    <3>2. job[j].dependencies \ {part} = {} <=> job[j].dependencies = {part}
      BY <2>1
    <3> QED BY <2>2, <3>1, <3>2 DEF CompletedBy
  <2>5. job[j].dependencies = {part} <=> owed[k] = {p}
    BY <1>1, <2>1, <2>2
  <2>6. \A i \in Done : i = j
    BY <1>4, <2>1 DEF JobInv, OneAnswerer
  <2> HIDE DEF Done, k, part
  <2>7. owed' = [owed EXCEPT ![k] = @ \ {p}]
    BY <1>2, <1>3
  <2>8. CASE owed[k] = {p}
    <3>1. reply'[k] \in {"done", "unheard"} /\ \A l \in Commands : l # k => reply'[l] = reply[l]
      BY <1>2, <1>4, <1>6, <2>1, <2>4, <2>5, <2>8
    <3>2. reply' = [reply EXCEPT ![k] = reply'[k]]
      BY <1>3, <3>1
    <3> QED BY <1>6, <2>3, <2>7, <2>8, <3>1, <3>2 DEF Service!Answer
  <2>9. CASE owed[k] # {p}
    <3>1. \A l \in Commands : reply'[l] = reply[l]
      BY <1>2, <2>4, <2>5, <2>6, <2>9
    <3>2. reply' = reply
      BY <1>3, <3>1
    <3> QED BY <1>6, <2>3, <2>7, <2>9, <3>2 DEF Service!Answer
  <2> QED BY <2>8, <2>9
<1> QED BY <1>5, <1>6

LEMMA ResponseImplementsAnswer ==
  ASSUME JobInv, Tracked, NEW p \in Peers, NEW id \in Ids, ResponseArrives(p, id),
         ~ WriteCrashes(mapping[p][id].host)
  PROVE  \E k \in Commands : Service!Answer(k, p)
<1>1. PICK k \in Commands :
        /\ mapping[p][id] # NoOriginal /\ mapping[p][id].cmd = k
        /\ owed[k] = {p} /\ reply[k] = "waiting"
        /\ mapping' = [mapping EXCEPT ![p][id] = NoOriginal]
        /\ UNCHANGED <<conn, nextId, job, unfinished, sent>>
        /\ owed' = [owed EXCEPT ![k] = owed[k] \ {p}]
        /\ \E answer \in {"done", "unheard"} : reply' = [reply EXCEPT ![k] = answer]
  BY ResponseEffect
<1> QED BY <1>1 DEF Service!Answer

LEMMA AskedImplementsAsk ==
  ASSUME NEW k \in Commands, NEW P \in SUBSET Peers, P # {}, reply[k] = "none", Asked(k, P)
  PROVE  \E Q \in SUBSET Peers : Service!Ask(k, Q)
BY DEF Asked, Service!Ask

LEMMA CommandStepImplements ==
  ASSUME JobInv, NEW c \in Controllers, NEW k \in Commands, CommandStep(c, k)
  PROVE  Service!Next
<1>1. ASSUME NEW answer \in {"done", "failed", "lost"}, SettleCommand(c, k, answer)
      PROVE  Service!Settle(k)
  BY <1>1 DEF SettleCommand, Receives, Service!Settle
<1>2. ASSUME NEW r \in Renderers,
             \/ ForwardRequest(c, k, r)
             \/ \E j, part \in Jobs : ForwardCommand(c, k, r, j, part)
      PROVE  \E Q \in SUBSET Peers : Service!Ask(k, Q)
  <2>1. reply[k] = "none" /\ Asked(k, {r}) /\ {r} \in SUBSET Peers /\ {r} # {}
    BY <1>2 DEF ForwardRequest, ForwardCommand, Receives, Peers
  <2> QED BY <2>1, AskedImplementsAsk
<1>3. ASSUME NEW w \in Viewers, NEW r \in Renderers,
             \E j, partW, partR \in Jobs : ConnectCommand(c, k, w, r, j, partW, partR)
      PROVE  \E Q \in SUBSET Peers : Service!Ask(k, Q)
  <2>1. reply[k] = "none" /\ Asked(k, {w, r}) /\ {w, r} \in SUBSET Peers /\ {w, r} # {}
    BY <1>3 DEF ConnectCommand, Receives, Peers
  <2> QED BY <2>1, AskedImplementsAsk
<1>4. Service!Settle(k) \/ \E Q \in SUBSET Peers : Service!Ask(k, Q)
  BY <1>1, <1>2, <1>3 DEF CommandStep
<1> QED BY <1>4 DEF Service!Next

LEMMA NextImplements ==
  JobInv /\ Tracked /\ Next => Service!Next \/ UNCHANGED <<owed, reply>>
<1> SUFFICES ASSUME JobInv, Tracked, Next
             PROVE  Service!Next \/ UNCHANGED <<owed, reply>>
  OBVIOUS
<1>1. CASE HostStep
  BY <1>1 DEF HostStep, Connect, Disconnect, Delete, outside
<1>2. ASSUME NEW c \in Controllers, NEW k \in Commands, CommandStep(c, k)
      PROVE  Service!Next
  BY <1>2, CommandStepImplements
<1>3. CASE RendererInitialized
  BY <1>3 DEF RendererInitialized, ConnectNewRenderer, outside
<1>4. ASSUME NEW p \in Peers, NEW id \in Ids, AckArrives(p, id)
      PROVE  Service!Next \/ UNCHANGED <<owed, reply>>
  <2>1. CASE \E j \in CompletedBy(unfinished[p][id]) : WriteCrashes(job[j].host)
    BY <2>1, WriteCrashesKeepsTracked
  <2>2. CASE ~ \E j \in CompletedBy(unfinished[p][id]) : WriteCrashes(job[j].host)
    <3>1. (\E k \in Commands : Service!Answer(k, p)) \/ UNCHANGED <<owed, reply>>
      BY <1>4, <2>2, AckImplementsAnswer
    <3> QED BY <3>1 DEF Service!Next
  <2> QED BY <2>1, <2>2
<1>5. ASSUME NEW p \in Peers, NEW id \in Ids, ResponseArrives(p, id)
      PROVE  Service!Next \/ UNCHANGED <<owed, reply>>
  <2>1. CASE WriteCrashes(mapping[p][id].host)
    BY <2>1, WriteCrashesKeepsTracked
  <2>2. CASE ~ WriteCrashes(mapping[p][id].host)
    <3>1. \E k \in Commands : Service!Answer(k, p)
      BY <1>5, <2>2, ResponseImplementsAnswer
    <3> QED BY <3>1 DEF Service!Next
  <2> QED BY <2>1, <2>2
<1> QED BY <1>1, <1>2, <1>3, <1>4, <1>5 DEF Next, AnswerArrives

(* With no address mixed up, the daemon implements CommandService: each    *)
(* command is asked, settled and answered as promised, exactly once and    *)
(* only when every peer that was asked has answered.  (PackageRouter,      *)
(* JobManager::jobDone, finishJob, requestAnswered)                        *)
THEOREM JobsKeepThePromise == FreshSpec => KeepsPromise
<1> DEFINE Inv == JobInv /\ Tracked
           Step == Next /\ ~mixed'
<1>1. Init => Inv /\ Service!Init
  BY InitJobInv, InitTracked DEF Init, Service!Init
<1>2. Inv /\ [Step]_vars => Inv'
  <2> SUFFICES ASSUME Inv, [Step]_vars PROVE Inv'
    OBVIOUS
  <2>1. [Next]_vars
    OBVIOUS
  <2> QED BY <2>1, NextKeepsJobInv, NextKeepsTracked, StutterKeepsTracked
<1>3. Inv /\ [Step]_vars => [Service!Next]_<<owed, reply>>
  BY NextImplements, StutterKeepsTracked
<1> QED BY <1>1, <1>2, <1>3, PTL DEF FreshSpec, KeepsPromise, Service!Spec
=============================================================================
