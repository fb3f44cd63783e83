--------------------------- MODULE EventLoopProofs ---------------------------
(***************************************************************************)
(* Proof of the safety properties of EventLoop, for any number of          *)
(* descriptors, files and peers: what libev and epoll know of each other   *)
(* stays in step although descriptors are closed, inherited and used again.*)
(***************************************************************************)
EXTENDS EventLoop, TLAPS

Watchers == (Descriptors \X Events) \cup {Cleared, Idle}

SystemTypes ==
  /\ file \in [Descriptors -> Nat]
  /\ ready \in [1..MaxFiles -> SUBSET (Events \cup {HangUp})]
  /\ registered \subseteq [file : Nat, fd : Descriptors, gen : Nat, mask : SUBSET Events]
  /\ files \in 1..MaxFiles

LoopTypes ==
  /\ at \in {"reify", "poll", "events", "invoke", "left"}
  /\ watched \in [Descriptors -> SUBSET Events]
  /\ anfds \in [Descriptors -> [events : SUBSET Events, emask : SUBSET Events, egen : Nat]]
  /\ fdchanges \in [Descriptors -> {"no", "changed", "set"}]
  /\ polled \subseteq [fd : Descriptors, gen : Nat, events : SUBSET (Events \cup {HangUp})]
  /\ idling \in BOOLEAN /\ postfork \in BOOLEAN

PendingTypes == pendings \in Seq(Watchers) /\ doomed \in Nat

(* A descriptor is watched for reading as long as it is open, and each     *)
(* leads to a file of its own.                                             *)
FilesInv ==
  /\ \A fd \in Descriptors : file[fd] # 0 => "read" \in watched[fd]
  /\ \A fd \in Descriptors : file[fd] = 0 => watched[fd] = {}
  /\ \A fd \in Descriptors : file[fd] <= files
  /\ \A c, d \in Descriptors : file[c] = file[d] /\ c # d => file[c] = 0
  /\ \A r \in registered : r.file \in 1..files

(* The idle watcher is pending alone, and only while hosts are doomed.     *)
PendingInv ==
  /\ idling => doomed > 0
  /\ \A i \in DOMAIN pendings :
       \/ pendings[i] = Cleared
       \/ pendings[i] = Idle /\ idling /\ at = "invoke" /\ Len(pendings) = 1
       \/ pendings[i][1] \in Descriptors /\ pendings[i][2] \in watched[pendings[i][1]]

(* Of a descriptor that was not set anew, epoll has what libev has told it *)
(* last.                                                                   *)
Record(fd) ==
  [file |-> file[fd], fd |-> fd, gen |-> anfds[fd].egen, mask |-> anfds[fd].events]

ChangesInv ==
  \A fd \in Descriptors : watched[fd] # {} /\ fdchanges[fd] # "set" =>
    /\ anfds[fd].events # {}
    /\ fdchanges[fd] = "no" => anfds[fd].events = watched[fd]
    /\ ~postfork => Record(fd) \in registered

(* A registration of a file that was closed has an earlier generation than *)
(* what the descriptor is used for now.                                    *)
RegistrationsInv ==
  \A r \in registered :
    /\ r.gen <= anfds[r.fd].egen
    /\ r.file = file[r.fd] => anfds[r.fd].events # {}
    /\ r.file # file[r.fd] /\ watched[r.fd] # {} /\ fdchanges[r.fd] # "set" =>
         r.gen < anfds[r.fd].egen

(* An event of the present generation is one of the present file.          *)
PollInv ==
  /\ at = "poll" => ~postfork /\ \A fd \in Descriptors : fdchanges[fd] = "no"
  /\ at = "events" => \A x \in polled :
       x.gen = anfds[x.fd].egen /\ watched[x.fd] # {} => x.events \subseteq ready[file[x.fd]]

TypeOK == SystemTypes /\ LoopTypes /\ PendingTypes
KnowledgeInv == ChangesInv /\ RegistrationsInv /\ PollInv
IInv == TypeOK /\ FilesInv /\ PendingInv /\ KnowledgeInv
-----------------------------------------------------------------------------
(* Lemmas about the list of pending watchers.                              *)

LEMMA FrontIs ==
  ASSUME NEW S, NEW s \in Seq(S), s # <<>>
  PROVE  /\ Front(s) \in Seq(S)
         /\ Len(Front(s)) = Len(s) - 1
         /\ \A i \in DOMAIN Front(s) : i \in DOMAIN s /\ Front(s)[i] = s[i]
BY DEF Front

LEMMA WithoutPendingIs ==
  ASSUME NEW fd \in Descriptors, NEW E, pendings \in Seq(Watchers), pendings # <<>>
  PROVE  /\ WithoutPending(fd, E) \in Seq(Watchers)
         /\ Len(WithoutPending(fd, E)) = Len(pendings) - 1
         /\ \A i \in DOMAIN WithoutPending(fd, E) :
              /\ i \in DOMAIN pendings
              /\ WithoutPending(fd, E)[i] \in {Cleared, pendings[i]}
              /\ pendings[i][1] = fd /\ pendings[i][2] \in E =>
                   WithoutPending(fd, E)[i] = Cleared
<1>1. Cleared \in Watchers /\ Len(pendings) \in Nat \ {0}
  BY DEF Watchers
<1>2. ASSUME NEW i \in 1..(Len(pendings) - 1)
      PROVE  pendings[i] \in Watchers
  BY <1>1, <1>2
<1> QED BY <1>1, <1>2 DEF WithoutPending

LEMMA FedIs ==
  ASSUME NEW fd \in Descriptors, NEW got, pendings \in Seq(Watchers)
  PROVE  /\ Fed(fd, got) \in Seq(Watchers)
         /\ \A i \in DOMAIN Fed(fd, got) :
              \/ i \in DOMAIN pendings /\ Fed(fd, got)[i] = pendings[i]
              \/ \E e \in Events : Fed(fd, got)[i] = <<fd, e>> /\ e \in watched[fd] \cap got
<1> DEFINE w == IF "write" \in watched[fd] \cap got THEN <<<<fd, "write">>>> ELSE <<>>
           r == IF "read" \in watched[fd] \cap got THEN <<<<fd, "read">>>> ELSE <<>>
<1>1. <<fd, "write">> \in Watchers /\ <<fd, "read">> \in Watchers
  BY DEF Watchers, Events
<1>2. /\ w \in Seq(Watchers) /\ \A i \in DOMAIN w : w[i] = <<fd, "write">> /\ "write" \in watched[fd] \cap got
      /\ r \in Seq(Watchers) /\ \A i \in DOMAIN r : r[i] = <<fd, "read">> /\ "read" \in watched[fd] \cap got
  BY <1>1
<1>3. Fed(fd, got) = pendings \o w \o r
  BY DEF Fed
<1> HIDE DEF w, r
<1>4. pendings \o w \o r \in Seq(Watchers)
  BY <1>2
<1>5. ASSUME NEW i \in DOMAIN (pendings \o w \o r)
      PROVE  \/ i \in DOMAIN pendings /\ (pendings \o w \o r)[i] = pendings[i]
             \/ \E j \in DOMAIN w : (pendings \o w \o r)[i] = w[j]
             \/ \E j \in DOMAIN r : (pendings \o w \o r)[i] = r[j]
  <2>1. CASE i <= Len(pendings)
    BY <1>2, <1>5, <2>1
  <2>2. CASE Len(pendings) < i /\ i <= Len(pendings) + Len(w)
    <3>1. i - Len(pendings) \in DOMAIN w /\ (pendings \o w \o r)[i] = w[i - Len(pendings)]
      BY <1>2, <1>5, <2>2
    <3> QED BY <3>1
  <2>3. CASE Len(pendings) + Len(w) < i
    <3>1. /\ i - (Len(pendings) + Len(w)) \in DOMAIN r
          /\ (pendings \o w \o r)[i] = r[i - (Len(pendings) + Len(w))]
      BY <1>2, <1>5, <2>3
    <3> QED BY <3>1
  <2> QED BY <1>2, <1>5, <2>1, <2>2, <2>3
<1> QED BY <1>2, <1>3, <1>4, <1>5 DEF Events
-----------------------------------------------------------------------------
LEMMA InitInv == Init => IInv
<1> SUFFICES ASSUME Init PROVE IInv
  OBVIOUS
<1> USE DescriptorsAreNumbers, BoundsAreNat DEF Init, Events
<1>1. SystemTypes
  BY DEF SystemTypes
<1>2. LoopTypes
  BY DEF LoopTypes
<1>3. PendingTypes /\ PendingInv
  BY DEF PendingTypes, PendingInv
<1>4. FilesInv
  <2>1. PICK first : /\ file = [fd \in Descriptors |-> IF fd = first THEN 1 ELSE 0]
                     /\ watched = [fd \in Descriptors |-> IF fd = first THEN {"read"} ELSE {}]
    OBVIOUS
  <2>2. files = 1 /\ registered = {}
    OBVIOUS
  <2>3. \A fd \in Descriptors : file[fd] = (IF fd = first THEN 1 ELSE 0)
    BY <2>1
  <2>4. \A fd \in Descriptors : watched[fd] = (IF fd = first THEN {"read"} ELSE {})
    BY <2>1
  <2> HIDE DEF Init
  <2>5. ASSUME NEW fd \in Descriptors
        PROVE  /\ file[fd] # 0 => "read" \in watched[fd]
               /\ file[fd] = 0 => watched[fd] = {}
               /\ file[fd] <= files
    <3>1. CASE fd = first
      <4>1. file[fd] = 1 /\ watched[fd] = {"read"}
        BY <2>3, <2>4, <3>1
      <4> QED BY <2>2, <4>1
    <3>2. CASE fd # first
      <4>1. file[fd] = 0 /\ watched[fd] = {}
        BY <2>3, <2>4, <3>2
      <4> QED BY <2>2, <4>1
    <3> QED BY <3>1, <3>2
  <2>6. ASSUME NEW c \in Descriptors, NEW d \in Descriptors, file[c] = file[d], c # d
        PROVE  file[c] = 0
    <3>1. CASE c = first
      BY <2>3, <2>6, <3>1
    <3>2. CASE c # first
      BY <2>3, <3>2
    <3> QED BY <3>1, <3>2
  <2> QED BY <2>2, <2>5, <2>6 DEF FilesInv
<1>5. KnowledgeInv
  <2>1. ChangesInv
    BY DEF ChangesInv
  <2>2. RegistrationsInv /\ PollInv
    BY DEF RegistrationsInv, PollInv
  <2> QED BY <2>1, <2>2 DEF KnowledgeInv
<1> QED BY <1>1, <1>2, <1>3, <1>4, <1>5 DEF IInv, TypeOK

-----------------------------------------------------------------------------
(* fd_reify.                                                               *)

(* What changed is told, and epoll never has it already.                   *)
LEMMA ToldIs ==
  ASSUME IInv, NEW fd \in Descriptors
  PROVE  /\ Told(fd) => watched[fd] # {} /\ file[fd] # 0
         /\ watched[fd] # {} /\ fdchanges[fd] = "set" => Told(fd)
         /\ watched[fd] # {} /\ postfork => Told(fd)
         /\ watched[fd] # {} /\ ~Told(fd) => anfds[fd].events = watched[fd]
<1> USE DEF IInv, TypeOK, LoopTypes, SystemTypes
<1>1. watched[fd] # {} => file[fd] # 0
  BY DEF FilesInv
<1>2. ~KnownToEpoll(fd) \/ watched[fd] = {}
  <2>1. CASE postfork
    BY <2>1 DEF KnownToEpoll, OldRegistration
  <2>2. CASE ~postfork
    BY <1>1, <2>2
      DEF KnownToEpoll, OldRegistration, OldEvents, Registration, KnowledgeInv, RegistrationsInv
  <2> QED BY <2>1, <2>2
<1>3. watched[fd] # {} /\ fdchanges[fd] = "set" => Told(fd)
  BY <1>2 DEF Told, Modified, IsChanged, IsSet
<1>4. watched[fd] # {} /\ postfork => Told(fd)
  BY <1>2 DEF Told, Modified, IsChanged, IsSet, KnowledgeInv, ChangesInv
<1>5. watched[fd] # {} /\ ~Told(fd) => anfds[fd].events = watched[fd]
  BY <1>2, <1>3, <1>4
    DEF Told, Modified, IsChanged, IsSet, OldEvents, KnowledgeInv, ChangesInv
<1>6. Told(fd) => watched[fd] # {}
  BY DEF Told, Modified
<1> QED BY <1>1, <1>3, <1>4, <1>5, <1>6

LEMMA ReifyKeepsInv ==
  ASSUME IInv, Reify
  PROVE  IInv'
<1> USE DEF IInv
<1>1. /\ anfds' \in [Descriptors -> [events : SUBSET Events, emask : SUBSET Events, egen : Nat]]
      /\ \A fd \in Descriptors :
           /\ anfds'[fd].egen = IF Told(fd) THEN anfds[fd].egen + 1 ELSE anfds[fd].egen
           /\ watched[fd] # {} => anfds'[fd].events = watched[fd]
  <2>1. ASSUME NEW fd \in Descriptors
        PROVE  /\ anfds'[fd] \in [events : SUBSET Events, emask : SUBSET Events, egen : Nat]
               /\ anfds'[fd].egen = IF Told(fd) THEN anfds[fd].egen + 1 ELSE anfds[fd].egen
               /\ watched[fd] # {} => anfds'[fd].events = watched[fd]
    <3>1. OldMask(fd) \in SUBSET Events
      BY DEF TypeOK, LoopTypes, OldMask
    <3>2. IsChanged(fd) \/ ~Told(fd)
      BY DEF Told, Modified
    <3> QED BY <3>1, <3>2, ToldIs DEF Reify, NextGeneration, TypeOK, LoopTypes
  <2>2. DOMAIN anfds' = Descriptors /\ anfds' = [fd \in Descriptors |-> anfds'[fd]]
    BY DEF Reify
  <2> QED BY <2>1, <2>2
<1>2. ASSUME NEW r \in registered'
      PROVE  \/ /\ r \in registered /\ ~postfork
                /\ r.file = file[r.fd] => ~Told(r.fd)
             \/ /\ r = [file |-> file[r.fd], fd |-> r.fd, gen |-> anfds[r.fd].egen + 1,
                        mask |-> watched[r.fd]]
                /\ r.fd \in Descriptors /\ Told(r.fd)
  BY <1>2 DEF Reify, NextGeneration
<1>3. SystemTypes'
  <2>1. ASSUME NEW r \in registered'
        PROVE  r \in [file : Nat, fd : Descriptors, gen : Nat, mask : SUBSET Events]
    BY <1>2, <2>1 DEF TypeOK, SystemTypes, LoopTypes
  <2> QED BY <2>1 DEF Reify, TypeOK, SystemTypes
<1>4. LoopTypes' /\ PendingTypes'
  BY <1>1 DEF Reify, TypeOK, LoopTypes, PendingTypes, program
<1>5. FilesInv'
  <2>1. ASSUME NEW r \in registered'
        PROVE  r.file \in 1..files
    BY <1>2, <2>1, ToldIs DEF FilesInv, TypeOK, SystemTypes
  <2> QED BY <2>1 DEF Reify, FilesInv
<1>6. PendingInv'
  BY DEF Reify, PendingInv, program
<1>7. ChangesInv'
  <2>1. ASSUME NEW fd \in Descriptors, watched[fd] # {}
        PROVE  Record(fd)' \in registered'
    <3>1. CASE Told(fd)
      BY <1>1, <2>1, <3>1 DEF Reify, Record, NextGeneration
    <3>2. CASE ~Told(fd)
      <4>1. Record(fd) \in registered /\ ~postfork
        BY <2>1, <3>2, ToldIs DEF KnowledgeInv, ChangesInv
      <4>2. Record(fd)' = Record(fd)
        BY <1>1, <2>1, <3>2, ToldIs DEF Reify, Record
      <4> QED BY <3>2, <4>1, <4>2 DEF Reify, Record
    <3> QED BY <3>1, <3>2
  <2> QED BY <1>1, <2>1 DEF Reify, ChangesInv
<1>8. RegistrationsInv'
  <2>1. SUFFICES ASSUME NEW r \in registered'
                 PROVE  /\ r.gen <= anfds'[r.fd].egen
                        /\ r.file = file[r.fd] => anfds'[r.fd].events # {}
                        /\ r.file # file[r.fd] /\ watched[r.fd] # {} => r.gen < anfds'[r.fd].egen
    BY DEF Reify, RegistrationsInv
  <2>2. r.fd \in Descriptors /\ r.gen \in Nat /\ anfds[r.fd].egen \in Nat
    BY <1>3, DescriptorsAreNumbers DEF TypeOK, SystemTypes, LoopTypes
  <2>3. CASE r \in registered /\ ~postfork
    <3>1. r.gen <= anfds'[r.fd].egen
      BY <1>1, <2>2, <2>3 DEF KnowledgeInv, RegistrationsInv
    <3>2. r.file = file[r.fd] => watched[r.fd] # {}
      BY <2>2, <2>3 DEF FilesInv
    <3>3. r.file # file[r.fd] /\ watched[r.fd] # {} => r.gen < anfds'[r.fd].egen
      <4>1. CASE Told(r.fd)
        BY <1>1, <2>2, <2>3, <4>1 DEF KnowledgeInv, RegistrationsInv
      <4>2. CASE ~Told(r.fd)
        <5>1. watched[r.fd] # {} => fdchanges[r.fd] # "set"
          BY <2>2, <4>2, ToldIs
        <5>2. anfds'[r.fd].egen = anfds[r.fd].egen
          BY <1>1, <2>2, <4>2
        <5> QED BY <2>3, <5>1, <5>2 DEF KnowledgeInv, RegistrationsInv
      <4> QED BY <4>1, <4>2
    <3> QED BY <1>1, <2>2, <3>1, <3>2, <3>3
  <2>4. CASE /\ r = [file |-> file[r.fd], fd |-> r.fd, gen |-> anfds[r.fd].egen + 1,
                     mask |-> watched[r.fd]]
             /\ Told(r.fd)
    <3>1. r.gen = anfds[r.fd].egen + 1 /\ r.file = file[r.fd]
      BY <2>4
    <3> QED BY <1>1, <2>2, <2>4, <3>1, ToldIs
  <2> QED BY <1>2, <2>1, <2>3, <2>4
<1>9. PollInv'
  BY DEF Reify, PollInv
<1> QED BY <1>3, <1>4, <1>5, <1>6, <1>7, <1>8, <1>9 DEF TypeOK, KnowledgeInv
-----------------------------------------------------------------------------
(* epoll_poll.                                                             *)

LEMMA PollKeepsInv ==
  ASSUME IInv, Poll
  PROVE  IInv'
<1> USE DEF IInv
<1>1. SystemTypes' /\ FilesInv'
  BY DEF Poll, system, watchers, TypeOK, SystemTypes, FilesInv
<1>2. LoopTypes'
  <2>1. ASSUME NEW r \in registered
        PROVE  [fd |-> r.fd, gen |-> r.gen, events |-> Reported(r)]
                 \in [fd : Descriptors, gen : Nat, events : SUBSET (Events \cup {HangUp})]
    <3>1. r.fd \in Descriptors /\ r.gen \in Nat /\ r.mask \in SUBSET Events
      BY <2>1 DEF TypeOK, SystemTypes
    <3>2. Reported(r) \in SUBSET (Events \cup {HangUp})
      BY <3>1 DEF Reported
    <3> QED BY <3>1, <3>2
  <2> QED BY <2>1 DEF Poll, watchers, TypeOK, LoopTypes
<1>3. PendingTypes' /\ PendingInv'
  BY DEF Poll, watchers, program, TypeOK, PendingTypes, PendingInv
<1>4. ChangesInv' /\ RegistrationsInv'
  BY DEF Poll, system, watchers, KnowledgeInv, ChangesInv, RegistrationsInv, Record
<1>5. PollInv'
  <2>1. ASSUME NEW r \in registered, r.gen = anfds[r.fd].egen, watched[r.fd] # {}
        PROVE  Reported(r) \subseteq ready[file[r.fd]]
    <3>1. r.fd \in Descriptors /\ r.gen \in Nat
      BY <2>1 DEF TypeOK, SystemTypes
    <3>2. r.file = file[r.fd]
      BY <2>1, <3>1 DEF Poll, KnowledgeInv, RegistrationsInv, PollInv
    <3> QED BY <3>2 DEF Reported
  <2> QED BY <2>1 DEF Poll, system, watchers, PollInv
<1> QED BY <1>1, <1>2, <1>3, <1>4, <1>5 DEF TypeOK, KnowledgeInv

(* An event is fed to the watchers of its descriptor.                      *)
LEMMA FedKeepsPending ==
  ASSUME IInv, NEW fd \in Descriptors, NEW got, at = "events",
         pendings' \in {pendings, Fed(fd, got)},
         UNCHANGED <<watched, at, idling, doomed>>
  PROVE  PendingTypes' /\ PendingInv'
<1> USE DEF IInv, TypeOK, PendingTypes, PendingInv
<1>1. CASE pendings' = pendings
  BY <1>1
<1>2. CASE pendings' = Fed(fd, got)
  <2>1. PendingTypes'
    BY <1>2, FedIs
  <2>2. ASSUME NEW i \in DOMAIN pendings'
        PROVE  \/ pendings'[i] = Cleared
               \/ pendings'[i][1] \in Descriptors /\ pendings'[i][2] \in watched[pendings'[i][1]]
    <3>1. CASE i \in DOMAIN pendings /\ pendings'[i] = pendings[i]
      BY <3>1
    <3>2. CASE \E e \in Events : pendings'[i] = <<fd, e>> /\ e \in watched[fd] \cap got
      BY <3>2
    <3> QED BY <1>2, <2>2, <3>1, <3>2, FedIs
  <2> QED BY <2>1, <2>2
<1> QED BY <1>1, <1>2

LEMMA HandleEventKeepsInv ==
  ASSUME IInv, NEW x \in polled, HandleEvent(x)
  PROVE  IInv'
<1> USE DEF IInv
<1>1. x.fd \in Descriptors /\ x.gen \in Nat
  BY DEF TypeOK, LoopTypes
<1>2. PendingTypes' /\ PendingInv'
  <2>1. /\ at = "events"
        /\ pendings' \in {pendings, Fed(x.fd, Got(x))}
        /\ UNCHANGED <<watched, at, idling, doomed>>
    BY DEF HandleEvent, Spurious, Unwanted, Wanted, watchers, program
  <2> QED BY <1>1, <2>1, FedKeepsPending
<1>3. /\ anfds' \in [Descriptors -> [events : SUBSET Events, emask : SUBSET Events, egen : Nat]]
      /\ \A fd \in Descriptors :
           anfds'[fd].events = anfds[fd].events /\ anfds'[fd].egen = anfds[fd].egen
  <2>1. \/ UNCHANGED anfds
        \/ anfds' = [anfds EXCEPT ![x.fd].emask = anfds[x.fd].events]
    BY DEF HandleEvent, Spurious, Unwanted, Wanted
  <2>2. anfds \in [Descriptors -> [events : SUBSET Events, emask : SUBSET Events, egen : Nat]]
    BY DEF TypeOK, LoopTypes
  <2> QED BY <1>1, <2>1, <2>2
<1>4. CASE UNCHANGED registered
  <2>1. SystemTypes' /\ FilesInv'
    BY <1>4 DEF HandleEvent, watchers, TypeOK, SystemTypes, FilesInv
  <2>2. LoopTypes'
    BY <1>3 DEF HandleEvent, Spurious, Unwanted, Wanted, watchers, TypeOK, LoopTypes
  <2>3. postfork' = postfork \/ postfork'
    BY DEF HandleEvent, Spurious, Unwanted, Wanted
  <2>4. ChangesInv'
    BY <1>3, <1>4, <2>3 DEF HandleEvent, watchers, KnowledgeInv, ChangesInv, Record
  <2>5. RegistrationsInv'
    <3>1. \A r \in registered : r.fd \in Descriptors
      BY DEF TypeOK, SystemTypes
    <3> QED BY <1>3, <1>4, <3>1 DEF HandleEvent, watchers, KnowledgeInv, RegistrationsInv
  <2>6. PollInv'
    <3>1. \A y \in polled : y.fd \in Descriptors
      BY DEF TypeOK, LoopTypes
    <3> QED BY <1>3, <3>1 DEF HandleEvent, watchers, KnowledgeInv, PollInv
  <2> QED BY <1>2, <2>1, <2>2, <2>4, <2>5, <2>6 DEF TypeOK, KnowledgeInv
<1>5. CASE ~(UNCHANGED registered)
  <2> DEFINE want == anfds[x.fd].events
             known == Registration(x.fd)
  <2>1. /\ Unwanted(x) /\ known # {}
        /\ registered' = (registered \ known) \cup
              (IF want = {} THEN {}
               ELSE {[file |-> file[x.fd], fd |-> x.fd, gen |-> x.gen, mask |-> want]})
        /\ UNCHANGED postfork
    BY <1>5 DEF HandleEvent, Spurious, Unwanted, Wanted
  <2>2. x.gen = anfds[x.fd].egen
    BY <2>1 DEF Unwanted
  <2>3. known = {r \in registered : r.fd = x.fd /\ r.file = file[x.fd]}
    BY DEF Registration
  <2>4. want # {} /\ want \in SUBSET Events
    BY <1>1, <2>1, <2>3 DEF KnowledgeInv, RegistrationsInv, TypeOK, LoopTypes
  <2> HIDE DEF want, known
  <2>5. registered' =
          (registered \ known) \cup {[file |-> file[x.fd], fd |-> x.fd, gen |-> x.gen, mask |-> want]}
    BY <2>1, <2>4
  <2>6. SystemTypes'
    BY <1>1, <2>4, <2>5 DEF HandleEvent, TypeOK, SystemTypes
  <2>7. LoopTypes'
    BY <1>3, <2>1 DEF HandleEvent, watchers, TypeOK, LoopTypes
  <2>8. FilesInv'
    <3>1. file[x.fd] \in 1..files
      BY <2>1, <2>3 DEF FilesInv
    <3>2. \A r \in registered' : r.file \in 1..files
      BY <2>5, <3>1 DEF FilesInv
    <3> QED BY <3>2 DEF HandleEvent, watchers, FilesInv
  <2>9. ChangesInv'
    <3>1. ASSUME NEW fd \in Descriptors, Record(fd) \in registered
          PROVE  Record(fd)' \in registered'
      <4>1. Record(fd)' = Record(fd)
        BY <1>3 DEF HandleEvent, Record
      <4>2. CASE fd = x.fd
        BY <2>2, <2>5, <4>1, <4>2 DEF Record, want
      <4>3. CASE fd # x.fd
        BY <2>3, <2>5, <3>1, <4>1, <4>3 DEF Record
      <4> QED BY <4>2, <4>3
    <3> QED BY <1>3, <2>1, <3>1 DEF HandleEvent, watchers, KnowledgeInv, ChangesInv
  <2>10. RegistrationsInv'
    <3>1. \A r \in registered : r.fd \in Descriptors
      BY DEF TypeOK, SystemTypes
    <3>2. SUFFICES ASSUME NEW r \in registered'
                   PROVE  /\ r.gen <= anfds[r.fd].egen
                          /\ r.file = file[r.fd] => anfds[r.fd].events # {}
                          /\ r.file # file[r.fd] /\ watched[r.fd] # {} /\ fdchanges[r.fd] # "set" =>
                               r.gen < anfds[r.fd].egen
                          /\ r.fd \in Descriptors
      BY <1>3 DEF HandleEvent, watchers, RegistrationsInv
    <3>3. CASE r \in registered
      BY <3>1, <3>3 DEF KnowledgeInv, RegistrationsInv
    <3>4. CASE r = [file |-> file[x.fd], fd |-> x.fd, gen |-> x.gen, mask |-> want]
      BY <1>1, <2>2, <2>4, <3>4 DEF want
    <3> QED BY <2>5, <3>2, <3>3, <3>4
  <2>11. PollInv'
    <3>1. \A y \in polled : y.fd \in Descriptors
      BY DEF TypeOK, LoopTypes
    <3> QED BY <1>3, <2>1, <3>1 DEF HandleEvent, watchers, KnowledgeInv, PollInv
  <2> QED BY <1>2, <2>6, <2>7, <2>8, <2>9, <2>10, <2>11 DEF TypeOK, KnowledgeInv
<1> QED BY <1>4, <1>5

LEMMA PollDoneKeepsInv ==
  ASSUME IInv, PollDone
  PROVE  IInv'
<1> USE DEF IInv
<1>1. SystemTypes' /\ FilesInv'
  BY DEF PollDone, system, watchers, TypeOK, SystemTypes, FilesInv
<1>2. LoopTypes'
  BY DEF PollDone, watchers, TypeOK, LoopTypes
<1>3. PendingTypes' /\ PendingInv'
  <2>1. <<Idle>> \in Seq(Watchers)
    BY DEF Watchers
  <2> QED BY <2>1 DEF PollDone, watchers, program, TypeOK, PendingTypes, PendingInv
<1>4. KnowledgeInv'
  BY DEF PollDone, system, watchers, KnowledgeInv, ChangesInv, RegistrationsInv, PollInv, Record
<1> QED BY <1>1, <1>2, <1>3, <1>4 DEF TypeOK
-----------------------------------------------------------------------------
(* ev_invoke_pending: the callbacks.                                       *)

(* A callback that leaves the watchers alone, or starts one.               *)
LEMMA FrontKeepsPending ==
  ASSUME IInv, at = "invoke", pendings # <<>>, pendings' = Front(pendings),
         UNCHANGED <<at, idling, doomed>>,
         \A fd \in Descriptors : watched[fd] \subseteq watched'[fd]
  PROVE  PendingTypes' /\ PendingInv'
<1> USE DEF IInv, TypeOK, PendingTypes, PendingInv
<1>1. /\ pendings' \in Seq(Watchers)
      /\ Len(pendings') = Len(pendings) - 1 /\ Len(pendings) \in Nat
      /\ \A i \in DOMAIN pendings' : i \in DOMAIN pendings /\ pendings'[i] = pendings[i]
  BY FrontIs
<1>2. ASSUME NEW i \in DOMAIN pendings', pendings[i] = Idle, Len(pendings) = 1
      PROVE  FALSE
  BY <1>1, <1>2
<1> QED BY <1>1, <1>2

(* A callback that stops watchers.                                         *)
LEMMA StopKeepsPending ==
  ASSUME IInv, at = "invoke", pendings # <<>>, NEW fd \in Descriptors, NEW E,
         pendings' = WithoutPending(fd, E), UNCHANGED at,
         watched' = [watched EXCEPT ![fd] = @ \ E],
         \/ UNCHANGED <<idling, doomed>>
         \/ idling' = TRUE /\ doomed' = doomed + 1
  PROVE  PendingTypes' /\ PendingInv'
<1> USE DEF IInv, TypeOK, PendingTypes, PendingInv
<1>1. /\ pendings' \in Seq(Watchers)
      /\ Len(pendings') = Len(pendings) - 1 /\ Len(pendings) \in Nat
      /\ \A i \in DOMAIN pendings' :
           /\ i \in DOMAIN pendings
           /\ pendings'[i] \in {Cleared, pendings[i]}
           /\ pendings[i][1] = fd /\ pendings[i][2] \in E => pendings'[i] = Cleared
  BY WithoutPendingIs
<1>2. ASSUME NEW i \in DOMAIN pendings', pendings[i] = Idle, Len(pendings) = 1
      PROVE  FALSE
  BY <1>1, <1>2
<1>3. \A e \in Descriptors : watched'[e] = IF e = fd THEN watched[fd] \ E ELSE watched[e]
  BY DEF LoopTypes
<1>4. ASSUME NEW i \in DOMAIN pendings', pendings'[i] # Cleared
      PROVE  pendings'[i][1] \in Descriptors /\ pendings'[i][2] \in watched'[pendings'[i][1]]
  <2>1. pendings'[i] = pendings[i] /\ pendings[i] # Cleared /\ pendings[i] # Idle
    <3>1. pendings'[i] = pendings[i] /\ i \in DOMAIN pendings
      BY <1>1, <1>4
    <3>2. ASSUME pendings[i] = Idle
          PROVE  FALSE
      <4>1. pendings[i][2] = "idle"
        BY <3>2 DEF Idle
      <4>2. pendings[i] # Cleared
        BY <1>4, <3>1
      <4>3. pendings[i][1] \in Descriptors => pendings[i][2] \notin watched[pendings[i][1]]
        BY <4>1 DEF LoopTypes, Events
      <4> QED BY <1>2, <1>4, <3>1, <3>2, <4>2, <4>3
    <3> QED BY <1>4, <3>1, <3>2
  <2>2. pendings[i][1] \in Descriptors /\ pendings[i][2] \in watched[pendings[i][1]]
    BY <1>1, <1>4, <2>1
  <2>3. pendings[i][1] = fd => pendings[i][2] \notin E
    BY <1>1, <1>4
  <2> QED BY <1>3, <2>1, <2>2, <2>3
<1> QED BY <1>1, <1>4

LEMMA InvokedIs ==
  ASSUME NEW w, Invoked(w), pendings \in Seq(Watchers)
  PROVE  at = "invoke" /\ pendings # <<>> /\ Len(pendings) \in DOMAIN pendings
           /\ pendings[Len(pendings)] = w
BY DEF Invoked, Last

(* What is invoked for a descriptor, which is therefore open.              *)
LEMMA InvokedIsWatched ==
  ASSUME IInv, NEW fd \in Descriptors, NEW e \in Events, Invoked(<<fd, e>>)
  PROVE  e \in watched[fd] /\ file[fd] \in 1..files
<1>1. /\ Len(pendings) \in DOMAIN pendings
      /\ pendings[Len(pendings)] = <<fd, e>>
  BY InvokedIs DEF IInv, TypeOK, PendingTypes
<1>2. <<fd, e>> # Cleared /\ <<fd, e>> # Idle
  BY DEF Cleared, Idle, Events
<1>3. e \in watched[fd]
  BY <1>1, <1>2 DEF IInv, PendingInv
<1>4. file[fd] # 0 /\ file[fd] <= files
  BY <1>3 DEF IInv, FilesInv
<1> QED BY <1>3, <1>4 DEF IInv, TypeOK, SystemTypes

(* What is ready matters only when epoll is asked.                         *)
LEMMA ReadyKeepsTypes ==
  ASSUME IInv, NEW f, NEW what \in SUBSET (Events \cup {HangUp}),
         ready' = [ready EXCEPT ![f] = what],
         UNCHANGED <<file, registered, files>>
  PROVE  SystemTypes'
BY DEF IInv, TypeOK, SystemTypes

LEMMA ReadyIsSubset ==
  ASSUME IInv, NEW fd \in Descriptors, file[fd] \in 1..files
  PROVE  ready[file[fd]] \in SUBSET (Events \cup {HangUp})
BY BoundsAreNat DEF IInv, TypeOK, SystemTypes

(* In callbacks the part of the invariant about polling is void.           *)
LEMMA ReadAndUnloopKeepsInv ==
  ASSUME IInv, NEW fd \in Descriptors, ReadAndUnloop(fd)
  PROVE  IInv'
<1> USE DEF ReadAndUnloop, Reads, watchers
<1>1. file[fd] \in 1..files
  BY InvokedIsWatched DEF Events
<1>2. SystemTypes'
  <2>1. ready[file[fd]] \ {"read"} \in SUBSET (Events \cup {HangUp})
    BY <1>1, ReadyIsSubset
  <2> QED BY <2>1, ReadyKeepsTypes
<1>3. at = "invoke" /\ pendings # <<>>
  BY InvokedIs DEF IInv, TypeOK, PendingTypes
<1>4. PendingTypes' /\ PendingInv'
  BY <1>3, FrontKeepsPending
<1>5. LoopTypes' /\ FilesInv'
  BY DEF IInv, TypeOK, LoopTypes, FilesInv
<1>6. KnowledgeInv'
  BY <1>3 DEF IInv, KnowledgeInv, ChangesInv, RegistrationsInv, PollInv, Record
<1> QED BY <1>2, <1>4, <1>5, <1>6 DEF IInv, TypeOK

LEMMA ReadAndSendKeepsInv ==
  ASSUME IInv, NEW fd \in Descriptors, NEW other \in Descriptors, ReadAndSend(fd, other)
  PROVE  IInv'
<1> USE DEF ReadAndSend, Reads
<1>1. file[fd] \in 1..files
  BY InvokedIsWatched DEF Events
<1>2. SystemTypes'
  <2>1. ready[file[fd]] \ {"read"} \in SUBSET (Events \cup {HangUp})
    BY <1>1, ReadyIsSubset
  <2> QED BY <2>1, ReadyKeepsTypes
<1>3. at = "invoke" /\ pendings # <<>>
  BY InvokedIs DEF IInv, TypeOK, PendingTypes
<1>4. \A d \in Descriptors :
        watched'[d] = IF d = other THEN watched[d] \cup {"write"} ELSE watched[d]
  BY DEF IInv, TypeOK, LoopTypes
<1>5. PendingTypes' /\ PendingInv'
  BY <1>3, <1>4, FrontKeepsPending
<1>6. /\ fdchanges' \in [Descriptors -> {"no", "changed", "set"}]
      /\ \A d \in Descriptors : fdchanges'[d] = IF d = other THEN "set" ELSE fdchanges[d]
  BY DEF Change, IInv, TypeOK, LoopTypes
<1>7. LoopTypes'
  BY <1>6 DEF IInv, TypeOK, LoopTypes, Events
<1>8. FilesInv'
  BY <1>4 DEF IInv, FilesInv
<1>9. KnowledgeInv'
  <2>1. \A r \in registered : r.fd \in Descriptors
    BY DEF IInv, TypeOK, SystemTypes
  <2>2. ChangesInv'
    BY <1>4, <1>6 DEF IInv, KnowledgeInv, ChangesInv, Record
  <2>3. RegistrationsInv'
    BY <1>4, <1>6, <1>8, <2>1 DEF IInv, KnowledgeInv, RegistrationsInv, FilesInv
  <2> QED BY <1>3, <2>2, <2>3 DEF KnowledgeInv, PollInv
<1> QED BY <1>2, <1>5, <1>7, <1>8, <1>9 DEF IInv, TypeOK

(* A new file, at a free descriptor: nothing is registered for it.         *)
LEMMA ReadAndOpenKeepsInv ==
  ASSUME IInv, NEW fd \in Descriptors, ReadAndOpen(fd)
  PROVE  IInv'
<1>1. PICK new \in Free :
        /\ file' = [file EXCEPT ![new] = files + 1]
        /\ watched' = [watched EXCEPT ![new] = {"read"}]
        /\ Change(new, "set")
  BY DEF ReadAndOpen
<1>2. new \in Descriptors /\ file[new] = 0 /\ watched[new] = {}
  BY <1>1 DEF Free, IInv, FilesInv
<1>3. file[fd] \in 1..files
  BY InvokedIsWatched DEF ReadAndOpen, Events
<1>4. at = "invoke" /\ pendings # <<>>
  BY InvokedIs DEF ReadAndOpen, IInv, TypeOK, PendingTypes
<1>5. files' = files + 1 /\ files \in 1..MaxFiles /\ files' \in 1..MaxFiles
  BY BoundsAreNat DEF ReadAndOpen, IInv, TypeOK, SystemTypes
<1>6. \A d \in Descriptors :
        /\ file'[d] = IF d = new THEN files + 1 ELSE file[d]
        /\ watched'[d] = IF d = new THEN {"read"} ELSE watched[d]
        /\ fdchanges'[d] = IF d = new THEN "set" ELSE fdchanges[d]
  BY <1>1 DEF Change, IInv, TypeOK, SystemTypes, LoopTypes
<1>7. SystemTypes'
  <2>1. ready[file[fd]] \ {"read"} \in SUBSET (Events \cup {HangUp})
    BY <1>3, ReadyIsSubset
  <2>2. ready' \in [1..MaxFiles -> SUBSET (Events \cup {HangUp})]
    BY <2>1 DEF ReadAndOpen, IInv, TypeOK, SystemTypes
  <2>3. files + 1 \in Nat
    BY <1>5, BoundsAreNat
  <2>4. file' \in [Descriptors -> Nat]
    BY <1>1, <2>3 DEF IInv, TypeOK, SystemTypes
  <2> QED BY <1>5, <2>2, <2>4 DEF ReadAndOpen, IInv, TypeOK, SystemTypes
<1>8. LoopTypes'
  BY <1>1 DEF ReadAndOpen, Change, Events, IInv, TypeOK, LoopTypes
<1>9. PendingTypes' /\ PendingInv'
  BY <1>2, <1>4, <1>6, FrontKeepsPending DEF ReadAndOpen, program
<1>10. \A r \in registered : r.fd \in Descriptors /\ r.file \in 1..files
  BY DEF IInv, TypeOK, SystemTypes, FilesInv
<1>11. FilesInv'
  <2>1. \A d \in Descriptors : file[d] \in Nat /\ file[d] <= files
    BY DEF IInv, TypeOK, SystemTypes, FilesInv
  <2>2. \A d \in Descriptors :
          /\ file'[d] # 0 => "read" \in watched'[d]
          /\ file'[d] = 0 => watched'[d] = {}
          /\ file'[d] <= files'
    BY <1>5, <1>6, <2>1 DEF IInv, FilesInv
  <2>3. \A c, d \in Descriptors : file'[c] = file'[d] /\ c # d => file'[c] = 0
    BY <1>5, <1>6, <2>1 DEF IInv, FilesInv
  <2>4. \A r \in registered' : r.file \in 1..files'
    BY <1>5, <1>10 DEF ReadAndOpen
  <2> QED BY <2>2, <2>3, <2>4 DEF FilesInv
<1>12. ChangesInv'
  BY <1>6 DEF ReadAndOpen, IInv, KnowledgeInv, ChangesInv, Record
<1>13. RegistrationsInv'
  <2>1. SUFFICES ASSUME NEW r \in registered
                 PROVE  /\ r.gen <= anfds[r.fd].egen
                        /\ r.file = file'[r.fd] => anfds[r.fd].events # {}
                        /\ r.file # file'[r.fd] /\ watched'[r.fd] # {} /\ fdchanges'[r.fd] # "set" =>
                             r.gen < anfds[r.fd].egen
    BY DEF ReadAndOpen, RegistrationsInv
  <2>2. CASE r.fd = new
    BY <1>2, <1>5, <1>6, <1>10, <2>2 DEF IInv, KnowledgeInv, RegistrationsInv
  <2>3. CASE r.fd # new
    BY <1>6, <1>10, <2>3 DEF IInv, KnowledgeInv, RegistrationsInv
  <2> QED BY <2>2, <2>3
<1>14. PollInv'
  BY <1>4 DEF ReadAndOpen, PollInv
<1> QED BY <1>7, <1>8, <1>9, <1>11, <1>12, <1>13, <1>14 DEF IInv, TypeOK, KnowledgeInv

(* A file is closed: no other descriptor leads to it.                      *)
LEMMA ReadEOFKeepsInv ==
  ASSUME IInv, NEW fd \in Descriptors, ReadEOF(fd)
  PROVE  IInv'
<1>1. file[fd] \in 1..files
  BY InvokedIsWatched DEF ReadEOF, Events
<1>2. at = "invoke" /\ pendings # <<>>
  BY InvokedIs DEF ReadEOF, IInv, TypeOK, PendingTypes
<1>3. \A d \in Descriptors :
        /\ file'[d] = IF d = fd THEN 0 ELSE file[d]
        /\ watched'[d] = IF d = fd THEN {} ELSE watched[d]
        /\ d # fd => fdchanges'[d] = fdchanges[d]
  BY DEF ReadEOF, Change, IInv, TypeOK, SystemTypes, LoopTypes
<1>4. SystemTypes'
  BY DEF ReadEOF, IInv, TypeOK, SystemTypes
<1>5. LoopTypes'
  BY DEF ReadEOF, Change, IInv, TypeOK, LoopTypes
<1>6. PendingTypes' /\ PendingInv'
  <2>1. watched' = [watched EXCEPT ![fd] = @ \ Events]
    <3>1. watched[fd] \ Events = {}
      BY DEF IInv, TypeOK, LoopTypes
    <3> QED BY <3>1 DEF ReadEOF
  <2> QED BY <1>2, <2>1, StopKeepsPending DEF ReadEOF
<1>7. registered' \subseteq registered
  BY DEF ReadEOF
<1>8. \A r \in registered : r.fd \in Descriptors /\ r.file \in 1..files
  BY DEF IInv, TypeOK, SystemTypes, FilesInv
<1>9. FilesInv'
  <2>1. \A d \in Descriptors :
          /\ file'[d] # 0 => "read" \in watched'[d]
          /\ file'[d] = 0 => watched'[d] = {}
    BY <1>3 DEF IInv, FilesInv
  <2>2. files' = files /\ files \in 1..MaxFiles
    BY DEF ReadEOF, IInv, TypeOK, SystemTypes
  <2>3. \A d \in Descriptors : file'[d] <= files
    BY <1>3, <2>2, BoundsAreNat DEF IInv, FilesInv
  <2>4. \A c, d \in Descriptors : file'[c] = file'[d] /\ c # d => file'[c] = 0
    BY <1>3 DEF IInv, FilesInv
  <2>5. \A r \in registered' : r.file \in 1..files
    BY <1>7, <1>8
  <2> QED BY <2>1, <2>2, <2>3, <2>4, <2>5 DEF FilesInv
<1>10. ChangesInv'
  <2>1. ASSUME NEW d \in Descriptors, watched'[d] # {}, Record(d) \in registered
        PROVE  Record(d)' \in registered'
    <3>1. d # fd /\ watched[d] # {}
      BY <1>3, <2>1
    <3>2. file[d] # 0 /\ file[d] # file[fd]
      BY <1>1, <3>1 DEF IInv, FilesInv
    <3>3. Record(d)' = Record(d) /\ Record(d).file = file[d]
      BY <1>3, <3>1 DEF ReadEOF, Record
    <3> QED BY <2>1, <3>2, <3>3 DEF ReadEOF
  <2> QED BY <1>3, <2>1 DEF ReadEOF, IInv, KnowledgeInv, ChangesInv
<1>11. RegistrationsInv'
  <2>1. SUFFICES ASSUME NEW r \in registered
                 PROVE  /\ r.gen <= anfds[r.fd].egen
                        /\ r.file = file'[r.fd] => anfds[r.fd].events # {}
                        /\ r.file # file'[r.fd] /\ watched'[r.fd] # {} /\ fdchanges'[r.fd] # "set" =>
                             r.gen < anfds[r.fd].egen
    BY <1>7 DEF ReadEOF, RegistrationsInv
  <2> QED BY <1>3, <1>8 DEF IInv, KnowledgeInv, RegistrationsInv
<1>12. PollInv'
  BY <1>2 DEF ReadEOF, PollInv
<1> QED BY <1>4, <1>5, <1>6, <1>9, <1>10, <1>11, <1>12 DEF IInv, TypeOK, KnowledgeInv

LEMMA WriteSomeKeepsInv ==
  ASSUME IInv, NEW fd \in Descriptors, WriteSome(fd)
  PROVE  IInv'
<1> USE DEF WriteSome, watchers, program
<1>1. file[fd] \in 1..files
  BY InvokedIsWatched DEF Events
<1>2. SystemTypes'
  <2>1. ready[file[fd]] \ {"write"} \in SUBSET (Events \cup {HangUp})
    BY <1>1, ReadyIsSubset
  <2> QED BY <2>1, ReadyKeepsTypes
<1>3. at = "invoke" /\ pendings # <<>>
  BY InvokedIs DEF IInv, TypeOK, PendingTypes
<1>4. PendingTypes' /\ PendingInv'
  BY <1>3, FrontKeepsPending
<1>5. LoopTypes' /\ FilesInv'
  BY DEF IInv, TypeOK, LoopTypes, FilesInv
<1>6. KnowledgeInv'
  BY <1>3 DEF IInv, KnowledgeInv, ChangesInv, RegistrationsInv, PollInv, Record
<1> QED BY <1>2, <1>4, <1>5, <1>6 DEF IInv, TypeOK

LEMMA WriteAllKeepsInv ==
  ASSUME IInv, NEW fd \in Descriptors, WriteAll(fd)
  PROVE  IInv'
<1>1. at = "invoke" /\ pendings # <<>>
  BY InvokedIs DEF WriteAll, IInv, TypeOK, PendingTypes
<1>2. \A d \in Descriptors :
        /\ watched'[d] = IF d = fd THEN watched[d] \ {"write"} ELSE watched[d]
        /\ d # fd => fdchanges'[d] = fdchanges[d]
        /\ fdchanges'[fd] # "no"
        /\ fdchanges'[d] # "set" => fdchanges[d] # "set"
  BY DEF WriteAll, Change, IInv, TypeOK, LoopTypes
<1>3. SystemTypes'
  BY DEF WriteAll, system, IInv, TypeOK, SystemTypes
<1>4. LoopTypes'
  BY DEF WriteAll, Change, program, IInv, TypeOK, LoopTypes
<1>5. PendingTypes' /\ PendingInv'
  BY <1>1, StopKeepsPending DEF WriteAll, program
<1>6. FilesInv'
  BY <1>2 DEF WriteAll, system, IInv, FilesInv
<1>7. ChangesInv'
  BY <1>2 DEF WriteAll, system, IInv, KnowledgeInv, ChangesInv, Record
<1>8. RegistrationsInv'
  <2>1. \A r \in registered : r.fd \in Descriptors
    BY DEF IInv, TypeOK, SystemTypes
  <2> QED BY <1>2, <2>1 DEF WriteAll, system, IInv, KnowledgeInv, RegistrationsInv
<1>9. PollInv'
  BY <1>1 DEF WriteAll, PollInv
<1> QED BY <1>3, <1>4, <1>5, <1>6, <1>7, <1>8, <1>9 DEF IInv, TypeOK, KnowledgeInv

(* The idle watcher is pending alone: afterwards nothing is.               *)
LEMMA IdleCallbackKeepsInv ==
  ASSUME IInv, IdleCallback
  PROVE  IInv'
<1>1. /\ at = "invoke" /\ pendings # <<>> /\ Len(pendings) \in DOMAIN pendings
      /\ pendings[Len(pendings)] = Idle
  BY InvokedIs DEF IdleCallback, IInv, TypeOK, PendingTypes
<1>2. idling /\ Len(pendings) = 1
  <2>1. Idle[2] = "idle" /\ Idle # Cleared
    BY DEF Idle, Cleared
  <2>2. Idle[1] \in Descriptors => Idle[2] \notin watched[Idle[1]]
    BY <2>1 DEF IInv, TypeOK, LoopTypes, Events
  <2> QED BY <1>1, <2>1, <2>2 DEF IInv, PendingInv
<1>3. pendings' \in Seq(Watchers) /\ DOMAIN pendings' = {}
  <2>1. pendings' \in Seq(Watchers) /\ Len(pendings') = 0
    BY <1>1, <1>2, FrontIs DEF IdleCallback, IInv, TypeOK, PendingTypes
  <2> QED BY <2>1
<1>4. doomed' \in Nat /\ (idling' => doomed' > 0) /\ idling' \in BOOLEAN
  <2>1. doomed \in Nat /\ doomed > 0
    BY <1>2 DEF IInv, TypeOK, PendingTypes, PendingInv
  <2>2. doomed - 1 \in Nat /\ (doomed > 1 => doomed - 1 > 0)
    BY <2>1
  <2>3. doomed' = doomed - 1 /\ idling' = (doomed > 1)
    BY DEF IdleCallback
  <2>4. idling' \in BOOLEAN
    <3>1. (doomed > 1) \in BOOLEAN
      BY <2>1
    <3> QED BY <2>3, <3>1, Zenon
  <2>5. idling' => doomed > 1
    BY <2>3, Zenon
  <2> QED BY <2>2, <2>3, <2>4, <2>5
<1>5. SystemTypes' /\ FilesInv'
  BY DEF IdleCallback, system, IInv, TypeOK, SystemTypes, FilesInv
<1>6. LoopTypes' /\ PendingTypes' /\ PendingInv'
  BY <1>3, <1>4 DEF IdleCallback, IInv, TypeOK, LoopTypes, PendingTypes, PendingInv
<1>7. KnowledgeInv'
  BY <1>1
    DEF IdleCallback, system, IInv, KnowledgeInv, ChangesInv, RegistrationsInv, PollInv, Record
<1> QED BY <1>5, <1>6, <1>7 DEF IInv, TypeOK

LEMMA InvokeClearedKeepsInv ==
  ASSUME IInv, InvokeCleared
  PROVE  IInv'
<1> USE DEF InvokeCleared, system, watchers, program
<1>1. at = "invoke" /\ pendings # <<>>
  BY InvokedIs DEF IInv, TypeOK, PendingTypes
<1>2. PendingTypes' /\ PendingInv'
  BY <1>1, FrontKeepsPending
<1>3. SystemTypes' /\ LoopTypes' /\ FilesInv'
  BY DEF IInv, TypeOK, SystemTypes, LoopTypes, FilesInv
<1>4. KnowledgeInv'
  BY <1>1 DEF IInv, KnowledgeInv, ChangesInv, RegistrationsInv, PollInv, Record
<1> QED BY <1>2, <1>3, <1>4 DEF IInv, TypeOK

LEMMA NextIterationKeepsInv ==
  ASSUME IInv, NextIteration
  PROVE  IInv'
<1> USE DEF NextIteration, system, watchers, program
<1>1. SystemTypes' /\ LoopTypes' /\ FilesInv'
  BY DEF IInv, TypeOK, SystemTypes, LoopTypes, FilesInv
<1>2. PendingTypes' /\ PendingInv'
  BY DEF IInv, TypeOK, PendingTypes, PendingInv
<1>3. KnowledgeInv'
  BY DEF IInv, KnowledgeInv, ChangesInv, RegistrationsInv, PollInv, Record
<1> QED BY <1>1, <1>2, <1>3 DEF IInv, TypeOK
-----------------------------------------------------------------------------
(* The peers, and renderers that end.                                      *)

LEMMA PeerActsKeepsInv ==
  ASSUME IInv, NEW f \in 1..files, PeerActs(f)
  PROVE  IInv'
<1> USE DEF PeerActs, watchers, program
<1>1. /\ ready' \in [1..MaxFiles -> SUBSET (Events \cup {HangUp})]
      /\ \A g \in 1..MaxFiles : ready[g] \subseteq ready'[g]
  <2>1. PICK more \in SUBSET (Events \cup {HangUp}) :
          ready' = [ready EXCEPT ![f] = ready[f] \cup more]
    BY DEF Events
  <2> QED BY <2>1 DEF IInv, TypeOK, SystemTypes
<1>2. SystemTypes' /\ LoopTypes' /\ FilesInv'
  BY <1>1 DEF IInv, TypeOK, SystemTypes, LoopTypes, FilesInv
<1>3. PendingTypes' /\ PendingInv'
  BY DEF IInv, TypeOK, PendingTypes, PendingInv
<1>4. ChangesInv' /\ RegistrationsInv'
  BY DEF IInv, KnowledgeInv, ChangesInv, RegistrationsInv, Record
<1>5. PollInv'
  <2>1. \A x \in polled : watched[x.fd] # {} => file[x.fd] \in 1..MaxFiles
    <3>1. \A x \in polled : x.fd \in Descriptors
      BY DEF IInv, TypeOK, LoopTypes
    <3> QED BY <3>1, BoundsAreNat DEF IInv, TypeOK, SystemTypes, FilesInv
  <2>2. at' = at /\ polled' = polled /\ anfds' = anfds /\ watched' = watched /\ file' = file
    OBVIOUS
  <2>3. ASSUME at = "events", NEW x \in polled, x.gen = anfds[x.fd].egen, watched[x.fd] # {}
        PROVE  x.events \subseteq ready'[file[x.fd]]
    BY <1>1, <2>1, <2>3 DEF IInv, KnowledgeInv, PollInv
  <2>4. at = "poll" => ~postfork' /\ \A fd \in Descriptors : fdchanges'[fd] = "no"
    BY DEF IInv, KnowledgeInv, PollInv
  <2> HIDE DEF PeerActs
  <2> QED BY <2>2, <2>3, <2>4 DEF PollInv
<1> QED BY <1>2, <1>3, <1>4, <1>5 DEF IInv, TypeOK, KnowledgeInv

LEMMA RenderersEndKeepsInv ==
  ASSUME IInv, RenderersEnd
  PROVE  IInv'
<1> USE DEF RenderersEnd, watchers, program
<1>1. SystemTypes' /\ LoopTypes' /\ FilesInv'
  BY DEF IInv, TypeOK, SystemTypes, LoopTypes, FilesInv
<1>2. PendingTypes' /\ PendingInv'
  BY DEF IInv, TypeOK, PendingTypes, PendingInv
<1>3. ChangesInv'
  <2>1. ASSUME NEW fd \in Descriptors, Record(fd) \in registered
        PROVE  Record(fd)' \in registered'
    BY <2>1 DEF Record
  <2> QED BY <2>1 DEF IInv, KnowledgeInv, ChangesInv
<1>4. RegistrationsInv' /\ PollInv'
  BY DEF IInv, KnowledgeInv, RegistrationsInv, PollInv
<1> QED BY <1>1, <1>2, <1>3, <1>4 DEF IInv, TypeOK, KnowledgeInv

-----------------------------------------------------------------------------
LEMMA NextKeepsInv == IInv /\ [Next]_vars => IInv'
<1> SUFFICES ASSUME IInv, [Next]_vars
             PROVE  IInv'
  OBVIOUS
<1>1. CASE Reify
  BY <1>1, ReifyKeepsInv
<1>2. CASE Poll
  BY <1>2, PollKeepsInv
<1>3. CASE PollDone
  BY <1>3, PollDoneKeepsInv
<1>4. CASE NextIteration
  BY <1>4, NextIterationKeepsInv
<1>5. ASSUME NEW x \in polled, HandleEvent(x)
      PROVE  IInv'
  BY <1>5, HandleEventKeepsInv
<1>6. ASSUME NEW fd \in Descriptors, Callback(fd)
      PROVE  IInv'
  BY <1>6, ReadAndUnloopKeepsInv, ReadAndOpenKeepsInv, ReadEOFKeepsInv, WriteSomeKeepsInv,
     WriteAllKeepsInv, ReadAndSendKeepsInv DEF Callback
<1>7. CASE IdleCallback
  BY <1>7, IdleCallbackKeepsInv
<1>8. CASE InvokeCleared
  BY <1>8, InvokeClearedKeepsInv
<1>9. CASE RenderersEnd
  BY <1>9, RenderersEndKeepsInv
<1>10. ASSUME NEW f \in 1..files, PeerActs(f)
       PROVE  IInv'
  BY <1>10, PeerActsKeepsInv
<1>11. CASE UNCHANGED vars
  <2> USE <1>11 DEF vars, system, watchers, program
  <2>1. SystemTypes' /\ LoopTypes' /\ FilesInv'
    BY DEF IInv, TypeOK, SystemTypes, LoopTypes, FilesInv
  <2>2. PendingTypes' /\ PendingInv'
    BY DEF IInv, TypeOK, PendingTypes, PendingInv
  <2>3. KnowledgeInv'
    BY DEF IInv, KnowledgeInv, ChangesInv, RegistrationsInv, PollInv, Record
  <2> QED BY <2>1, <2>2, <2>3 DEF IInv, TypeOK
<1> QED BY <1>1, <1>2, <1>3, <1>4, <1>5, <1>6, <1>7, <1>8, <1>9, <1>10, <1>11
     DEF Next, Loop, Environment

LEMMA AlwaysInv == Spec => []IInv
<1> QED BY InitInv, NextKeepsInv, PTL DEF Spec

(* No callback is invoked for a watcher that was stopped (ev_io_stop,      *)
(* clear_pending, ev_invoke_pending).                                      *)
THEOREM NeverCalledAfterStop == Spec => []StoppedIsNeverCalled
<1>1. IInv => StoppedIsNeverCalled
  BY DEF IInv, TypeOK, PendingTypes, PendingInv, FilesInv, StoppedIsNeverCalled
<1> QED BY <1>1, AlwaysInv, PTL

(* Before libev polls, it has told epoll everything that changed, and what *)
(* epoll still has of closed descriptors is of an earlier generation       *)
(* (fd_reify, epoll_modify).                                               *)
THEOREM EpollIsInformed == Spec => []EpollKnows
<1>1. IInv => EpollKnows
  <2> SUFFICES ASSUME IInv, at = "poll"
               PROVE  EpollKnows
    BY DEF EpollKnows
  <2>1. ~postfork /\ \A fd \in Descriptors : fdchanges[fd] = "no"
    BY DEF IInv, KnowledgeInv, PollInv
  <2>2. ASSUME NEW fd \in Descriptors, watched[fd] # {}
        PROVE  [file |-> file[fd], fd |-> fd, gen |-> anfds[fd].egen, mask |-> watched[fd]]
                 \in registered
    BY <2>1, <2>2 DEF IInv, KnowledgeInv, ChangesInv, Record
  <2>3. ASSUME NEW r \in registered, r.file # file[r.fd], watched[r.fd] # {}
        PROVE  r.gen # anfds[r.fd].egen
    <3>1. r.fd \in Descriptors /\ r.gen \in Nat /\ anfds[r.fd].egen \in Nat
      BY <2>3 DEF IInv, TypeOK, SystemTypes, LoopTypes
    <3>2. r.gen < anfds[r.fd].egen
      BY <2>1, <2>3, <3>1 DEF IInv, KnowledgeInv, RegistrationsInv
    <3> QED BY <3>1, <3>2
  <2> QED BY <2>2, <2>3 DEF EpollKnows
<1> QED BY <1>1, AlwaysInv, PTL

(* A host is called only for what happens at its own connection            *)
(* (epoll_poll).                                                           *)
THEOREM OnlyOwnEvents == Spec => CalledForItsOwn
<1> DEFINE Own == at = "events" =>
             \A i \in DOMAIN pendings' \ DOMAIN pendings :
               \/ pendings'[i] = Idle
               \/ {pendings'[i][2], HangUp} \cap ready[file[pendings'[i][1]]] # {}
<1>1. ASSUME IInv, [Next]_vars
      PROVE  [Own]_vars
  <2>1. ASSUME NEW x \in polled, HandleEvent(x)
        PROVE  Own
    <3>1. x.fd \in Descriptors
      BY <1>1 DEF IInv, TypeOK, LoopTypes
    <3>2. SUFFICES ASSUME x.gen = anfds[x.fd].egen, pendings' = Fed(x.fd, Got(x)), at = "events",
                          NEW i \in DOMAIN pendings', i \notin DOMAIN pendings
                   PROVE  {pendings'[i][2], HangUp} \cap ready[file[pendings'[i][1]]] # {}
      BY <2>1 DEF HandleEvent, Spurious, Unwanted, Wanted
    <3>3. PICK e \in Events : pendings'[i] = <<x.fd, e>> /\ e \in watched[x.fd] \cap Got(x)
      BY <1>1, <3>1, <3>2, FedIs DEF IInv, TypeOK, PendingTypes
    <3>4. x.events \subseteq ready[file[x.fd]]
      BY <1>1, <3>2, <3>3 DEF IInv, KnowledgeInv, PollInv
    <3>5. e \in x.events \/ HangUp \in x.events
      BY <3>3 DEF Got
    <3> QED BY <3>3, <3>4, <3>5
  <2>2. CASE PollDone
    <3>1. \A i \in DOMAIN pendings' \ DOMAIN pendings : pendings'[i] = Idle
      BY <2>2 DEF PollDone
    <3> QED BY <3>1
  <2>3. CASE at # "events"
    BY <2>3
  <2>4. CASE UNCHANGED pendings
    BY <2>4
  <2>5. \/ \E x \in polled : HandleEvent(x)
        \/ PollDone \/ at # "events" \/ UNCHANGED pendings
    <3>1. \A fd \in Descriptors : Callback(fd) => at = "invoke"
      BY DEF Callback, ReadAndUnloop, ReadAndOpen, ReadEOF, WriteSome, WriteAll, ReadAndSend,
             Reads, Invoked
    <3>2. IdleCallback \/ InvokeCleared => at = "invoke"
      BY DEF IdleCallback, InvokeCleared, Invoked
    <3>3. Reify \/ Poll \/ NextIteration => at # "events"
      BY DEF Reify, Poll, NextIteration
    <3>4. UNCHANGED vars \/ Environment => UNCHANGED pendings
      BY DEF vars, Environment, PeerActs, RenderersEnd
    <3> QED BY <1>1, <3>1, <3>2, <3>3, <3>4 DEF Next, Loop
  <2> HIDE DEF Own
  <2> QED BY <2>1, <2>2, <2>3, <2>4, <2>5
<1> QED BY <1>1, AlwaysInv, PTL DEF Spec, CalledForItsOwn
=============================================================================
