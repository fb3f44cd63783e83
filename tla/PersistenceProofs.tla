-------------------------- MODULE PersistenceProofs --------------------------
(***************************************************************************)
(* Proofs that the two threads of the persistence manager keep the queue   *)
(* between them sound: no freed storage is written, no wakeup is lost, and *)
(* a change is forgotten in the one known way only, for any number of      *)
(* storages, names, records and versions, and with crashes and restarts.   *)
(* The second half is about the files (FilesInv): they hold what was       *)
(* stored, at most one record of each is at risk, a storage leaves its     *)
(* records behind, and the manager implements WriteBehind.                 *)
(***************************************************************************)
EXTENDS Persistence, TLAPS, FiniteSetTheorems

(* What the queues hold exists, once; QueueSound, of dead processes too.   *)
QueueInv ==
  /\ Queued \cup releasedStorages \subseteq Live
  /\ currentlySyncingStorage # NULL => currentlySyncingStorage \in Live \ Queued
  /\ \A i, j \in DOMAIN changedStorages :
        changedStorages[i] = changedStorages[j] => i = j
  /\ releasedStorages \subseteq Queued \cup {currentlySyncingStorage}

(* A storage that may still be used exists, and was not released.          *)
Held(n) == retrieved[n] # NULL /\ (~api.closing \/ n \in api.left)

HeldInv ==
  \A n \in Names : Held(n) =>
    /\ retrieved[n] \in Live \ releasedStorages
    /\ nameOf[retrieved[n]] = n

(* Where the thread that uses the API may be: a storage it is about to     *)
(* queue, or to read a record into, is still held.                         *)
ApiInv ==
  /\ api.at \in {"queue", "read"} => \E n \in Names : retrieved[n] = api.storage /\ Held(n)
  /\ api.at \in {"idle", "queue", "read"} => ~api.closing
  /\ api.at \in {"closing", "join", "closed"} => api.closing
  /\ api.closing => \A n \in Names : n \in api.left => retrieved[n] # NULL

SyncInv == currentlySyncingStorage = NULL <=> sync.at \in {"check", "waiting", "ended"}

(* An address without a storage has no changes to be found there later.    *)
FreeInv == \A s \in Storages \ Live : DOMAIN changed[s] = {}

(* The inductive invariant.                                                *)
IInv ==
  /\ TypeOK
  /\ QueueInv /\ HeldInv /\ ApiInv /\ SyncInv /\ FreeInv
  /\ NothingElseForgotten /\ NoLostWakeup
  /\ fault # "freed storage"

-----------------------------------------------------------------------------
(* The queue as a set.                                                     *)
SetOf(q) == {q[i] : i \in DOMAIN q}

LEMMA Appending ==
  ASSUME NEW q \in Seq(Storages), NEW s \in Storages
  PROVE  /\ Append(q, s) \in Seq(Storages)
         /\ SetOf(Append(q, s)) = SetOf(q) \cup {s}
         /\ /\ s \notin SetOf(q)
            /\ \A i, j \in DOMAIN q : q[i] = q[j] => i = j
            => \A i, j \in DOMAIN Append(q, s) : Append(q, s)[i] = Append(q, s)[j] => i = j
<1> DEFINE r == Append(q, s)
<1>1. /\ r \in Seq(Storages) /\ Len(r) = Len(q) + 1
      /\ \A i \in 1..Len(q) : r[i] = q[i]
      /\ r[Len(q) + 1] = s
  OBVIOUS
<1>2. DOMAIN r = 1..(Len(q) + 1) /\ DOMAIN q = 1..Len(q) /\ Len(q) \in Nat
  BY <1>1
<1>3. SetOf(r) = SetOf(q) \cup {s}
  <2> HIDE DEF r
  <2>1. SetOf(r) \subseteq SetOf(q) \cup {s}
    BY <1>1, <1>2 DEF SetOf
  <2>2. SetOf(q) \subseteq SetOf(r)
    BY <1>1, <1>2 DEF SetOf
  <2>3. s \in SetOf(r)
    BY <1>1, <1>2 DEF SetOf
  <2> QED BY <2>1, <2>2, <2>3
<1>4. ASSUME s \notin SetOf(q), \A i, j \in DOMAIN q : q[i] = q[j] => i = j,
             NEW i \in DOMAIN r, NEW j \in DOMAIN r, r[i] = r[j]
      PROVE  i = j
  <2> HIDE DEF r
  <2>1. \A k \in 1..Len(q) : r[k] # s
    BY <1>1, <1>2, <1>4 DEF SetOf
  <2> QED BY <1>1, <1>2, <1>4, <2>1
<1> QED BY <1>1, <1>3, <1>4

LEMMA TakingHead ==
  ASSUME NEW q \in Seq(Storages), q # <<>>
  PROVE  /\ Head(q) \in Storages /\ Tail(q) \in Seq(Storages)
         /\ SetOf(q) = SetOf(Tail(q)) \cup {Head(q)}
         /\ (\A i, j \in DOMAIN q : q[i] = q[j] => i = j) =>
              /\ Head(q) \notin SetOf(Tail(q))
              /\ \A i, j \in DOMAIN Tail(q) : Tail(q)[i] = Tail(q)[j] => i = j
<1> DEFINE r == Tail(q)
<1>1. /\ r \in Seq(Storages) /\ Len(q) > 0 /\ Len(r) = Len(q) - 1 /\ Len(q) \in Nat
      /\ \A i \in 1..Len(r) : r[i] = q[i + 1]
      /\ Head(q) = q[1] /\ Head(q) \in Storages
  OBVIOUS
<1>2. DOMAIN r = 1..(Len(q) - 1) /\ DOMAIN q = 1..Len(q)
  BY <1>1
<1>3. SetOf(q) = SetOf(r) \cup {Head(q)}
  <2> HIDE DEF r
  <2>1. ASSUME NEW i \in 1..Len(q)
        PROVE  q[i] \in SetOf(r) \cup {Head(q)}
    <3>1. CASE i = 1
      BY <1>1, <3>1
    <3>2. CASE i # 1
      <4>1. i - 1 \in 1..Len(r) /\ r[i - 1] = q[i]
        BY <1>1, <3>2
      <4> QED BY <1>1, <1>2, <4>1 DEF SetOf
    <3> QED BY <3>1, <3>2
  <2>2. SetOf(r) \subseteq SetOf(q)
    BY <1>1, <1>2 DEF SetOf
  <2>3. Head(q) \in SetOf(q)
    BY <1>1, <1>2 DEF SetOf
  <2> QED BY <1>2, <2>1, <2>2, <2>3 DEF SetOf
<1>4. ASSUME \A i, j \in DOMAIN q : q[i] = q[j] => i = j
      PROVE  /\ Head(q) \notin SetOf(r)
             /\ \A i, j \in DOMAIN r : r[i] = r[j] => i = j
  <2> HIDE DEF r
  <2>1. \A i \in DOMAIN r : r[i] = q[i + 1] /\ i + 1 \in DOMAIN q /\ i + 1 # 1 /\ i \in Int
    BY <1>1, <1>2
  <2>2. Head(q) \notin SetOf(r)
    BY <1>1, <1>2, <1>4, <2>1 DEF SetOf
  <2>3. ASSUME NEW i \in DOMAIN r, NEW j \in DOMAIN r, r[i] = r[j]
        PROVE  i = j
    <3>1. i + 1 = j + 1
      BY <1>4, <2>1, <2>3
    <3> QED BY <2>1, <3>1
  <2> QED BY <2>2, <2>3
<1> QED BY <1>1, <1>3, <1>4

LEMMA QueuedIsSetOf == Queued = SetOf(changedStorages) /\ Queued' = SetOf(changedStorages')
BY DEF Queued, SetOf

-----------------------------------------------------------------------------
LEMMA InitIInv == Init => IInv
<1> SUFFICES ASSUME Init PROVE IInv
  OBVIOUS
<1>1. TypeOK
  <2>1. /\ DOMAIN api = {"at", "storage", "key", "line", "closing", "left"}
        /\ api.at = "idle" /\ api.closing = FALSE
    BY DEF Init, Idle
  <2>2. DOMAIN sync = {"at", "name", "todo", "key", "line"} /\ sync.at = "check"
    BY DEF Init, AtRest
  <2>3. api.closing \in BOOLEAN
    BY <2>1
  <2>4. syncingShouldEnd \in BOOLEAN
    BY DEF Init
  <2>5. changedStorages \in Seq(Storages)
    BY DEF Init
  <2>6. /\ retrieved \in [Names -> Storages \cup {NULL}]
        /\ nameOf \in [Storages -> Names \cup {NULL}]
        /\ DOMAIN changed = Storages
    BY DEF Init
  <2> QED BY <2>1, <2>2, <2>3, <2>4, <2>5, <2>6 DEF Init, TypeOK
<1>2. /\ Live = {} /\ Queued = {} /\ releasedStorages = {}
      /\ currentlySyncingStorage = NULL /\ api.at = "idle" /\ ~api.closing
      /\ sync.at = "check" /\ fault = "none"
      /\ \A n \in Names : retrieved[n] = NULL
      /\ \A s \in Storages : DOMAIN changed[s] = {}
  BY DEF Init, Live, Queued, Idle, AtRest, NoRecords
<1>3. changedStorages = <<>>
  BY DEF Init
<1> QED BY <1>1, <1>2, <1>3
        DEF IInv, QueueInv, HeldInv, Held, ApiInv, SyncInv, FreeInv, NothingElseForgotten, NoLostWakeup

(* The start of a process, after close or after it was killed.             *)
LEMMA StartKeepsIInv ==
  ASSUME Started PROVE IInv'
<1>1. TypeOK'
  <2>1. /\ DOMAIN api' = {"at", "storage", "key", "line", "closing", "left"}
        /\ (api').at = "idle" /\ (api').closing = FALSE
    BY DEF Started, Idle
  <2>2. DOMAIN sync' = {"at", "name", "todo", "key", "line"} /\ (sync').at = "check"
    BY DEF Started, AtRest
  <2>3. (api').closing \in BOOLEAN
    BY <2>1
  <2>4. syncingShouldEnd' \in BOOLEAN
    BY DEF Started
  <2>5. changedStorages' \in Seq(Storages)
    BY DEF Started
  <2>6. /\ retrieved' \in [Names -> Storages \cup {NULL}]
        /\ nameOf' \in [Storages -> Names \cup {NULL}]
        /\ DOMAIN changed' = Storages
    BY DEF Started
  <2> QED BY <2>1, <2>2, <2>3, <2>4, <2>5, <2>6 DEF Started, TypeOK
<1>2. /\ Live' = {} /\ Queued' = {} /\ releasedStorages' = {}
      /\ currentlySyncingStorage' = NULL /\ (api').at = "idle" /\ ~(api').closing
      /\ (sync').at = "check" /\ fault' = "none"
      /\ \A n \in Names : retrieved'[n] = NULL
      /\ \A s \in Storages : DOMAIN changed'[s] = {}
  BY DEF Started, Live, Queued, Idle, AtRest, NoRecords
<1>3. changedStorages' = <<>>
  BY DEF Started
<1> QED BY <1>1, <1>2, <1>3
        DEF IInv, QueueInv, HeldInv, Held, ApiInv, SyncInv, FreeInv, NothingElseForgotten, NoLostWakeup

-----------------------------------------------------------------------------
(* The thread that uses the API.  What the invariant says of its position: *)
(* one step changes `at` and perhaps `storage`, or restores Idle.          *)
ApiMoves(at, storage) ==
  /\ DOMAIN api' = DOMAIN api
  /\ (api').at = at
  /\ (api').storage = storage
  /\ (api').closing = api.closing
  /\ (api').left = api.left

queueState == <<retrieved, nameOf, changedStorages, releasedStorages, currentlySyncingStorage>>

(* A step that leaves the queues, and what is held, as they are.           *)
LEMMA QueuesUntouched ==
  ASSUME IInv, UNCHANGED queueState, (api').closing = api.closing, (api').left = api.left
  PROVE  /\ QueueInv' /\ HeldInv'
         /\ Live' = Live /\ Queued' = Queued
         /\ \A n \in Names : Held(n)' <=> Held(n)
<1>1. Live' = Live /\ Queued' = Queued
  BY DEF queueState, Live, Queued
<1>2. \A n \in Names : Held(n)' <=> Held(n)
  BY DEF queueState, Held
<1>3. QueueInv'
  BY <1>1 DEF IInv, queueState, QueueInv
<1>4. HeldInv'
  BY <1>1, <1>2 DEF IInv, queueState, HeldInv
<1> QED BY <1>1, <1>2, <1>3, <1>4

(* A record of a held storage is changed: the storage is about to be       *)
(* queued, and no other has a change that it did not have.                 *)
LEMMA ChangeKeepsIInv ==
  ASSUME IInv, NEW s \in Storages, InUse(s), ApiMoves("queue", s),
         UNCHANGED <<queueState, syncingShouldEnd, sync, fault, late>>,
         DOMAIN changed' = Storages,
         \A t \in Storages \ {s} : changed'[t] = changed[t]
  PROVE  IInv'
<1>1. /\ api.at = "idle" /\ ~api.closing
      /\ \E n \in Names : retrieved[n] = s
  BY DEF InUse, Idle
<1>2. /\ QueueInv' /\ HeldInv'
      /\ Live' = Live /\ Queued' = Queued
      /\ \A n \in Names : Held(n)' <=> Held(n)
  BY QueuesUntouched DEF ApiMoves
<1>3. PICK n \in Names : retrieved[n] = s /\ Held(n)
  BY <1>1, NullIsNoStorage DEF Held
<1>4. TypeOK'
  <2>1. (api').closing \in BOOLEAN /\ DOMAIN api' = DOMAIN api /\ (api').at = "queue"
    BY DEF IInv, TypeOK, ApiMoves
  <2>2. UNCHANGED <<retrieved, nameOf, changedStorages, releasedStorages,
                    currentlySyncingStorage, syncingShouldEnd, sync>>
    BY DEF queueState
  <2> QED BY <2>1, <2>2 DEF IInv, TypeOK
<1>5. ApiInv'
  BY <1>1, <1>2, <1>3 DEF ApiInv, ApiMoves, queueState
<1>6. SyncInv' /\ NoLostWakeup'
  BY <1>1 DEF IInv, SyncInv, NoLostWakeup, ApiMoves, queueState
<1>7. s \in Live
  BY <1>3 DEF IInv, HeldInv
<1>8. FreeInv'
  BY <1>2, <1>7 DEF IInv, FreeInv
<1>9. NothingElseForgotten'
  <2>1. (api').storage = s /\ (api').at = "queue" /\ UNCHANGED <<currentlySyncingStorage, sync, late>>
    BY DEF ApiMoves, queueState
  <2>2. \A t \in Live : t \in Storages
    BY DEF Live
  <2> QED BY <1>1, <1>2, <2>1, <2>2 DEF IInv, NothingElseForgotten
<1> QED BY <1>2, <1>4, <1>5, <1>6, <1>8, <1>9 DEF IInv

LEMMA ModifyKeepsIInv ==
  ASSUME IInv, NEW s \in Storages, NEW k, InUse(s), Modify(s, k)
  PROVE  IInv'
<1>1. ApiMoves("queue", s)
  BY DEF IInv, TypeOK, Modify, ApiMoves
<1>2. DOMAIN changed' = Storages /\ \A t \in Storages \ {s} : changed'[t] = changed[t]
  BY DEF IInv, TypeOK, Modify
<1>3. UNCHANGED <<queueState, syncingShouldEnd, sync, fault, late>>
  BY DEF Modify, queueState, queues, history
<1> QED BY <1>1, <1>2, <1>3, ChangeKeepsIInv

LEMMA RemoveKeepsIInv ==
  ASSUME IInv, NEW s \in Storages, NEW k, RemoveRecord(s, k)
  PROVE  IInv'
<1>1. ApiMoves("queue", s)
  BY DEF IInv, TypeOK, RemoveRecord, ApiMoves
<1>2. DOMAIN changed' = Storages /\ \A t \in Storages \ {s} : changed'[t] = changed[t]
  BY DEF IInv, TypeOK, RemoveRecord
<1>3. UNCHANGED <<queueState, syncingShouldEnd, sync, fault, late>>
  BY DEF RemoveRecord, queueState, queues, history
<1> QED BY <1>1, <1>2, <1>3, ChangeKeepsIInv DEF RemoveRecord

(* A step of this thread that only moves it on, or touches records and     *)
(* files.                                                                  *)
LEMMA MovesKeepIInv ==
  ASSUME IInv, NEW at, ApiMoves(at, (api').storage), api.at # "queue", at # "queue",
         at \in {"idle", "signal", "read", "closing", "join", "closed"},
         ApiInv', at = "signal" \/ changedStorages = <<>> \/ sync.at # "waiting",
         UNCHANGED <<queueState, changed, syncingShouldEnd, sync, late>>, fault' # "freed storage"
  PROVE  IInv'
<1>1. /\ QueueInv' /\ HeldInv'
      /\ Live' = Live /\ Queued' = Queued
  BY QueuesUntouched DEF ApiMoves
<1>2. TypeOK'
  <2>1. (api').closing \in BOOLEAN /\ DOMAIN api' = DOMAIN api /\ (api').at = at
    BY DEF IInv, TypeOK, ApiMoves
  <2>2. UNCHANGED <<retrieved, nameOf, changed, changedStorages, releasedStorages,
                    currentlySyncingStorage, syncingShouldEnd, sync>>
    BY DEF queueState
  <2> QED BY <2>1, <2>2 DEF IInv, TypeOK
<1>3. SyncInv' /\ FreeInv'
  BY <1>1 DEF IInv, SyncInv, FreeInv, queueState
<1>4. NothingElseForgotten'
  BY <1>1 DEF IInv, NothingElseForgotten, queueState
<1>5. NoLostWakeup'
  BY DEF IInv, NoLostWakeup, queueState, ApiMoves
<1> QED BY <1>1, <1>2, <1>3, <1>4, <1>5 DEF IInv

(* Only a thread that is about to signal has queued a storage while the    *)
(* sync thread waits.                                                      *)
LEMMA NothingQueued ==
  ASSUME IInv, api.at # "signal"
  PROVE  changedStorages = <<>> \/ sync.at # "waiting"
BY DEF IInv, NoLostWakeup

LEMMA LookUpKeepsIInv ==
  ASSUME IInv, NEW s \in Storages, NEW k, LookUpRecord(s, k)
  PROVE  IInv'
<1>1. ApiMoves("read", s)
  BY DEF IInv, TypeOK, LookUpRecord, ApiMoves
<1>2. UNCHANGED <<queueState, changed, syncingShouldEnd, sync, late, fault>>
  BY DEF LookUpRecord, queueState, queues, memory, history
<1>3. api.at = "idle" /\ ~api.closing /\ \E n \in Names : retrieved[n] = s
  BY DEF LookUpRecord, InUse, Idle
<1>4. ApiInv'
  BY <1>1, <1>2, <1>3, NullIsNoStorage DEF ApiInv, ApiMoves, Held, queueState
<1> QED BY <1>1, <1>2, <1>3, <1>4, NothingQueued, MovesKeepIInv DEF IInv, ApiMoves

LEMMA ReadKeepsIInv ==
  ASSUME IInv, ReadRecord
  PROVE  IInv'
<1>1. /\ UNCHANGED <<queueState, changed, syncingShouldEnd, sync, late>>
      /\ api.at = "read" /\ ~api.closing
  BY DEF IInv, ApiInv, ReadRecord, queueState, queues, history
<1>2. fault' # "freed storage"
  BY DEF IInv, ReadRecord
<1>3. api' = Idle
  BY DEF ReadRecord
<1>4. /\ DOMAIN api' = DOMAIN api /\ (api').at = "idle" /\ ~(api').closing
      /\ (api').storage = NULL /\ (api').left = {}
  BY <1>3 DEF Idle, IInv, TypeOK
<1>5. (api').closing = FALSE
  BY <1>3 DEF Idle
<1>6. /\ Live' = Live /\ Queued' = Queued
      /\ \A n \in Names : Held(n)' <=> Held(n)
  BY <1>1, <1>4 DEF queueState, Live, Queued, Held
<1>7. TypeOK'
  <2>1. (api').closing \in BOOLEAN
    BY <1>5
  <2>2. UNCHANGED <<retrieved, nameOf, changed, changedStorages, releasedStorages,
                    currentlySyncingStorage, syncingShouldEnd, sync>>
    BY <1>1 DEF queueState
  <2> QED BY <1>4, <2>1, <2>2 DEF IInv, TypeOK
<1>8. QueueInv' /\ HeldInv'
  BY <1>1, <1>6 DEF IInv, QueueInv, HeldInv, queueState
<1>9. ApiInv' /\ SyncInv' /\ FreeInv'
  BY <1>1, <1>4, <1>6 DEF IInv, ApiInv, SyncInv, FreeInv, queueState
<1>10. NothingElseForgotten' /\ NoLostWakeup'
  BY <1>1, <1>4, <1>6, NothingQueued DEF IInv, NothingElseForgotten, NoLostWakeup, queueState
<1> QED BY <1>2, <1>7, <1>8, <1>9, <1>10 DEF IInv

(* recordsChanged: the storage is queued, or is queued or being written    *)
(* already; if the swap has been, the change is late.                      *)
LEMMA RecordsChangedKeepsIInv ==
  ASSUME IInv, RecordsChanged
  PROVE  IInv'
<1> DEFINE s == api.storage
<1>1. PICK n \in Names : retrieved[n] = s /\ Held(n)
  BY DEF IInv, ApiInv, RecordsChanged
<1>2. s \in Live \ releasedStorages /\ s \in Storages
  BY <1>1 DEF IInv, HeldInv, Live
<1>3. api.at = "queue" /\ ~api.closing
  BY DEF IInv, ApiInv, RecordsChanged
<1>4. /\ UNCHANGED <<retrieved, nameOf, changed, releasedStorages, currentlySyncingStorage,
                     syncingShouldEnd, sync, fault>>
      /\ late' = IF /\ currentlySyncingStorage = s /\ sync.at # "swap"
                    /\ DOMAIN changed[s] # {}
                 THEN late \cup {s} ELSE late
  BY DEF RecordsChanged, memory
<1>5. /\ Live' = Live
      /\ DOMAIN api' = DOMAIN api /\ (api').at \in {"idle", "signal"} /\ (api').closing = FALSE
      /\ \A m \in Names : Held(m)' <=> Held(m)
  <2>1. Live' = Live
    BY <1>4 DEF Live
  <2>2. api.closing = FALSE
    BY <1>3 DEF IInv, TypeOK
  <2>3. /\ DOMAIN api' = DOMAIN api /\ (api').at \in {"idle", "signal"} /\ (api').closing = FALSE
    <3>1. CASE api' = Idle
      BY <3>1 DEF Idle, IInv, TypeOK
    <3>2. CASE api' = [api EXCEPT !.at = "signal", !.storage = NULL]
      BY <2>2, <3>2 DEF IInv, TypeOK
    <3> QED BY <3>1, <3>2 DEF RecordsChanged
  <2> QED BY <1>3, <1>4, <2>1, <2>3 DEF Held
<1>6. /\ changedStorages' \in Seq(Storages)
      /\ Queued' = Queued \cup {s} \/ (Queued' = Queued /\ s = currentlySyncingStorage)
      /\ s # currentlySyncingStorage \/ Queued' = Queued
      /\ \A i, j \in DOMAIN changedStorages' : changedStorages'[i] = changedStorages'[j] => i = j
      /\ changedStorages' = changedStorages \/ (api').at = "signal"
  <2>1. CASE HasChanges(s)
    <3>1. changedStorages' = changedStorages
      BY <2>1 DEF RecordsChanged
    <3>2. Queued' = Queued
      BY <3>1 DEF Queued
    <3>3. s = currentlySyncingStorage \/ Queued = Queued \cup {s}
      BY <2>1 DEF HasChanges
    <3> QED BY <3>1, <3>2, <3>3 DEF IInv, TypeOK, QueueInv
  <2>2. CASE ~HasChanges(s)
    <3>1. changedStorages' = Append(changedStorages, s) /\ (api').at = "signal"
      BY <2>2 DEF RecordsChanged, IInv, TypeOK
    <3>2. s # currentlySyncingStorage /\ s \notin Queued
      BY <2>2 DEF HasChanges
    <3>3. changedStorages \in Seq(Storages) /\ Queued = SetOf(changedStorages) /\ Queued' = SetOf(changedStorages')
      BY QueuedIsSetOf DEF IInv, TypeOK
    <3>4. \A i, j \in DOMAIN changedStorages : changedStorages[i] = changedStorages[j] => i = j
      BY DEF IInv, QueueInv
    <3> QED BY <1>2, <3>1, <3>2, <3>3, <3>4, Appending
  <2> QED BY <2>1, <2>2
<1> HIDE DEF s
<1>7. TypeOK'
  <2>1. (api').closing \in BOOLEAN
    BY <1>5
  <2> QED BY <1>4, <1>5, <1>6, <2>1 DEF IInv, TypeOK
<1>8. QueueInv'
  BY <1>2, <1>4, <1>5, <1>6 DEF IInv, QueueInv
<1>9. HeldInv' /\ SyncInv' /\ FreeInv'
  BY <1>4, <1>5 DEF IInv, HeldInv, SyncInv, FreeInv
<1>10. ApiInv'
  <2>1. CASE (api').at = "signal"
    BY <1>5, <2>1 DEF ApiInv
  <2>2. CASE (api').at = "idle"
    BY <1>5, <2>2 DEF ApiInv
  <2> QED BY <1>5, <2>1, <2>2
<1>11. NothingElseForgotten'
  <2> SUFFICES ASSUME NEW t \in Live, t \notin late', DOMAIN changed[t] # {}
               PROVE  t \in Queued' \/ (t = currentlySyncingStorage /\ sync.at = "swap")
    BY <1>4, <1>5 DEF NothingElseForgotten
  <2>1. CASE t = s
    BY <1>4, <1>6, <2>1
  <2>2. CASE t # s
    <3>1. t \notin late
      BY <1>4
    <3>2. t \in Queued \/ (t = currentlySyncingStorage /\ sync.at = "swap")
      BY <2>2, <3>1 DEF IInv, NothingElseForgotten, s
    <3> QED BY <1>6, <3>2
  <2> QED BY <2>1, <2>2
<1>12. NoLostWakeup'
  BY <1>3, <1>4, <1>6, NothingQueued DEF IInv, NoLostWakeup
<1> QED BY <1>4, <1>7, <1>8, <1>9, <1>10, <1>11, <1>12 DEF IInv

(* A signal to the sync thread.                                            *)
LEMMA WakingUp ==
  ASSUME IInv, sync' = Woken
  PROVE  /\ DOMAIN sync' = DOMAIN sync /\ (sync').at # "waiting"
         /\ sync.at # "waiting" => sync' = sync
         /\ sync.at = "waiting" => (sync').at = "check"
BY DEF IInv, TypeOK, Woken

LEMMA WakingKeepsIInv ==
  ASSUME IInv, sync' = Woken, UNCHANGED <<queueState, changed, late, fault>>,
         syncingShouldEnd' \in BOOLEAN, (api').at # "queue", api.at # "queue",
         ApiMoves((api').at, (api').storage), ApiInv',
         (api').at \in {"idle", "queue", "signal", "read", "closing", "join", "closed"}
  PROVE  IInv'
<1>1. /\ QueueInv' /\ HeldInv'
      /\ Live' = Live /\ Queued' = Queued
  BY QueuesUntouched DEF ApiMoves
<1>2. TypeOK'
  <2>1. (api').closing \in BOOLEAN /\ DOMAIN api' = DOMAIN api
    BY DEF IInv, TypeOK, ApiMoves
  <2>2. UNCHANGED <<retrieved, nameOf, changed, changedStorages, releasedStorages,
                    currentlySyncingStorage>>
    BY DEF queueState
  <2>3. DOMAIN sync' = DOMAIN sync /\ ((sync').at = sync.at \/ (sync').at = "check")
    BY WakingUp
  <2> QED BY <2>1, <2>2, <2>3 DEF IInv, TypeOK
<1>3. SyncInv' /\ FreeInv' /\ NoLostWakeup'
  BY <1>1, WakingUp DEF IInv, SyncInv, FreeInv, NoLostWakeup, queueState
<1>4. NothingElseForgotten'
  BY <1>1, WakingUp DEF IInv, NothingElseForgotten, queueState
<1> QED BY <1>1, <1>2, <1>3, <1>4 DEF IInv

LEMMA SignalKeepsIInv ==
  ASSUME IInv, Signal
  PROVE  IInv'
<1>1. /\ UNCHANGED <<queueState, changed, syncingShouldEnd, late, fault>>
      /\ api.at = "signal" /\ sync' = Woken
  BY DEF Signal, queueState, queues, memory, history
<1>2. ApiMoves(IF api.closing THEN "closing" ELSE "idle", api.storage)
  BY DEF IInv, TypeOK, Signal, ApiMoves
<1>3. ApiInv' /\ (api').at \in {"idle", "closing"}
  BY <1>1, <1>2 DEF ApiMoves, ApiInv, IInv, queueState
<1>4. syncingShouldEnd' \in BOOLEAN
  BY <1>1 DEF IInv, TypeOK
<1> QED BY <1>1, <1>2, <1>3, <1>4, WakingKeepsIInv DEF ApiMoves

LEMMA SpuriousKeepsIInv ==
  ASSUME IInv, SpuriousWakeup
  PROVE  IInv'
<1>1. /\ UNCHANGED <<queueState, changed, syncingShouldEnd, late, fault, api>>
      /\ (sync').at = "check" /\ sync.at = "waiting" /\ DOMAIN sync' = DOMAIN sync
  BY WakingUp DEF SpuriousWakeup, queueState, queues, memory, history
<1>2. QueueInv' /\ HeldInv' /\ Live' = Live /\ Queued' = Queued /\ \A n \in Names : Held(n)' <=> Held(n)
  BY <1>1, QueuesUntouched
<1>3. TypeOK'
  BY <1>1 DEF IInv, TypeOK, queueState
<1>4. ApiInv' /\ SyncInv' /\ FreeInv' /\ NoLostWakeup'
  BY <1>1, <1>2 DEF IInv, ApiInv, SyncInv, FreeInv, NoLostWakeup, queueState
<1>5. NothingElseForgotten'
  BY <1>1, <1>2 DEF IInv, NothingElseForgotten, queueState
<1> QED BY <1>1, <1>2, <1>3, <1>4, <1>5 DEF IInv

-----------------------------------------------------------------------------
(* Storages come and go.                                                   *)
LEMMA Freeing ==
  ASSUME TypeOK, NEW s \in Storages, Free(s)
  PROVE  /\ nameOf' \in [Storages -> Names \cup {NULL}]
         /\ Live' = Live \ {s}
         /\ \A t \in Storages \ {s} : nameOf'[t] = nameOf[t] /\ changed'[t] = changed[t]
         /\ DOMAIN changed' = Storages /\ DOMAIN changed'[s] = {}
         /\ late' = late \ {s}
<1>1. /\ nameOf' = [nameOf EXCEPT ![s] = NULL] /\ changed' = [changed EXCEPT ![s] = NoRecords]
      /\ late' = late \ {s}
  BY DEF Free
<1>2. /\ nameOf' \in [Storages -> Names \cup {NULL}] /\ nameOf'[s] = NULL
      /\ \A t \in Storages \ {s} : nameOf'[t] = nameOf[t]
  BY <1>1 DEF TypeOK
<1>3. /\ DOMAIN changed' = Storages /\ changed'[s] = NoRecords
      /\ \A t \in Storages \ {s} : changed'[t] = changed[t]
  BY <1>1 DEF TypeOK
<1>4. Live' = Live \ {s}
  BY <1>2 DEF Live
<1> QED BY <1>1, <1>2, <1>3, <1>4 DEF NoRecords

(* What a storage that is released leaves behind, be it destroyed at once  *)
(* or left to the sync thread.                                             *)
LEMMA Releasing ==
  ASSUME IInv, NEW n \in Names, Held(n), ReleaseButDontRemove(n),
         UNCHANGED <<changedStorages, currentlySyncingStorage, syncingShouldEnd, sync>>
  PROVE  /\ nameOf' \in [Storages -> Names \cup {NULL}] /\ DOMAIN changed' = Storages
         /\ releasedStorages' \subseteq Storages
         /\ QueueInv' /\ SyncInv' /\ FreeInv' /\ fault' # "freed storage"
         /\ \A m \in Names : m # n /\ Held(m) =>
              /\ retrieved[m] \in Live' \ releasedStorages'
              /\ nameOf'[retrieved[m]] = m
         /\ late' \subseteq late /\ late \subseteq late' \cup {retrieved[n]}
         /\ retrieved[n] \in late \ late' => retrieved[n] \notin Live'
         /\ \A t \in Live' : t \in Live /\ changed'[t] = changed[t]
<1> DEFINE s == retrieved[n]
<1>1. s \in Storages /\ s \in Live \ releasedStorages /\ nameOf[s] = n
  BY DEF IInv, HeldInv, Live
<1>2. Queued' = Queued
  BY DEF Queued
<1>3. \A m \in Names : m # n /\ Held(m) => /\ retrieved[m] \in Live \ releasedStorages
                                           /\ nameOf[retrieved[m]] = m /\ retrieved[m] # s
  BY <1>1 DEF IInv, HeldInv
<1>4. CASE HasChanges(s)
  <2>1. releasedStorages' = releasedStorages \cup {s} /\ UNCHANGED <<nameOf, changed, fault, late>>
    BY <1>4 DEF ReleaseButDontRemove, memory
  <2>2. Live' = Live
    BY <2>1 DEF Live
  <2>3. s \in Queued \cup {currentlySyncingStorage}
    BY <1>4 DEF HasChanges
  <2>4. QueueInv'
    BY <1>1, <1>2, <2>1, <2>2, <2>3 DEF IInv, QueueInv
  <2> HIDE DEF s
  <2>5. SyncInv' /\ FreeInv'
    BY <2>1, <2>2 DEF IInv, SyncInv, FreeInv
  <2>6. \A t \in Live : t \in Storages
    BY DEF Live
  <2> QED BY <1>1, <1>3, <2>1, <2>2, <2>4, <2>5, <2>6 DEF IInv, TypeOK
<1>5. CASE ~HasChanges(s)
  <2>1. UNCHANGED releasedStorages /\ Free(s) /\ fault' \in {"freed file", "none"}
    BY <1>5 DEF ReleaseButDontRemove
  <2>2. s \notin Queued /\ s # currentlySyncingStorage
    BY <1>5 DEF HasChanges
  <2>3. /\ nameOf' \in [Storages -> Names \cup {NULL}]
        /\ Live' = Live \ {s}
        /\ \A t \in Storages \ {s} : nameOf'[t] = nameOf[t] /\ changed'[t] = changed[t]
        /\ DOMAIN changed' = Storages /\ DOMAIN changed'[s] = {}
        /\ late' = late \ {s}
    BY <1>1, <2>1, Freeing DEF IInv
  <2> HIDE DEF s
  <2>4. QueueInv'
    BY <1>1, <1>2, <2>1, <2>2, <2>3 DEF IInv, QueueInv
  <2>5. SyncInv' /\ FreeInv'
    BY <2>1, <2>3 DEF IInv, SyncInv, FreeInv
  <2>6. \A t \in Live : t \in Storages
    BY DEF Live
  <2> QED BY <1>1, <1>3, <2>1, <2>3, <2>4, <2>5, <2>6 DEF IInv, TypeOK, s
<1> QED BY <1>4, <1>5

(* Both ways to release: one storage, or one of all that close releases.   *)
LEMMA ReleaseKeepsIInv ==
  ASSUME IInv, NEW n \in Names, Held(n), ReleaseButDontRemove(n),
         UNCHANGED <<changedStorages, currentlySyncingStorage, syncingShouldEnd, sync>>,
         retrieved' \in [Names -> Storages \cup {NULL}], api.at \notin {"queue", "signal"},
         \A m \in Names : Held(m)' => m # n /\ Held(m) /\ retrieved'[m] = retrieved[m],
         DOMAIN api' = DOMAIN api, (api').closing = api.closing,
         (api').at \in {"idle", "signal", "closing"}, ApiInv'
  PROVE  IInv'
<1>1. /\ nameOf' \in [Storages -> Names \cup {NULL}] /\ DOMAIN changed' = Storages
      /\ releasedStorages' \subseteq Storages
      /\ QueueInv' /\ SyncInv' /\ FreeInv' /\ fault' # "freed storage"
      /\ \A m \in Names : m # n /\ Held(m) =>
           /\ retrieved[m] \in Live' \ releasedStorages'
           /\ nameOf'[retrieved[m]] = m
      /\ late' \subseteq late /\ late \subseteq late' \cup {retrieved[n]}
      /\ retrieved[n] \in late \ late' => retrieved[n] \notin Live'
      /\ \A t \in Live' : t \in Live /\ changed'[t] = changed[t]
  BY Releasing
<1>2. TypeOK'
  <2>1. (api').closing \in BOOLEAN
    BY DEF IInv, TypeOK
  <2> QED BY <1>1, <2>1 DEF IInv, TypeOK
<1>3. HeldInv'
  BY <1>1 DEF HeldInv
<1>4. NothingElseForgotten'
  <2> SUFFICES ASSUME NEW t \in Live', t \notin late', DOMAIN changed'[t] # {}
               PROVE  t \in Queued' \/ (t = currentlySyncingStorage /\ sync.at = "swap")
    BY DEF NothingElseForgotten
  <2>1. t \in Live /\ t \notin late /\ DOMAIN changed[t] # {}
    BY <1>1
  <2>2. Queued' = Queued
    BY DEF Queued
  <2> QED BY <2>1, <2>2 DEF IInv, NothingElseForgotten
<1>5. NoLostWakeup'
  BY NothingQueued DEF IInv, NoLostWakeup
<1> QED BY <1>1, <1>2, <1>3, <1>4, <1>5 DEF IInv

LEMMA ReleaseStorageKeepsIInv ==
  ASSUME IInv, NEW n \in Names, ReleaseStorage(n)
  PROVE  IInv'
<1>1. /\ api.at = "idle" /\ ~api.closing /\ retrieved[n] # NULL /\ ReleaseButDontRemove(n)
      /\ retrieved' = [retrieved EXCEPT ![n] = NULL]
      /\ UNCHANGED <<changedStorages, currentlySyncingStorage, syncingShouldEnd, sync>>
  BY DEF ReleaseStorage, Idle
<1>2. Held(n)
  BY <1>1 DEF Held
<1>3. /\ DOMAIN api' = DOMAIN api /\ (api').closing = api.closing
      /\ (api').at \in {"idle", "signal"}
  BY DEF IInv, TypeOK, ReleaseStorage
<1>4. ApiInv'
  BY <1>1, <1>3 DEF ApiInv
<1>5. /\ retrieved' \in [Names -> Storages \cup {NULL}]
      /\ retrieved'[n] = NULL
      /\ \A m \in Names : m # n => retrieved'[m] = retrieved[m]
  BY <1>1 DEF IInv, TypeOK
<1>6. \A m \in Names : Held(m)' => m # n /\ Held(m) /\ retrieved'[m] = retrieved[m]
  BY <1>1, <1>5 DEF Held
<1> QED BY <1>1, <1>2, <1>3, <1>4, <1>5, <1>6, ReleaseKeepsIInv

LEMMA CloseReleasesKeepsIInv ==
  ASSUME IInv, NEW n \in Names, CloseReleases(n)
  PROVE  IInv'
<1>1. /\ api.at = "closing" /\ api.closing /\ ReleaseButDontRemove(n)
      /\ UNCHANGED <<retrieved, changedStorages, currentlySyncingStorage, syncingShouldEnd, sync>>
  BY DEF CloseReleases, IInv, ApiInv
<1>2. /\ DOMAIN api' = DOMAIN api /\ (api').closing = api.closing
      /\ (api').at \in {"closing", "signal"}
      /\ (api').left = api.left \ {n}
  BY DEF IInv, TypeOK, CloseReleases
<1>3. ApiInv'
  BY <1>1, <1>2 DEF ApiInv, IInv
<1>4. Held(n) /\ \A m \in Names : Held(m)' => m # n /\ Held(m) /\ retrieved'[m] = retrieved[m]
  BY <1>1, <1>2 DEF Held, CloseReleases, ApiInv, IInv
<1>5. retrieved' \in [Names -> Storages \cup {NULL}]
  BY <1>1 DEF IInv, TypeOK
<1> QED BY <1>1, <1>2, <1>3, <1>4, <1>5, ReleaseKeepsIInv

(* close: it starts with all storages that are still held ...              *)
LEMMA CloseKeepsIInv ==
  ASSUME IInv, Close
  PROVE  IInv'
<1>1. /\ UNCHANGED <<queueState, changed, syncingShouldEnd, sync, late, fault>>
      /\ api.at = "idle" /\ ~api.closing
  BY DEF Close, queueState, queues, memory, history, Idle
<1>2. /\ DOMAIN api' = DOMAIN api /\ (api').at = "closing" /\ (api').closing = TRUE
      /\ (api').left = {n \in Names : retrieved[n] # NULL}
  BY DEF IInv, TypeOK, Close
<1>3. \A n \in Names : Held(n)' <=> Held(n)
  BY <1>1, <1>2 DEF Held, queueState
<1>4. Live' = Live /\ Queued' = Queued
  BY <1>1 DEF Live, Queued, queueState
<1>5. TypeOK'
  <2>1. (api').closing \in BOOLEAN
    BY <1>2
  <2>2. UNCHANGED <<retrieved, nameOf, changed, changedStorages, releasedStorages,
                    currentlySyncingStorage, syncingShouldEnd, sync>>
    BY <1>1 DEF queueState
  <2> QED BY <1>2, <2>1, <2>2 DEF IInv, TypeOK
<1>6. QueueInv' /\ HeldInv'
  BY <1>1, <1>3, <1>4 DEF IInv, QueueInv, HeldInv, queueState
<1>7. ApiInv' /\ SyncInv' /\ FreeInv'
  BY <1>1, <1>2, <1>4 DEF IInv, ApiInv, SyncInv, FreeInv, queueState
<1>8. NothingElseForgotten' /\ NoLostWakeup'
  BY <1>1, <1>2, <1>4, NothingQueued DEF IInv, NothingElseForgotten, NoLostWakeup, queueState
<1> QED BY <1>1, <1>5, <1>6, <1>7, <1>8 DEF IInv

(* ... and asks the sync thread to end only when it wakes it up too.       *)
LEMMA AskingKeepsIInv ==
  ASSUME IInv, CloseAsksToEnd
  PROVE  IInv'
<1>1. /\ UNCHANGED <<queueState, changed, late, fault>>
      /\ api.at = "closing" /\ sync' = Woken /\ syncingShouldEnd' = TRUE
  BY DEF CloseAsksToEnd, queueState, memory, history
<1>2. ApiMoves("join", api.storage)
  BY DEF IInv, TypeOK, CloseAsksToEnd, ApiMoves
<1>3. ApiInv' /\ (api').at = "join"
  BY <1>1, <1>2 DEF ApiMoves, ApiInv, IInv, queueState
<1>4. syncingShouldEnd' \in BOOLEAN
  BY <1>1
<1> QED BY <1>1, <1>2, <1>3, <1>4, WakingKeepsIInv DEF ApiMoves

LEMMA JoiningKeepsIInv ==
  ASSUME IInv, CloseJoins
  PROVE  IInv'
<1>1. /\ UNCHANGED <<queueState, changed, syncingShouldEnd, sync, late, fault>>
      /\ api.at = "join"
  BY DEF CloseJoins, queueState, queues, memory, history
<1>2. ApiMoves("closed", api.storage)
  BY DEF IInv, TypeOK, CloseJoins, ApiMoves
<1>3. ApiInv'
  BY <1>1, <1>2 DEF ApiMoves, ApiInv, IInv, queueState
<1> QED BY <1>1, <1>2, <1>3, NothingQueued, MovesKeepIInv DEF IInv, ApiMoves

(* A storage is allocated for a name that has none.                        *)
LEMMA RetrieveKeepsIInv ==
  ASSUME IInv, NEW n \in Names, NEW s \in Storages, RetrieveStorage(n, s)
  PROVE  IInv'
<1>1. /\ UNCHANGED <<changed, queues, api, sync, fault, late>>
      /\ api.at = "idle" /\ ~api.closing /\ retrieved[n] = NULL /\ s \notin Live
      /\ retrieved' = [retrieved EXCEPT ![n] = s]
      /\ nameOf' = [nameOf EXCEPT ![s] = n]
  BY DEF RetrieveStorage, Idle
<1>2. /\ retrieved' \in [Names -> Storages \cup {NULL}] /\ retrieved'[n] = s
      /\ \A m \in Names \ {n} : retrieved'[m] = retrieved[m]
  BY <1>1 DEF IInv, TypeOK
<1>3. /\ nameOf' \in [Storages -> Names \cup {NULL}] /\ nameOf'[s] = n
      /\ \A t \in Storages \ {s} : nameOf'[t] = nameOf[t]
  BY <1>1 DEF IInv, TypeOK
<1>4. Live' = Live \cup {s} /\ Queued' = Queued
  BY <1>1, <1>3, NullIsNoStorage DEF Live, Queued, queues
<1>5. TypeOK'
  BY <1>1, <1>2, <1>3 DEF IInv, TypeOK, queues
<1>6. QueueInv' /\ s \notin releasedStorages
  BY <1>1, <1>4 DEF IInv, QueueInv, queues
<1>7. HeldInv'
  <2> SUFFICES ASSUME NEW m \in Names, Held(m)'
               PROVE  retrieved'[m] \in Live' \ releasedStorages' /\ nameOf'[retrieved'[m]] = m
    BY DEF HeldInv
  <2>1. CASE m = n
    BY <1>1, <1>2, <1>3, <1>4, <1>6, <2>1 DEF queues
  <2>2. CASE m # n
    <3>1. Held(m) /\ retrieved'[m] = retrieved[m]
      BY <1>1, <1>2, <2>2 DEF Held
    <3>2. retrieved[m] \in Live \ releasedStorages /\ nameOf[retrieved[m]] = m
      BY <3>1 DEF IInv, HeldInv
    <3> QED BY <1>1, <1>3, <1>4, <3>1, <3>2 DEF queues, Live
  <2> QED BY <2>1, <2>2
<1>8. ApiInv' /\ SyncInv' /\ FreeInv' /\ NoLostWakeup'
  BY <1>1, <1>4 DEF IInv, ApiInv, SyncInv, FreeInv, NoLostWakeup, queues
<1>9. NothingElseForgotten'
  <2>1. DOMAIN changed[s] = {}
    BY <1>1 DEF IInv, FreeInv
  <2> QED BY <1>1, <1>4, <2>1 DEF IInv, NothingElseForgotten, queues
<1> QED BY <1>1, <1>5, <1>6, <1>7, <1>8, <1>9 DEF IInv

-----------------------------------------------------------------------------
(* The sync thread.                                                        *)

(* A step that leaves the storages and the other thread alone.             *)
LEMMA SyncGoesOn ==
  ASSUME IInv, UNCHANGED <<nameOf, retrieved, releasedStorages, syncingShouldEnd, api, fault>>,
         DOMAIN sync' = DOMAIN sync,
         (sync').at \in {"check", "waiting", "swap", "write", "append", "place", "ended"},
         DOMAIN changed' = Storages, changedStorages' \in Seq(Storages),
         currentlySyncingStorage' \in Storages \cup {NULL},
         SyncInv', QueueInv', \A s \in Storages : DOMAIN changed[s] = {} => DOMAIN changed'[s] = {}
  PROVE  TypeOK' /\ HeldInv' /\ ApiInv' /\ FreeInv' /\ Live' = Live
<1>1. Live' = Live /\ \A n \in Names : Held(n)' <=> Held(n)
  BY DEF Live, Held
<1> QED BY <1>1 DEF IInv, TypeOK, HeldInv, ApiInv, FreeInv

LEMMA TakesKeepsIInv ==
  ASSUME IInv, SyncTakesStorage
  PROVE  IInv'
<1> DEFINE s == Head(changedStorages)
<1>1. /\ UNCHANGED <<retrieved, nameOf, changed, releasedStorages, syncingShouldEnd, api, fault, late>>
      /\ sync.at = "check" /\ changedStorages # <<>>
      /\ currentlySyncingStorage' = s /\ changedStorages' = Tail(changedStorages)
  BY DEF SyncTakesStorage, memory, history
<1>2. DOMAIN sync' = DOMAIN sync /\ (sync').at = "swap"
  BY DEF SyncTakesStorage, IInv, TypeOK
<1>3. /\ s \in Storages /\ changedStorages' \in Seq(Storages)
      /\ Queued = Queued' \cup {s} /\ s \notin Queued'
      /\ \A i, j \in DOMAIN changedStorages' : changedStorages'[i] = changedStorages'[j] => i = j
  BY <1>1, TakingHead, QueuedIsSetOf DEF IInv, TypeOK, QueueInv
<1> HIDE DEF s
<1>4. currentlySyncingStorage = NULL /\ NULL \notin Storages
  BY <1>1, NullIsNoStorage DEF IInv, SyncInv
<1>5. SyncInv'
  BY <1>1, <1>2, <1>3, <1>4 DEF SyncInv
<1>6. QueueInv'
  <2>1. Live' = Live
    BY <1>1 DEF Live
  <2>2. /\ Queued \cup releasedStorages \subseteq Live
        /\ releasedStorages \subseteq Queued \cup {NULL} /\ releasedStorages \subseteq Storages
    BY <1>4 DEF IInv, QueueInv, TypeOK
  <2>3. releasedStorages \subseteq Queued
    BY <1>4, <2>2
  <2> QED BY <1>1, <1>3, <2>1, <2>2, <2>3 DEF QueueInv
<1>7. TypeOK' /\ HeldInv' /\ ApiInv' /\ FreeInv' /\ Live' = Live
  BY <1>1, <1>2, <1>3, <1>5, <1>6, SyncGoesOn DEF IInv, TypeOK
<1>8. NothingElseForgotten' /\ NoLostWakeup'
  BY <1>1, <1>2, <1>3, <1>7 DEF IInv, NothingElseForgotten, NoLostWakeup
<1> QED BY <1>1, <1>5, <1>6, <1>7, <1>8 DEF IInv

LEMMA WaitsKeepsIInv ==
  ASSUME IInv, SyncWaitsOrEnds
  PROVE  IInv'
<1>1. /\ UNCHANGED <<retrieved, nameOf, changed, changedStorages, releasedStorages,
                     currentlySyncingStorage, syncingShouldEnd, api, fault, late>>
      /\ sync.at = "check" /\ changedStorages = <<>>
  BY DEF SyncWaitsOrEnds, memory, queues, history
<1>2. /\ DOMAIN sync' = DOMAIN sync
      /\ (sync').at = IF syncingShouldEnd THEN "ended" ELSE "waiting"
  BY DEF SyncWaitsOrEnds, IInv, TypeOK
<1>3. SyncInv' /\ Live' = Live /\ Queued' = Queued
  BY <1>1, <1>2 DEF IInv, SyncInv, Live, Queued
<1>4. QueueInv'
  BY <1>1, <1>3 DEF IInv, QueueInv
<1>5. TypeOK' /\ HeldInv' /\ ApiInv' /\ FreeInv'
  BY <1>1, <1>2, <1>3, <1>4, SyncGoesOn DEF IInv, TypeOK
<1>6. NothingElseForgotten' /\ NoLostWakeup'
  BY <1>1, <1>2, <1>3 DEF IInv, NothingElseForgotten, NoLostWakeup
<1> QED BY <1>1, <1>3, <1>4, <1>5, <1>6 DEF IInv

(* The storage to be written exists: this is what QueueSound is for.       *)
LEMMA SwapsKeepsIInv ==
  ASSUME IInv, SyncSwaps
  PROVE  IInv'
<1> DEFINE s == currentlySyncingStorage
<1>1. /\ UNCHANGED <<retrieved, nameOf, changedStorages, releasedStorages,
                     currentlySyncingStorage, syncingShouldEnd, api>>
      /\ sync.at = "swap"
  BY DEF SyncSwaps, queues
<1>2. s \in Live
  BY <1>1 DEF IInv, SyncInv, QueueInv
<1>3. /\ s \in Storages
      /\ changed' = [changed EXCEPT ![s] = NoRecords] /\ late' = late \ {s} /\ UNCHANGED fault
      /\ sync' = [sync EXCEPT !.at = "write", !.name = nameOf[s], !.todo = changed[s]]
  BY <1>2 DEF SyncSwaps, Live
<1>4. DOMAIN sync' = DOMAIN sync /\ (sync').at = "write"
  BY <1>3 DEF IInv, TypeOK
<1>5. /\ DOMAIN changed' = Storages /\ DOMAIN changed'[s] = {}
      /\ \A t \in Storages \ {s} : changed'[t] = changed[t]
  BY <1>3 DEF IInv, TypeOK, NoRecords
<1> HIDE DEF s
<1>6. SyncInv' /\ Live' = Live /\ Queued' = Queued
  BY <1>1, <1>4 DEF IInv, SyncInv, Live, Queued
<1>7. QueueInv'
  BY <1>1, <1>6 DEF IInv, QueueInv
<1>8. TypeOK' /\ HeldInv' /\ ApiInv' /\ FreeInv'
  BY <1>1, <1>3, <1>4, <1>5, <1>6, <1>7, SyncGoesOn DEF IInv, TypeOK
<1>9. NothingElseForgotten'
  <2> SUFFICES ASSUME NEW t \in Live, t \notin late', DOMAIN changed'[t] # {}
               PROVE  t \in Queued \/ (t = api.storage /\ api.at = "queue")
    BY <1>1, <1>6 DEF NothingElseForgotten
  <2>1. t # s /\ t \in Storages
    BY <1>5 DEF Live
  <2>2. t \notin late /\ DOMAIN changed[t] # {}
    BY <1>3, <1>5, <2>1
  <2> QED BY <2>1, <2>2 DEF IInv, NothingElseForgotten, s
<1>10. NoLostWakeup'
  BY <1>1, <1>4 DEF IInv, NoLostWakeup
<1> QED BY <1>1, <1>3, <1>6, <1>7, <1>8, <1>9, <1>10 DEF IInv

(* While records are written, nothing else changes.                        *)
LEMMA WritesKeepIInv ==
  ASSUME IInv, UNCHANGED <<retrieved, nameOf, changed, changedStorages, releasedStorages,
                           currentlySyncingStorage, syncingShouldEnd, api, fault, late>>,
         DOMAIN sync' = DOMAIN sync,
         sync.at \in {"write", "append", "place"}, (sync').at \in {"write", "append", "place"}
  PROVE  IInv'
<1>1. SyncInv' /\ Live' = Live /\ Queued' = Queued
  BY DEF IInv, SyncInv, Live, Queued
<1>2. QueueInv'
  BY <1>1 DEF IInv, QueueInv
<1>3. TypeOK' /\ HeldInv' /\ ApiInv' /\ FreeInv'
  BY <1>1, <1>2, SyncGoesOn DEF IInv, TypeOK
<1>4. NothingElseForgotten' /\ NoLostWakeup'
  BY <1>1 DEF IInv, NothingElseForgotten, NoLostWakeup
<1> QED BY <1>1, <1>2, <1>3, <1>4 DEF IInv

LEMMA WritingKeepsIInv ==
  ASSUME IInv, (\E k \in DOMAIN sync.todo : SyncBlanks(k)) \/ SyncAppends \/ SyncPlaces
  PROVE  IInv'
<1>1. UNCHANGED <<retrieved, nameOf, changed, changedStorages, releasedStorages,
                  currentlySyncingStorage, syncingShouldEnd, api, fault, late>>
  BY DEF SyncBlanks, SyncAppends, SyncPlaces, memory, queues, history
<1>2. /\ DOMAIN sync' = DOMAIN sync
      /\ sync.at \in {"write", "append", "place"} /\ (sync').at \in {"write", "append", "place"}
  BY DEF SyncBlanks, SyncAppends, SyncPlaces, IInv, TypeOK
<1> QED BY <1>1, <1>2, WritesKeepIInv

(* A released storage is destroyed when its changes have been written: it  *)
(* is in no queue any more, and the other thread does not hold it.         *)
LEMMA FinishesKeepsIInv ==
  ASSUME IInv, SyncFinishes
  PROVE  IInv'
<1> DEFINE s == currentlySyncingStorage
<1>1. /\ UNCHANGED <<retrieved, changedStorages, syncingShouldEnd, api, fault>>
      /\ sync.at = "write" /\ currentlySyncingStorage' = NULL /\ sync' = AtRest
  BY DEF SyncFinishes
<1>2. s # NULL /\ s \in Live \ Queued /\ s \in Storages
  BY <1>1 DEF IInv, SyncInv, QueueInv, Live
<1>3. DOMAIN sync' = DOMAIN sync /\ (sync').at = "check"
  BY <1>1 DEF AtRest, IInv, TypeOK
<1>4. /\ nameOf' \in [Storages -> Names \cup {NULL}] /\ DOMAIN changed' = Storages
      /\ \A t \in Storages \ {s} : nameOf'[t] = nameOf[t] /\ changed'[t] = changed[t]
      /\ \/ /\ s \in releasedStorages /\ releasedStorages' = releasedStorages \ {s}
            /\ Live' = Live \ {s} /\ late' = late \ {s} /\ DOMAIN changed'[s] = {}
         \/ /\ s \notin releasedStorages /\ releasedStorages' = releasedStorages
            /\ Live' = Live /\ late' = late /\ nameOf' = nameOf /\ changed' = changed
  <2>1. CASE s \in releasedStorages
    <3>1. releasedStorages' = releasedStorages \ {s} /\ Free(s)
      BY <2>1 DEF SyncFinishes
    <3> QED BY <1>2, <2>1, <3>1, Freeing DEF IInv
  <2>2. CASE s \notin releasedStorages
    <3>1. UNCHANGED <<releasedStorages, nameOf, changed, late>>
      BY <2>2 DEF SyncFinishes, memory
    <3>2. Live' = Live
      BY <3>1 DEF Live
    <3> QED BY <2>2, <3>1, <3>2 DEF IInv, TypeOK
  <2> QED BY <2>1, <2>2
<1> HIDE DEF s
<1>5. Queued' = Queued
  BY <1>1 DEF Queued
<1>6. TypeOK'
  BY <1>1, <1>3, <1>4 DEF IInv, TypeOK
<1>7. QueueInv'
  <2>1. releasedStorages \subseteq Queued \cup {s}
    BY DEF IInv, QueueInv, s
  <2>2. releasedStorages' \subseteq Queued /\ Queued \cup releasedStorages' \subseteq Live'
    BY <1>2, <1>4, <2>1 DEF IInv, QueueInv
  <2> QED BY <1>1, <1>5, <2>2 DEF IInv, QueueInv
<1>8. \A n \in Names : Held(n)' <=> Held(n)
  BY <1>1 DEF Held
<1>9. HeldInv'
  <2> SUFFICES ASSUME NEW n \in Names, Held(n)
               PROVE  retrieved[n] \in Live' \ releasedStorages' /\ nameOf'[retrieved[n]] = n
    BY <1>1, <1>8 DEF HeldInv
  <2>1. retrieved[n] \in Live \ releasedStorages /\ nameOf[retrieved[n]] = n /\ retrieved[n] \in Storages
    BY DEF IInv, HeldInv, Live
  <2> QED BY <1>4, <2>1
<1>10. ApiInv' /\ SyncInv' /\ NoLostWakeup'
  BY <1>1, <1>3, <1>8 DEF IInv, ApiInv, SyncInv, NoLostWakeup
<1>11. FreeInv'
  BY <1>4 DEF IInv, FreeInv
<1>12. NothingElseForgotten'
  <2> SUFFICES ASSUME NEW t \in Live', t \notin late', DOMAIN changed'[t] # {}
               PROVE  t \in Queued \/ (t = api.storage /\ api.at = "queue")
    BY <1>1, <1>5 DEF NothingElseForgotten
  <2>1. t \in Live /\ t \notin late /\ t \in Storages /\ DOMAIN changed[t] # {}
    BY <1>4 DEF Live
  <2> QED BY <1>1, <2>1 DEF IInv, NothingElseForgotten
<1> QED BY <1>1, <1>6, <1>7, <1>9, <1>10, <1>11, <1>12 DEF IInv

-----------------------------------------------------------------------------
LEMMA CallerKeepsIInv ==
  ASSUME IInv, Caller
  PROVE  IInv'
<1>1. ASSUME NEW n \in Names, NEW s \in Storages, RetrieveStorage(n, s)
      PROVE  IInv'
  BY <1>1, RetrieveKeepsIInv
<1>2. ASSUME NEW s \in Storages, NEW k, ModifyRecord(s, k)
      PROVE  IInv'
  BY <1>2, ModifyKeepsIInv DEF ModifyRecord
<1>3. ASSUME NEW s \in Storages, StoreRecord(s)
      PROVE  IInv'
  BY <1>3, ModifyKeepsIInv DEF StoreRecord
<1>4. ASSUME NEW s \in Storages, NEW k, RemoveRecord(s, k)
      PROVE  IInv'
  BY <1>4, RemoveKeepsIInv
<1>5. ASSUME NEW s \in Storages, NEW k, LookUpRecord(s, k)
      PROVE  IInv'
  BY <1>5, LookUpKeepsIInv
<1>6. ASSUME NEW n \in Names, ReleaseStorage(n)
      PROVE  IInv'
  BY <1>6, ReleaseStorageKeepsIInv
<1> QED BY <1>1, <1>2, <1>3, <1>4, <1>5, <1>6, CloseKeepsIInv DEF Caller

LEMMA CallGoesOnKeepsIInv ==
  ASSUME IInv, CallGoesOn
  PROVE  IInv'
BY ReadKeepsIInv, RecordsChangedKeepsIInv, SignalKeepsIInv, CloseReleasesKeepsIInv,
   AskingKeepsIInv, JoiningKeepsIInv DEF CallGoesOn

LEMMA SyncThreadKeepsIInv ==
  ASSUME IInv, SyncThread
  PROVE  IInv'
BY TakesKeepsIInv, WaitsKeepsIInv, SwapsKeepsIInv, WritingKeepsIInv, FinishesKeepsIInv
   DEF SyncThread

LEMMA StutterKeepsIInv ==
  ASSUME IInv, UNCHANGED vars
  PROVE  IInv'
<1>1. UNCHANGED <<retrieved, nameOf, changed, changedStorages, releasedStorages, fault,
                  currentlySyncingStorage, syncingShouldEnd, api, sync, late>>
  BY DEF vars, memory, queues, history
<1>2. QueueInv' /\ HeldInv' /\ Live' = Live /\ Queued' = Queued
      /\ \A n \in Names : Held(n)' <=> Held(n)
  BY <1>1, QueuesUntouched DEF queueState
<1>3. TypeOK' /\ ApiInv' /\ SyncInv' /\ FreeInv'
  BY <1>1, <1>2 DEF IInv, TypeOK, ApiInv, SyncInv, FreeInv
<1>4. NothingElseForgotten' /\ NoLostWakeup'
  BY <1>1, <1>2 DEF IInv, NothingElseForgotten, NoLostWakeup
<1> QED BY <1>1, <1>2, <1>3, <1>4 DEF IInv

LEMMA NextKeepsIInv == IInv /\ [Next]_vars => IInv'
<1> SUFFICES ASSUME IInv, [Next]_vars PROVE IInv'
  OBVIOUS
<1>1. CASE Caller
  BY <1>1, CallerKeepsIInv
<1>2. CASE CallGoesOn
  BY <1>2, CallGoesOnKeepsIInv
<1>3. CASE SyncThread
  BY <1>3, SyncThreadKeepsIInv
<1>4. CASE SpuriousWakeup
  BY <1>4, SpuriousKeepsIInv
<1>5. CASE Restart \/ Crash
  BY <1>5, StartKeepsIInv DEF Restart, Crash
<1>6. CASE UNCHANGED vars
  BY <1>6, StutterKeepsIInv
<1> QED BY <1>1, <1>2, <1>3, <1>4, <1>5, <1>6 DEF Next

LEMMA Inductive == Spec => []IInv
BY InitIInv, NextKeepsIInv, PTL DEF Spec

(* The variables that the two threads share keep their types.              *)
THEOREM TypeCorrect == Spec => []TypeOK
<1>1. IInv => TypeOK
  BY DEF IInv
<1> QED BY <1>1, Inductive, PTL

(* What is queued, being written or waiting to be destroyed exists, and    *)
(* is there once, in whatever order storages are changed and released      *)
(* while the sync thread writes others.                                    *)
THEOREM QueueStaysSound == Spec => []QueueSound
<1>1. IInv => QueueSound
  BY DEF IInv, QueueInv, QueueSound
<1> QED BY <1>1, Inductive, PTL

(* ... so that syncRecords never works on a storage that was deleted.      *)
THEOREM NoFreedStorageIsWritten == Spec => [](fault # "freed storage")
<1>1. IInv => fault # "freed storage"
  BY DEF IInv
<1> QED BY <1>1, Inductive, PTL

(* Changes are forgotten in one way only: they come between the swap and   *)
(* the end of the writing of their own storage.                            *)
THEOREM OnlyLateChangesAreForgotten == Spec => []NothingElseForgotten
<1>1. IInv => NothingElseForgotten
  BY DEF IInv
<1> QED BY <1>1, Inductive, PTL

(* The sync thread never sleeps on work, or after it was asked to end.     *)
THEOREM NoWakeupIsLost == Spec => []NoLostWakeup
<1>1. IInv => NoLostWakeup
  BY DEF IInv
<1> QED BY <1>1, Inductive, PTL
-----------------------------------------------------------------------------
(* Record files: what the operators of RecordFile do.                      *)

LEMMA PutIs ==
  ASSUME NEW f, NEW x, NEW y
  PROVE  /\ DOMAIN Put(f, x, y) = DOMAIN f \cup {x}
         /\ Put(f, x, y)[x] = y
         /\ \A z \in DOMAIN f : z # x => Put(f, x, y)[z] = f[z]
BY DEF Put

LEMMA DropIs ==
  ASSUME NEW f, NEW x
  PROVE  /\ DOMAIN Drop(f, x) = DOMAIN f \ {x}
         /\ \A z \in DOMAIN f : z # x => Drop(f, x)[z] = f[z]
BY DEF Drop

LEMMA RecordLinesAre ==
  ASSUME NEW lines \in Seq(Nat)
  PROVE  /\ IsFiniteSet(RecordLines(lines)) /\ Cardinality(RecordLines(lines)) \in Nat
         /\ RecordLines(lines) \subseteq 1..Len(lines) /\ Len(lines) \in Nat
         /\ \A i \in RecordLines(lines) :
              /\ IsFiniteSet(RecordsBefore(lines, i)) /\ Cardinality(RecordsBefore(lines, i)) \in Nat
              /\ Cardinality(RecordsBefore(lines, i)) < Cardinality(RecordLines(lines))
<1>1. RecordLines(lines) \subseteq 1..Len(lines) /\ Len(lines) \in Nat
  BY DEF RecordLines
<1>2. IsFiniteSet(RecordLines(lines)) /\ Cardinality(RecordLines(lines)) \in Nat
  <2>1. IsFiniteSet(1..Len(lines))
    BY <1>1, FS_Interval
  <2>2. IsFiniteSet(RecordLines(lines))
    BY <1>1, <2>1, FS_Subset
  <2> QED BY <2>2, FS_CardinalityType
<1>3. ASSUME NEW i \in RecordLines(lines)
      PROVE  /\ IsFiniteSet(RecordsBefore(lines, i)) /\ Cardinality(RecordsBefore(lines, i)) \in Nat
             /\ Cardinality(RecordsBefore(lines, i)) < Cardinality(RecordLines(lines))
  <2>1. RecordsBefore(lines, i) \in SUBSET RecordLines(lines)
    BY DEF RecordsBefore
  <2>2. i \notin RecordsBefore(lines, i)
    BY <1>1 DEF RecordsBefore
  <2>3. /\ IsFiniteSet(RecordsBefore(lines, i))
        /\ Cardinality(RecordsBefore(lines, i)) <= Cardinality(RecordLines(lines))
        /\ Cardinality(RecordsBefore(lines, i)) # Cardinality(RecordLines(lines))
    BY <1>2, <2>1, <2>2, FS_Subset
  <2>4. Cardinality(RecordsBefore(lines, i)) \in Nat
    BY <2>3, FS_CardinalityType
  <2> QED BY <1>2, <2>3, <2>4
<1> QED BY <1>1, <1>2, <1>3

(* Keys are given in the order of the lines.                               *)
LEMMA BeforeGrows ==
  ASSUME NEW lines \in Seq(Nat), NEW i \in RecordLines(lines), NEW j \in RecordLines(lines), i # j
  PROVE  Cardinality(RecordsBefore(lines, i)) # Cardinality(RecordsBefore(lines, j))
<1>1. i \in Int /\ j \in Int
  BY RecordLinesAre
<1>2. ASSUME NEW a \in RecordLines(lines), NEW b \in RecordLines(lines), a < b, a \in Int, b \in Int
      PROVE  Cardinality(RecordsBefore(lines, a)) # Cardinality(RecordsBefore(lines, b))
  <2>1. RecordsBefore(lines, a) \in SUBSET RecordsBefore(lines, b)
    BY <1>2, RecordLinesAre DEF RecordsBefore
  <2>2. a \in RecordsBefore(lines, b) /\ a \notin RecordsBefore(lines, a)
    BY <1>2 DEF RecordsBefore
  <2>3. IsFiniteSet(RecordsBefore(lines, b))
    BY RecordLinesAre
  <2> QED BY <2>1, <2>2, <2>3, FS_Subset
<1>3. i < j \/ j < i
  BY <1>1
<1> QED BY <1>1, <1>2, <1>3

LEMMA LinesOfKeysAre ==
  ASSUME NEW lines \in Seq(Nat), NEW first \in Int
  PROVE  /\ \A k \in DOMAIN LinesOfKeys(lines, first) :
              /\ LinesOfKeys(lines, first)[k] \in RecordLines(lines)
              /\ k = first + Cardinality(RecordsBefore(lines, LinesOfKeys(lines, first)[k]))
              /\ k \in first..(first + Cardinality(RecordLines(lines)) - 1)
         /\ \A i \in RecordLines(lines) :
              \E k \in DOMAIN LinesOfKeys(lines, first) : LinesOfKeys(lines, first)[k] = i
<1> DEFINE Before(i) == Cardinality(RecordsBefore(lines, i))
           K == {first + Before(i) : i \in RecordLines(lines)}
           f == LinesOfKeys(lines, first)
<1>1. DOMAIN f = K /\ \A k \in K : f[k] = CHOOSE i \in RecordLines(lines) : k = first + Before(i)
  BY DEF LinesOfKeys
<1>2. /\ Cardinality(RecordLines(lines)) \in Nat
      /\ \A i \in RecordLines(lines) : Before(i) \in Nat /\ Before(i) < Cardinality(RecordLines(lines))
  BY RecordLinesAre
<1>3. \A i, j \in RecordLines(lines) : Before(i) = Before(j) => i = j
  BY BeforeGrows
<1> HIDE DEF Before, f
<1>4. ASSUME NEW k \in DOMAIN f
      PROVE  f[k] \in RecordLines(lines) /\ k = first + Before(f[k])
  <2>1. \E i \in RecordLines(lines) : k = first + Before(i)
    BY <1>1
  <2> QED BY <1>1, <2>1
<1>5. ASSUME NEW k \in DOMAIN f
      PROVE  k \in first..(first + Cardinality(RecordLines(lines)) - 1)
  BY <1>2, <1>4
<1>6. ASSUME NEW i \in RecordLines(lines)
      PROVE  \E k \in DOMAIN f : f[k] = i
  <2>1. first + Before(i) \in DOMAIN f
    BY <1>1
  <2>2. f[first + Before(i)] \in RecordLines(lines) /\ first + Before(i) = first + Before(f[first + Before(i)])
    BY <2>1, <1>4
  <2>3. f[first + Before(i)] = i
    BY <1>2, <1>3, <2>2
  <2> QED BY <2>1, <2>3
<1> QED BY <1>4, <1>5, <1>6 DEF f, Before

LEMMA CompactedIs ==
  ASSUME NEW lines \in Seq(Nat)
  PROVE  /\ Compacted(lines) \in Seq(Nat)
         /\ \A i \in DOMAIN Compacted(lines) : \E j \in RecordLines(lines) : Compacted(lines)[i] = lines[j]
         /\ \A j \in RecordLines(lines) : \E i \in RecordLines(Compacted(lines)) : Compacted(lines)[i] = lines[j]
<1> DEFINE R == RecordLines(lines)
           n == Cardinality(R)
           p == LinesOfKeys(lines, 1)
           g == [i \in R |-> 1 + Cardinality(RecordsBefore(lines, i))]
           c == Compacted(lines)
<1>1. /\ IsFiniteSet(R) /\ n \in Nat /\ R \subseteq 1..Len(lines) /\ Len(lines) \in Nat
      /\ \A i \in R : Cardinality(RecordsBefore(lines, i)) \in Nat /\ Cardinality(RecordsBefore(lines, i)) < n
  BY RecordLinesAre
<1>2. /\ \A k \in DOMAIN p : p[k] \in R /\ k \in 1..n
      /\ \A i \in R : \E k \in DOMAIN p : p[k] = i
  <2>1. \A k \in DOMAIN p : p[k] \in R /\ k \in 1..(1 + n - 1)
    BY LinesOfKeysAre
  <2>2. 1 + n - 1 = n
    BY <1>1
  <2> QED BY <2>1, <2>2, LinesOfKeysAre
<1>3. DOMAIN p = {g[i] : i \in R}
  BY DEF LinesOfKeys
<1>4. g \in [R -> 1..n] /\ \A i, j \in R : g[i] = g[j] => i = j
  <2>1. \A i \in R : g[i] \in 1..n
    BY <1>1
  <2>2. ASSUME NEW i \in R, NEW j \in R, g[i] = g[j] PROVE i = j
    <3>1. Cardinality(RecordsBefore(lines, i)) = Cardinality(RecordsBefore(lines, j))
      BY <1>1, <2>2
    <3> QED BY <3>1, BeforeGrows
  <2> QED BY <2>1, <2>2
<1> HIDE DEF g, R, n
<1>5. g \in Injection(R, 1..n)
  BY <1>4 DEF Injection, IsInjective
<1>6. IsFiniteSet(1..n) /\ Cardinality(1..n) = Cardinality(R)
  <2>1. IsFiniteSet(1..n) /\ Cardinality(1..n) = IF 1 > n THEN 0 ELSE n - 1 + 1
    BY <1>1, FS_Interval
  <2>2. (IF 1 > n THEN 0 ELSE n - 1 + 1) = n
    BY <1>1
  <2> QED BY <2>1, <2>2 DEF n
<1>7. g \in Surjection(R, 1..n)
  BY <1>5, <1>6, FS_Injection
<1>8. DOMAIN p = 1..n
  <2>1. \A k \in 1..n : \E i \in R : g[i] = k
    BY <1>7 DEF Surjection
  <2> QED BY <1>2, <1>3, <2>1
<1> HIDE DEF p
<1>9. c = [k \in 1..n |-> lines[p[k]]]
  BY <1>8 DEF Compacted, RecordsOf, p
<1>10. \A k \in 1..n : lines[p[k]] \in Nat /\ lines[p[k]] # BLANK
  <2>1. \A i \in R : i \in 1..Len(lines) /\ lines[i] # BLANK
    BY <1>1 DEF R, RecordLines
  <2> QED BY <1>2, <1>8, <2>1
<1> HIDE DEF c
<1>11. c \in Seq(Nat)
  BY <1>1, <1>9, <1>10
<1>12. DOMAIN c = 1..n
  BY <1>9
<1>13. \A j \in R : \E i \in RecordLines(c) : c[i] = lines[j]
  BY <1>2, <1>8, <1>9, <1>10, <1>12 DEF RecordLines
<1>14. \A i \in DOMAIN c : \E j \in R : c[i] = lines[j]
  BY <1>2, <1>8, <1>9, <1>12
<1> QED BY <1>11, <1>13, <1>14 DEF c, R

LEMMA ClosedIs ==
  ASSUME NEW lines \in Seq(Nat)
  PROVE  /\ Closed(lines) \in Seq(Nat)
         /\ \A i \in DOMAIN Closed(lines) : \E j \in DOMAIN lines : Closed(lines)[i] = lines[j]
         /\ VersionsIn(Closed(lines)) = VersionsIn(lines)
<1>1. CASE Compacting
  <2> DEFINE c == Compacted(lines)
  <2>1. /\ c \in Seq(Nat)
        /\ \A i \in DOMAIN c : \E j \in RecordLines(lines) : c[i] = lines[j]
        /\ \A j \in RecordLines(lines) : \E i \in RecordLines(c) : c[i] = lines[j]
    BY CompactedIs
  <2>2. Closed(lines) = c
    BY <1>1 DEF Closed
  <2> HIDE DEF c
  <2>3. VersionsIn(c) = VersionsIn(lines)
    BY <2>1 DEF VersionsIn, RecordLines
  <2>4. \A i \in DOMAIN c : \E j \in DOMAIN lines : c[i] = lines[j]
    BY <2>1 DEF RecordLines
  <2> QED BY <2>1, <2>2, <2>3, <2>4
<1>2. CASE ~Compacting
  BY <1>2 DEF Closed
<1> QED BY <1>1, <1>2
-----------------------------------------------------------------------------
(* The steps of openFile, deleteRecord and writeRecord.                    *)

(* A file that the manager has open, or NoFile.                            *)
FileType(f) ==
  /\ DOMAIN f = {"written", "positions", "nextKey"}
  /\ f.written \in Seq(Nat) /\ f.nextKey \in Int

LEMMA NoFileIs == FileType(NoFile) /\ NoFile.written = <<>> /\ DOMAIN NoFile.positions = {} /\ NoFile.nextKey = -1
BY DEF NoFile, NoKey, FileType

LEMMA OpenedIs ==
  ASSUME NEW lines \in Seq(Nat)
  PROVE  /\ FileType(Opened(lines)) /\ Opened(lines).nextKey \in Nat
         /\ Opened(lines).written = lines
         /\ Opened(lines).positions = LinesOfKeys(lines, 0)
         /\ Opened(lines).nextKey = Cardinality(RecordLines(lines))
BY RecordLinesAre DEF Opened, FileType

LEMMA BlankedIs ==
  ASSUME NEW f, FileType(f), NEW k
  PROVE  /\ FileType(Blanked(f, k)) /\ Blanked(f, k).positions = f.positions
         /\ Blanked(f, k).nextKey = f.nextKey
         /\ DOMAIN Blanked(f, k).written = DOMAIN f.written
         /\ k \in DOMAIN f.positions =>
              \A i \in DOMAIN f.written :
                Blanked(f, k).written[i] = IF i = f.positions[k] THEN BLANK ELSE f.written[i]
         /\ k \notin DOMAIN f.positions => Blanked(f, k) = f
         /\ \A i \in DOMAIN f.written : Blanked(f, k).written[i] \in {BLANK, f.written[i]}
<1>1. CASE k \notin DOMAIN f.positions
  BY <1>1 DEF Blanked
<1>2. CASE k \in DOMAIN f.positions
  <2> DEFINE g == Blanked(f, k)
             w == f.written
  <2>1. g = [f EXCEPT !.written[f.positions[k]] = BLANK]
    BY <1>2 DEF Blanked
  <2>2. /\ DOMAIN g = {"written", "positions", "nextKey"}
        /\ g.written = [w EXCEPT ![f.positions[k]] = BLANK]
        /\ g.positions = f.positions /\ g.nextKey = f.nextKey
    BY <2>1 DEF FileType
  <2> HIDE DEF g
  <2>3. w \in Seq(Nat) /\ BLANK \in Nat
    BY DEF FileType, BLANK
  <2> HIDE DEF w
  <2>4. /\ [w EXCEPT ![f.positions[k]] = BLANK] \in Seq(Nat)
        /\ DOMAIN [w EXCEPT ![f.positions[k]] = BLANK] = DOMAIN w
        /\ \A i \in DOMAIN w :
              [w EXCEPT ![f.positions[k]] = BLANK][i] = IF i = f.positions[k] THEN BLANK ELSE w[i]
    <3> DEFINE p == f.positions[k]
    <3> HIDE DEF p
    <3>1. [w EXCEPT ![p] = BLANK] \in Seq(Nat)
      <4>1. w \in [1..Len(w) -> Nat] /\ Len(w) \in Nat
        BY <2>3
      <4>2. [w EXCEPT ![p] = BLANK] \in [1..Len(w) -> Nat]
        BY <2>3, <4>1
      <4> QED BY <4>1, <4>2
    <3>2. /\ DOMAIN [w EXCEPT ![p] = BLANK] = DOMAIN w
          /\ \A i \in DOMAIN w : [w EXCEPT ![p] = BLANK][i] = IF i = p THEN BLANK ELSE w[i]
      OBVIOUS
    <3> QED BY <3>1, <3>2 DEF p
  <2>5. FileType(g)
    BY <2>2, <2>4 DEF FileType
  <2> QED BY <1>2, <2>2, <2>4, <2>5 DEF g, w
<1> QED BY <1>1, <1>2

LEMMA AppendedIs ==
  ASSUME NEW f, FileType(f), NEW v \in Nat
  PROVE  /\ FileType(Appended(f, v)) /\ Appended(f, v).positions = f.positions
         /\ Appended(f, v).nextKey = f.nextKey
         /\ Appended(f, v).written = Append(f.written, v)
         /\ Len(f.written) + 1 = Len(Appended(f, v).written) /\ Len(f.written) \in Nat
         /\ DOMAIN Appended(f, v).written = DOMAIN f.written \cup {Len(f.written) + 1}
         /\ Len(f.written) + 1 \notin DOMAIN f.written
         /\ \A i \in DOMAIN f.written : Appended(f, v).written[i] = f.written[i]
         /\ Appended(f, v).written[Len(f.written) + 1] = v
<1> DEFINE g == Appended(f, v)
<1>1. /\ DOMAIN g = {"written", "positions", "nextKey"}
      /\ g.written = Append(f.written, v)
      /\ g.positions = f.positions /\ g.nextKey = f.nextKey
  BY DEF Appended, FileType
<1>2. f.written \in Seq(Nat) /\ f.nextKey \in Int
  BY DEF FileType
<1> DEFINE w == f.written
<1> HIDE DEF g, w
<1>3. /\ Append(w, v) \in Seq(Nat) /\ Len(Append(w, v)) = Len(w) + 1 /\ Len(w) \in Nat
      /\ \A i \in 1..Len(w) : Append(w, v)[i] = w[i]
      /\ Append(w, v)[Len(w) + 1] = v
      /\ DOMAIN Append(w, v) = 1..(Len(w) + 1) /\ DOMAIN w = 1..Len(w)
  BY <1>2 DEF w
<1>4. FileType(g)
  BY <1>1, <1>2, <1>3 DEF FileType, w
<1>5. 1..(Len(w) + 1) = 1..Len(w) \cup {Len(w) + 1} /\ Len(w) + 1 \notin 1..Len(w)
  BY <1>3
<1> QED BY <1>1, <1>3, <1>4, <1>5 DEF g, w

LEMMA PlacedIs ==
  ASSUME NEW f, FileType(f), NEW k, NEW line
  PROVE  /\ FileType(Placed(f, k, line)) /\ Placed(f, k, line).written = f.written
         /\ Placed(f, k, line).nextKey = f.nextKey
         /\ DOMAIN Placed(f, k, line).positions = DOMAIN f.positions \cup {k}
         /\ Placed(f, k, line).positions[k] = line
         /\ \A j \in DOMAIN f.positions : j # k => Placed(f, k, line).positions[j] = f.positions[j]
<1>1. /\ DOMAIN Placed(f, k, line) = {"written", "positions", "nextKey"}
      /\ Placed(f, k, line).written = f.written /\ Placed(f, k, line).nextKey = f.nextKey
      /\ Placed(f, k, line).positions = Put(f.positions, k, line)
  BY DEF Placed, FileType
<1>2. /\ DOMAIN Put(f.positions, k, line) = DOMAIN f.positions \cup {k}
      /\ Put(f.positions, k, line)[k] = line
      /\ \A j \in DOMAIN f.positions : j # k => Put(f.positions, k, line)[j] = f.positions[j]
  BY DEF Put
<1>3. FileType(Placed(f, k, line))
  BY <1>1 DEF FileType
<1> QED BY <1>1, <1>2, <1>3
-----------------------------------------------------------------------------
(* What holds of the files and records however they were used: versions    *)
(* come from the clock, and blanks are no versions.                        *)
NameData(n) ==
  /\ FileType(files[n]) /\ disk[n] \in Seq(Nat)
  /\ IsOpen(n) => files[n].nextKey \in Nat
  /\ \A i \in DOMAIN disk[n] : disk[n][i] <= clock
  /\ \A i \in DOMAIN files[n].written : files[n].written[i] <= clock

StorageData(s) ==
  /\ \A k \in DOMAIN changed[s] : changed[s][k] \in 1..clock
  /\ s \notin Live => deleted[s] = {}

DataInv ==
  /\ clock \in Nat
  /\ DOMAIN disk = Names /\ DOMAIN files = Names
  /\ DOMAIN records = Storages /\ DOMAIN deleted = Storages
  /\ \A n \in Names : NameData(n)
  /\ \A s \in Storages : StorageData(s)
  /\ \A k \in DOMAIN sync.todo : sync.todo[k] \in 1..clock

(* How far the sync thread is, and what the other thread reads.            *)
Writing == sync.at \in {"write", "append", "place"}

WriterInv ==
  /\ ~Writing => DOMAIN sync.todo = {}
  /\ Writing => sync.name = nameOf[currentlySyncingStorage]
  /\ sync.at \in {"append", "place"} => sync.key \in DOMAIN sync.todo
  /\ Running /\ sync.at \in {"append", "place"} => IsOpen(sync.name)
  /\ api.at = "read" => api.key \in deleted[api.storage]

(* Every storage has a file of its own.                                    *)
OwnFiles ==
  /\ \A s \in Live : IsOpen(nameOf[s])
  /\ \A s, t \in Live : nameOf[s] = nameOf[t] => s = t

(* In a file, the record lines are those of the keys, except for the one   *)
(* that is being replaced, and all but one have reached the disk.          *)
Replacing(n, k) == sync.name = n /\ sync.at \in {"append", "place"} /\ sync.key = k

LineOf(n, k) == files[n].written[files[n].positions[k]]

Positioned(n) ==
  /\ \A k \in DOMAIN files[n].positions :
       /\ k \in Int /\ k < files[n].nextKey
       /\ files[n].positions[k] \in DOMAIN files[n].written
  /\ \A j, k \in DOMAIN files[n].positions : files[n].positions[j] = files[n].positions[k] => j = k

Occupied(n) ==
  /\ \A k \in DOMAIN files[n].positions : LineOf(n, k) = BLANK <=> Replacing(n, k)
  /\ \A i \in RecordLines(files[n].written) :
       \/ \E k \in DOMAIN files[n].positions : files[n].positions[k] = i
       \/ sync.name = n /\ sync.at = "place" /\ i = sync.line

Lags(n) ==
  /\ \A j, k \in DOMAIN files[n].positions : j = k \/ Saved(n, j) \/ Saved(n, k)
  /\ sync.name = n /\ sync.at = "place" =>
       \A k \in DOMAIN files[n].positions : k # sync.key => Saved(n, k)

FileInv(n) == Positioned(n) /\ Occupied(n) /\ Lags(n)

(* The line that is being added.                                           *)
AddedInv ==
  sync.at = "place" =>
    /\ sync.line \in DOMAIN files[sync.name].written
    /\ files[sync.name].written[sync.line] = sync.todo[sync.key]
    /\ \A k \in DOMAIN files[sync.name].positions : files[sync.name].positions[k] # sync.line

(* The keys of a storage are known to its file.                            *)
InFile(s, k) == k \in DOMAIN files[nameOf[s]].positions

KeysInv(s) ==
  /\ \A k \in DOMAIN records[s] \cup deleted[s] : k \in Int /\ k < files[nameOf[s]].nextKey
  /\ DOMAIN changed[s] \cup BeingWritten(s) \cup DOMAIN files[nameOf[s]].positions
       \subseteq DOMAIN records[s] \cup deleted[s]

(* The last version of a record is the one in the file, the one being      *)
(* written, or the one that waits, and what comes later is newer.          *)
VersionInv(s, k) ==
  /\ records[s][k] \in 1..clock
  /\ k \in DOMAIN changed[s] =>
       /\ changed[s][k] = records[s][k]
       /\ k \in BeingWritten(s) => sync.todo[k] < changed[s][k]
       /\ InFile(s, k) => LineOf(nameOf[s], k) < changed[s][k]
  /\ k \in BeingWritten(s) =>
       /\ k \notin DOMAIN changed[s] => sync.todo[k] = records[s][k]
       /\ InFile(s, k) => LineOf(nameOf[s], k) < sync.todo[k]
  /\ k \notin DOMAIN changed[s] \cup BeingWritten(s) =>
       InFile(s, k) /\ LineOf(nameOf[s], k) = records[s][k]

StorageInv(s) == KeysInv(s) /\ \A k \in DOMAIN records[s] \ deleted[s] : VersionInv(s, k)

(* As long as no file was opened twice.                                    *)
CleanInv ==
  /\ Running /\ OwnFiles /\ AddedInv
  /\ \A n \in Names : FileInv(n)
  /\ \A s \in Live : StorageInv(s)

FilesInv == DataInv /\ WriterInv /\ (~overlap => CleanInv)

-----------------------------------------------------------------------------
(* What a step leaves alone.                                               *)

(* The sync thread is not at work in the file n, or stays where it is.     *)
At(n) == sync.name = n /\ sync.at \in {"append", "place"}

WriterStays(n) ==
  \/ /\ (sync').name = sync.name /\ (sync').at = sync.at
     /\ (sync').key = sync.key /\ (sync').line = sync.line
  \/ ~At(n) /\ ~At(n)'

LinesStay(n) ==
  /\ files'[n].written = files[n].written /\ files'[n].positions = files[n].positions
  /\ files'[n].nextKey \in Int /\ files[n].nextKey \in Int /\ files[n].nextKey <= files'[n].nextKey

LEMMA PositionedStays ==
  ASSUME NEW n, LinesStay(n), Positioned(n)
  PROVE  Positioned(n)'
BY DEF LinesStay, Positioned

LEMMA OccupiedStays ==
  ASSUME NEW n, LinesStay(n), WriterStays(n), Occupied(n)
  PROVE  Occupied(n)'
<1>1. \A k : LineOf(n, k)' = LineOf(n, k)
  BY DEF LinesStay, LineOf
<1>2. \A k : Replacing(n, k)' <=> Replacing(n, k)
  BY DEF WriterStays, Replacing, At
<1>3. \A i : (sync.name = n /\ sync.at = "place" /\ i = sync.line)' <=>
             (sync.name = n /\ sync.at = "place" /\ i = sync.line)
  BY DEF WriterStays, At
<1> QED BY <1>1, <1>2, <1>3 DEF LinesStay, Occupied

LEMMA FileStays ==
  ASSUME NEW n, LinesStay(n), WriterStays(n), disk'[n] = disk[n], FileInv(n)
  PROVE  FileInv(n)'
<1>1. \A k : Saved(n, k)' <=> Saved(n, k)
  BY DEF LinesStay, Saved
<1>2. Lags(n)'
  BY <1>1 DEF FileInv, Lags, LinesStay, WriterStays, At
<1> QED BY <1>2, PositionedStays, OccupiedStays DEF FileInv

(* A seek flushes: what was written and is not being replaced is saved.    *)
LEMMA FlushSaves ==
  ASSUME NEW n, Positioned(n)', disk'[n] = files[n].written,
         NEW k \in DOMAIN files'[n].positions,
         LineOf(n, k)' # BLANK,
         files'[n].positions[k] \in DOMAIN files[n].written,
         files'[n].written[files'[n].positions[k]] = files[n].written[files'[n].positions[k]]
  PROVE  Saved(n, k)'
<1> DEFINE i == files'[n].positions[k]
<1>1. i \in RecordLines(disk'[n]) /\ disk'[n][i] = files'[n].written[i]
  BY DEF RecordLines, LineOf
<1> QED BY <1>1 DEF Saved

LEMMA FileFlushed ==
  ASSUME NEW n, LinesStay(n), WriterStays(n), disk'[n] = files[n].written, FileInv(n)
  PROVE  FileInv(n)'
<1>1. Positioned(n)' /\ Occupied(n)'
  BY PositionedStays, OccupiedStays DEF FileInv
<1>2. ASSUME NEW k \in DOMAIN files'[n].positions, ~Replacing(n, k)'
      PROVE  Saved(n, k)'
  <2>1. LineOf(n, k)' # BLANK
    BY <1>1, <1>2 DEF Occupied
  <2>2. files'[n].positions[k] \in DOMAIN files[n].written
    BY DEF LinesStay, FileInv, Positioned
  <2> QED BY <1>1, <2>1, <2>2, FlushSaves DEF LinesStay
<1>3. \A j, k : Replacing(n, j)' /\ Replacing(n, k)' => j = k
  BY DEF Replacing
<1>4. \A k : k # (sync').key => ~Replacing(n, k)'
  BY DEF Replacing
<1>5. Lags(n)'
  BY <1>2, <1>3, <1>4 DEF Lags
<1> QED BY <1>1, <1>5 DEF FileInv

(* A storage whose records, changes and file stay.                         *)
StorageStays(s) ==
  /\ records'[s] = records[s] /\ changed'[s] = changed[s] /\ deleted'[s] = deleted[s]
  /\ nameOf'[s] = nameOf[s]

ChangesStay(s) ==
  /\ BeingWritten(s)' = BeingWritten(s)
  /\ \A k \in BeingWritten(s) : (sync').todo[k] = sync.todo[k]

VersionsStay(n) ==
  /\ files'[n].positions = files[n].positions
  /\ \A k \in DOMAIN files[n].positions :
       files'[n].written[files[n].positions[k]] = files[n].written[files[n].positions[k]]
  /\ files'[n].nextKey \in Int /\ files[n].nextKey \in Int /\ files[n].nextKey <= files'[n].nextKey

LEMMA LinesAreVersionsToo ==
  ASSUME NEW n, LinesStay(n)
  PROVE  VersionsStay(n)
BY DEF LinesStay, VersionsStay

LEMMA VersionStays ==
  ASSUME NEW s, NEW k, ChangesStay(s), VersionsStay(nameOf[s]), nameOf'[s] = nameOf[s],
         k \in DOMAIN changed'[s] <=> k \in DOMAIN changed[s],
         changed'[s][k] = changed[s][k] \/ k \notin DOMAIN changed[s], records'[s][k] = records[s][k],
         clock \in Nat, clock' \in Nat, clock <= clock', VersionInv(s, k)
  PROVE  VersionInv(s, k)'
<1>1. InFile(s, k)' <=> InFile(s, k)
  BY DEF VersionsStay, InFile
<1>3. InFile(s, k) => LineOf(nameOf[s], k)' = LineOf(nameOf[s], k)
  BY DEF VersionsStay, InFile, LineOf
<1>4. records[s][k] \in 1..clock => records[s][k] \in 1..clock'
  OBVIOUS
<1> QED BY <1>1, <1>3, <1>4 DEF VersionInv, ChangesStay

LEMMA StorageKept ==
  ASSUME NEW s, StorageStays(s), ChangesStay(s), VersionsStay(nameOf[s]),
         clock \in Nat, clock' \in Nat, clock <= clock', StorageInv(s)
  PROVE  StorageInv(s)'
<1>1. KeysInv(s)'
  BY DEF StorageInv, KeysInv, StorageStays, ChangesStay, VersionsStay
<1>2. ASSUME NEW k \in DOMAIN records[s] \ deleted[s]
      PROVE  VersionInv(s, k)'
  <2>1. VersionInv(s, k)
    BY DEF StorageInv
  <2> QED BY <2>1, VersionStays DEF StorageStays
<1> QED BY <1>1, <1>2 DEF StorageInv, StorageStays

LEMMA NamesOfLive ==
  ASSUME IInv
  PROVE  /\ \A s \in Live : s \in Storages /\ nameOf[s] \in Names
         /\ sync.at \notin {"check", "waiting", "ended"} => currentlySyncingStorage \in Live
BY DEF IInv, TypeOK, Live, QueueInv, SyncInv

(* A step of one of the threads that touches neither records nor files.    *)
LEMMA QuietKeepsFilesInv ==
  ASSUME IInv, FilesInv, UNCHANGED <<memory, media, clock, overlap, fault>>,
         \/ UNCHANGED <<sync, currentlySyncingStorage>>
         \/ /\ sync.at \notin {"append", "place"} /\ DOMAIN sync.todo = {}
            /\ ~Writing' /\ DOMAIN (sync').todo = {},
         (api').at = "read" => (api').key \in deleted[(api').storage]
  PROVE  FilesInv'
<1>1. Live' = Live /\ \A n : IsOpen(n)' <=> IsOpen(n)
  BY DEF memory, media, Live, IsOpen
<1>2. DataInv'
  BY <1>1 DEF FilesInv, DataInv, NameData, StorageData, memory, media
<1>3. WriterInv'
  BY <1>1 DEF FilesInv, WriterInv, Writing, Running, memory
<1>4. ASSUME ~overlap
      PROVE  CleanInv'
  <2>1. CleanInv /\ DataInv /\ WriterInv
    BY <1>4 DEF FilesInv
  <2>2. Running' /\ OwnFiles'
    BY <1>1, <2>1 DEF CleanInv, OwnFiles, Running, memory
  <2>3. AddedInv'
    BY <2>1 DEF CleanInv, AddedInv, Writing, media
  <2>4. ASSUME NEW n \in Names
        PROVE  FileInv(n)'
    <3>1. FileInv(n) /\ NameData(n)
      BY <2>1 DEF CleanInv, DataInv
    <3>2. LinesStay(n)
      BY <3>1 DEF LinesStay, NameData, FileType, media
    <3>3. WriterStays(n)
      BY DEF WriterStays, At, Writing
    <3> QED BY <3>1, <3>2, <3>3, FileStays DEF media
  <2>5. ASSUME NEW s \in Live
        PROVE  StorageInv(s)'
    <3>1. StorageInv(s) /\ NameData(nameOf[s]) /\ clock \in Nat
      BY <2>1, NamesOfLive DEF CleanInv, DataInv
    <3>2. VersionsStay(nameOf[s])
      BY <3>1 DEF VersionsStay, NameData, FileType, media
    <3>3. ChangesStay(s)
      BY <2>1 DEF ChangesStay, BeingWritten, WriterInv
    <3>4. StorageStays(s)
      BY DEF StorageStays, memory
    <3> QED BY <3>1, <3>2, <3>3, <3>4, StorageKept
  <2> QED BY <1>1, <2>2, <2>3, <2>4, <2>5 DEF CleanInv
<1> QED BY <1>2, <1>3, <1>4 DEF FilesInv
-----------------------------------------------------------------------------
(* The thread that uses the API changes a record.                          *)
LEMMA InUseIsLive ==
  ASSUME IInv, NEW s \in Storages, InUse(s)
  PROVE  s \in Live /\ nameOf[s] \in Names /\ api.at = "idle"
<1>1. /\ api.at = "idle" /\ ~api.closing
      /\ \E n \in Names : retrieved[n] = s
  BY DEF InUse, Idle
<1>2. s \in Live
  BY <1>1, NullIsNoStorage DEF IInv, HeldInv, Held
<1> QED BY <1>1, <1>2, NamesOfLive

(* Files in which at most the next key has changed.                        *)
KeysGiven ==
  /\ DOMAIN files' = Names
  /\ \A n \in Names : /\ LinesStay(n) /\ FileType(files'[n])
                      /\ IsOpen(n)' <=> IsOpen(n)
                      /\ IsOpen(n)' => files'[n].nextKey \in Nat

LEMMA SameFiles ==
  ASSUME DataInv, UNCHANGED files
  PROVE  KeysGiven
BY DEF DataInv, NameData, KeysGiven, LinesStay, FileType, IsOpen

LEMMA OpenHasKey ==
  ASSUME NEW f, f.nextKey \in Nat
  PROVE  f # NoFile
BY NoFileIs

LEMMA NextKeyGiven ==
  ASSUME DataInv, NEW m \in Names, IsOpen(m), files' = [files EXCEPT ![m].nextKey = @ + 1]
  PROVE  KeysGiven /\ files'[m].nextKey = files[m].nextKey + 1
<1>1. FileType(files[m]) /\ files[m].nextKey \in Nat /\ DOMAIN files = Names
  BY DEF DataInv, NameData
<1>2. /\ DOMAIN files' = Names
      /\ files'[m] = [files[m] EXCEPT !.nextKey = @ + 1]
      /\ \A n \in Names \ {m} : files'[n] = files[n]
  BY <1>1
<1>3. /\ FileType(files'[m]) /\ files'[m].nextKey = files[m].nextKey + 1
      /\ files'[m].written = files[m].written /\ files'[m].positions = files[m].positions
  BY <1>1, <1>2 DEF FileType
<1>4. files'[m] # NoFile /\ LinesStay(m) /\ files'[m].nextKey \in Nat
  <2>1. files'[m].nextKey \in Nat
    BY <1>1, <1>3
  <2>2. LinesStay(m)
    BY <1>1, <1>3 DEF LinesStay
  <2> QED BY <2>1, <2>2, OpenHasKey
<1>5. ASSUME NEW n \in Names \ {m}
      PROVE  /\ LinesStay(n) /\ FileType(files'[n])
             /\ IsOpen(n)' <=> IsOpen(n)
             /\ IsOpen(n)' => files'[n].nextKey \in Nat
  BY <1>2 DEF DataInv, NameData, LinesStay, FileType, IsOpen
<1> QED BY <1>2, <1>3, <1>4, <1>5 DEF KeysGiven, IsOpen

LEMMA NameDataStays ==
  ASSUME DataInv, KeysGiven, NEW n \in Names, disk'[n] = disk[n] \/ disk'[n] = files[n].written,
         clock' \in Nat, clock <= clock'
  PROVE  NameData(n)'
<1>1. /\ FileType(files[n]) /\ disk[n] \in Seq(Nat) /\ clock \in Nat
      /\ files[n].written \in Seq(Nat) /\ files'[n].written = files[n].written
  BY DEF DataInv, NameData, FileType, KeysGiven, LinesStay
<1>2. /\ \A i \in DOMAIN disk[n] : disk[n][i] \in Nat /\ disk[n][i] <= clock
      /\ \A i \in DOMAIN files[n].written : files[n].written[i] \in Nat /\ files[n].written[i] <= clock
  <2> DEFINE d == disk[n]
             w == files[n].written
  <2> HIDE DEF d, w
  <2>1. /\ \A i \in DOMAIN d : d[i] \in Nat
        /\ \A i \in DOMAIN w : w[i] \in Nat
    BY <1>1 DEF d, w
  <2> QED BY <2>1 DEF DataInv, NameData, d, w
<1>3. \A v \in Nat : v <= clock => v <= clock'
  BY <1>1
<1>4. /\ \A i \in DOMAIN disk'[n] : disk'[n][i] <= clock'
      /\ \A i \in DOMAIN files'[n].written : files'[n].written[i] <= clock'
      /\ disk'[n] \in Seq(Nat)
  BY <1>1, <1>2, <1>3
<1> QED BY <1>4 DEF KeysGiven, NameData

(* A record is changed: the change waits, with a version newer than what   *)
(* is in the file or being written.                                        *)
LEMMA ModifyKeepsFilesInv ==
  ASSUME IInv, FilesInv, NEW s \in Storages, NEW k, InUse(s), Modify(s, k), KeysGiven,
         ~overlap => k \in Int /\ k < files'[nameOf[s]].nextKey
  PROVE  FilesInv'
<1> USE DEF FilesInv
<1>1. s \in Live /\ nameOf[s] \in Names
  BY InUseIsLive
<1>2. /\ UNCHANGED <<nameOf, deleted, disk, sync, fault, overlap, currentlySyncingStorage>>
      /\ clock' = clock + 1 /\ (api').at = "queue"
      /\ records' = [records EXCEPT ![s] = Put(@, k, clock + 1)]
      /\ changed' = [changed EXCEPT ![s] = Put(@, k, clock + 1)]
  BY DEF Modify, history, queues, IInv, TypeOK
<1>3. clock \in Nat /\ clock' \in Nat /\ clock < clock' /\ clock <= clock'
  BY <1>2 DEF DataInv
<1>4. /\ DOMAIN records' = Storages /\ DOMAIN changed' = Storages
      /\ records'[s] = Put(records[s], k, clock') /\ changed'[s] = Put(changed[s], k, clock')
      /\ \A t \in Storages \ {s} : records'[t] = records[t] /\ changed'[t] = changed[t]
  BY <1>2 DEF DataInv, IInv, TypeOK
<1>5. /\ DOMAIN records'[s] = DOMAIN records[s] \cup {k} /\ records'[s][k] = clock'
      /\ DOMAIN changed'[s] = DOMAIN changed[s] \cup {k} /\ changed'[s][k] = clock'
      /\ \A j \in DOMAIN records[s] : j # k => records'[s][j] = records[s][j]
      /\ \A j \in DOMAIN changed[s] : j # k => changed'[s][j] = changed[s][j]
  BY <1>4 DEF Put
<1>6. Live' = Live
  BY <1>2 DEF Live
<1>7. DataInv'
  <2>1. \A n \in Names : NameData(n)'
    BY <1>2, <1>3, NameDataStays
  <2>2. ASSUME NEW t \in Storages
        PROVE  StorageData(t)'
    <3>1. StorageData(t)
      BY DEF DataInv
    <3>2. \A j \in DOMAIN changed'[t] : changed'[t][j] \in 1..clock'
      <4>1. CASE t = s
        BY <1>3, <1>5, <3>1, <4>1 DEF StorageData
      <4>2. CASE t # s
        BY <1>3, <1>4, <3>1, <4>2 DEF StorageData
      <4> QED BY <4>1, <4>2
    <3> QED BY <1>2, <1>6, <3>1, <3>2 DEF StorageData
  <2>3. \A j \in DOMAIN (sync').todo : (sync').todo[j] \in 1..clock'
    BY <1>2, <1>3 DEF DataInv
  <2>4. DOMAIN files' = Names /\ DOMAIN disk' = Names /\ DOMAIN deleted' = Storages
    BY <1>2 DEF KeysGiven, DataInv
  <2> QED BY <1>3, <1>4, <2>1, <2>2, <2>3, <2>4 DEF DataInv
<1>8. WriterInv'
  <2>1. sync.at \in {"append", "place"} => sync.name \in Names
    BY NamesOfLive DEF WriterInv, Writing
  <2> QED BY <1>2, <2>1 DEF WriterInv, Writing, Running, KeysGiven
<1>9. ASSUME ~overlap
      PROVE  CleanInv'
  <2>1. CleanInv /\ DataInv
    BY <1>9
  <2>2. Running' /\ OwnFiles'
    BY <1>2, <1>6, <2>1, NamesOfLive DEF CleanInv, OwnFiles, Running, KeysGiven
  <2>3. AddedInv'
    <3>1. sync.at \in {"append", "place"} => sync.name \in Names
      BY NamesOfLive DEF WriterInv, Writing
    <3> QED BY <1>2, <2>1, <3>1 DEF CleanInv, AddedInv, KeysGiven, LinesStay
  <2>4. ASSUME NEW n \in Names
        PROVE  FileInv(n)'
    BY <1>2, <2>1, FileStays DEF CleanInv, KeysGiven, WriterStays
  <2>5. \A t : ChangesStay(t)
    BY <1>2 DEF ChangesStay, BeingWritten
  <2>6. \A t \in Live : VersionsStay(nameOf[t])
    BY LinesAreVersionsToo, NamesOfLive DEF KeysGiven
  <2>7. ASSUME NEW t \in Live, t # s
        PROVE  StorageInv(t)'
    <3>1. StorageStays(t)
      BY <1>2, <1>4, <2>7, NamesOfLive DEF StorageStays
    <3> QED BY <1>3, <2>1, <2>5, <2>6, <3>1, StorageKept DEF CleanInv
  <2>8. StorageInv(s)'
    <3>1. StorageInv(s) /\ FileInv(nameOf[s]) /\ NameData(nameOf[s]) /\ VersionsStay(nameOf[s])
      BY <1>1, <2>1, <2>6 DEF CleanInv, DataInv
    <3>2. KeysInv(s)'
      <4>1. \A j \in DOMAIN records[s] \cup deleted[s] : j \in Int /\ j < files'[nameOf[s]].nextKey
        BY <3>1 DEF StorageInv, KeysInv, VersionsStay
      <4>2. \A j \in DOMAIN records'[s] \cup deleted[s] : j \in Int /\ j < files'[nameOf[s]].nextKey
        BY <1>5, <1>9, <4>1
      <4>3. DOMAIN changed[s] \cup BeingWritten(s) \cup DOMAIN files[nameOf[s]].positions
              \subseteq DOMAIN records[s] \cup deleted[s]
        BY <3>1 DEF StorageInv, KeysInv
      <4>4. BeingWritten(s)' = BeingWritten(s) /\ files'[nameOf[s]].positions = files[nameOf[s]].positions
        BY <2>5, <3>1 DEF ChangesStay, VersionsStay
      <4>5. DOMAIN changed'[s] \cup BeingWritten(s)' \cup DOMAIN files'[nameOf[s]].positions
              \subseteq DOMAIN records'[s] \cup deleted[s]
        BY <1>5, <4>3, <4>4
      <4> QED BY <1>2, <4>2, <4>5 DEF KeysInv
    <3>3. ASSUME k \notin deleted[s]
          PROVE  VersionInv(s, k)'
      <4>1. k \in BeingWritten(s)' => (sync').todo[k] < changed'[s][k]
        <5>1. k \in BeingWritten(s)' => k \in DOMAIN sync.todo
          BY <1>2 DEF BeingWritten
        <5>2. k \in DOMAIN sync.todo => sync.todo[k] \in 1..clock
          BY DEF DataInv
        <5> QED BY <1>2, <1>3, <1>5, <5>1, <5>2
      <4>2. InFile(s, k)' => LineOf(nameOf[s], k)' < changed'[s][k]
        <5> DEFINE w == files[nameOf[s]].written
                   i == files[nameOf[s]].positions[k]
        <5>1. InFile(s, k)' => i \in DOMAIN w
          BY <1>2, <3>1 DEF FileInv, Positioned, InFile, VersionsStay
        <5>2. w \in Seq(Nat) /\ \A j \in DOMAIN w : w[j] <= clock
          BY <3>1 DEF NameData, FileType
        <5>3. InFile(s, k)' => LineOf(nameOf[s], k)' = w[i]
          BY <1>1, <1>2, <3>1 DEF LineOf, KeysGiven, LinesStay
        <5> HIDE DEF w, i
        <5>4. i \in DOMAIN w => w[i] \in Nat /\ w[i] <= clock
          BY <5>2
        <5> QED BY <1>3, <1>5, <5>1, <5>3, <5>4
      <4>3. records'[s][k] \in 1..clock' /\ k \in DOMAIN changed'[s] /\ changed'[s][k] = records'[s][k]
        BY <1>3, <1>5
      <4>4. k \in BeingWritten(s)' /\ InFile(s, k)' => LineOf(nameOf[s], k)' < (sync').todo[k]
        <5>1. CASE k \in DOMAIN records[s] \ deleted[s]
          <6>1. VersionInv(s, k)
            BY <3>1, <5>1 DEF StorageInv
          <6>2. BeingWritten(s)' = BeingWritten(s) /\ (InFile(s, k)' <=> InFile(s, k))
            BY <1>2, <2>5, <3>1 DEF ChangesStay, InFile, VersionsStay
          <6>3. InFile(s, k) => LineOf(nameOf[s], k)' = LineOf(nameOf[s], k)
            BY <1>2, <3>1 DEF LineOf, InFile, VersionsStay
          <6> QED BY <1>2, <6>1, <6>2, <6>3 DEF VersionInv
        <5>2. CASE k \notin DOMAIN records[s] \cup deleted[s]
          <6>1. k \notin BeingWritten(s)
            BY <3>1, <5>2 DEF StorageInv, KeysInv
          <6> QED BY <2>5, <6>1 DEF ChangesStay
        <5> QED BY <3>3, <5>1, <5>2
      <4> QED BY <4>1, <4>2, <4>3, <4>4 DEF VersionInv
    <3>4. ASSUME NEW j \in DOMAIN records[s] \ deleted[s], j # k
          PROVE  VersionInv(s, j)'
      <4>1. VersionInv(s, j)
        BY <3>1 DEF StorageInv
      <4> QED BY <1>2, <1>3, <1>5, <2>5, <3>1, <3>4, <4>1, VersionStays
    <3> QED BY <1>2, <1>5, <3>2, <3>3, <3>4 DEF StorageInv
  <2> QED BY <1>6, <2>2, <2>3, <2>4, <2>7, <2>8 DEF CleanInv
<1> QED BY <1>2, <1>7, <1>8, <1>9

LEMMA ModifyRecordKeepsFilesInv ==
  ASSUME IInv, FilesInv, NEW s \in Storages, NEW k, ModifyRecord(s, k)
  PROVE  FilesInv'
<1>1. InUse(s) /\ Modify(s, k) /\ files' = files /\ k \in DOMAIN records[s] \cup deleted[s]
  BY DEF ModifyRecord
<1>2. KeysGiven
  BY <1>1, SameFiles DEF FilesInv
<1>3. ~overlap => k \in Int /\ k < files'[nameOf[s]].nextKey
  BY <1>1, InUseIsLive DEF FilesInv, CleanInv, StorageInv, KeysInv
<1> QED BY <1>1, <1>2, <1>3, ModifyKeepsFilesInv

LEMMA StoreKeepsFilesInv ==
  ASSUME IInv, FilesInv, NEW s \in Storages, StoreRecord(s)
  PROVE  FilesInv'
<1> DEFINE m == nameOf[s]
           k == files[m].nextKey
<1>1. /\ InUse(s) /\ Modify(s, k)
      /\ files' = IF IsOpen(m) THEN [files EXCEPT ![m].nextKey = @ + 1] ELSE files
  BY DEF StoreRecord
<1>2. m \in Names /\ s \in Live /\ DataInv
  BY <1>1, InUseIsLive DEF FilesInv
<1>3. CASE IsOpen(m)
  <2>1. files' = [files EXCEPT ![m].nextKey = @ + 1]
    BY <1>1, <1>3
  <2>2. KeysGiven /\ files'[m].nextKey = k + 1 /\ k \in Nat
    BY <1>2, <1>3, <2>1, NextKeyGiven DEF DataInv, NameData
  <2> HIDE DEF k
  <2>3. k \in Int /\ k < files'[m].nextKey
    BY <2>2
  <2> QED BY <1>1, <2>2, <2>3, ModifyKeepsFilesInv
<1>4. CASE ~IsOpen(m)
  <2>1. overlap
    BY <1>2, <1>4 DEF FilesInv, CleanInv, OwnFiles
  <2>2. KeysGiven
    BY <1>1, <1>2, <1>4, SameFiles
  <2> QED BY <1>1, <2>1, <2>2, ModifyKeepsFilesInv
<1> QED BY <1>3, <1>4

-----------------------------------------------------------------------------
(* A record is removed: what is said of it no longer matters.              *)
LEMMA RemoveKeepsFilesInv ==
  ASSUME IInv, FilesInv, NEW s \in Storages, NEW k, RemoveRecord(s, k)
  PROVE  FilesInv'
<1> USE DEF FilesInv
<1>1. s \in Live /\ nameOf[s] \in Names /\ InUse(s) /\ k \in DOMAIN records[s]
  BY InUseIsLive DEF RemoveRecord
<1>2. /\ UNCHANGED <<nameOf, files, disk, sync, fault, overlap, clock, currentlySyncingStorage>>
      /\ (api').at = "queue"
      /\ records' = [records EXCEPT ![s] = Drop(@, k)]
      /\ changed' = [changed EXCEPT ![s] = Drop(@, k)]
      /\ deleted' = [deleted EXCEPT ![s] = @ \cup {k}]
  BY DEF RemoveRecord, history, queues, media, IInv, TypeOK
<1>3. /\ DOMAIN records' = Storages /\ DOMAIN changed' = Storages /\ DOMAIN deleted' = Storages
      /\ records'[s] = Drop(records[s], k) /\ changed'[s] = Drop(changed[s], k)
      /\ deleted'[s] = deleted[s] \cup {k}
      /\ \A t \in Storages \ {s} :
            records'[t] = records[t] /\ changed'[t] = changed[t] /\ deleted'[t] = deleted[t]
  BY <1>2 DEF DataInv, IInv, TypeOK
<1>4. /\ DOMAIN records'[s] = DOMAIN records[s] \ {k}
      /\ DOMAIN changed'[s] = DOMAIN changed[s] \ {k}
      /\ \A j \in DOMAIN records[s] : j # k => records'[s][j] = records[s][j]
      /\ \A j \in DOMAIN changed[s] : j # k => changed'[s][j] = changed[s][j]
  BY <1>3 DEF Drop
<1>5. Live' = Live
  BY <1>2 DEF Live
<1>6. DataInv'
  <2>1. \A n \in Names : NameData(n)'
    BY <1>2 DEF DataInv, NameData, IsOpen
  <2>2. ASSUME NEW t \in Storages
        PROVE  StorageData(t)'
    BY <1>1, <1>2, <1>3, <1>4, <1>5 DEF DataInv, StorageData
  <2> QED BY <1>2, <1>3, <2>1, <2>2 DEF DataInv
<1>7. WriterInv'
  BY <1>2 DEF WriterInv, Writing, Running, IsOpen
<1>8. ASSUME ~overlap
      PROVE  CleanInv'
  <2>1. CleanInv /\ DataInv /\ KeysGiven
    BY <1>2, <1>8, SameFiles
  <2>2. Running' /\ OwnFiles' /\ AddedInv'
    BY <1>2, <1>5, <2>1 DEF CleanInv, OwnFiles, Running, AddedInv, IsOpen
  <2>3. ASSUME NEW n \in Names
        PROVE  FileInv(n)'
    BY <1>2, <2>1, FileStays DEF CleanInv, KeysGiven, WriterStays
  <2>4. \A t : ChangesStay(t)
    BY <1>2 DEF ChangesStay, BeingWritten
  <2>5. \A t \in Live : VersionsStay(nameOf[t])
    BY <2>1, LinesAreVersionsToo, NamesOfLive DEF KeysGiven
  <2>6. clock \in Nat /\ clock' \in Nat /\ clock <= clock'
    BY <1>2 DEF DataInv
  <2>7. ASSUME NEW t \in Live, t # s
        PROVE  StorageInv(t)'
    <3>1. StorageStays(t)
      BY <1>2, <1>3, <2>7, NamesOfLive DEF StorageStays
    <3> QED BY <2>1, <2>4, <2>5, <2>6, <3>1, StorageKept DEF CleanInv
  <2>8. StorageInv(s)'
    <3>1. StorageInv(s) /\ VersionsStay(nameOf[s])
      BY <1>1, <2>1, <2>5 DEF CleanInv
    <3>2. KeysInv(s)'
      <4>1. DOMAIN records'[s] \cup deleted'[s] = DOMAIN records[s] \cup deleted[s]
        BY <1>1, <1>3, <1>4
      <4>2. BeingWritten(s)' = BeingWritten(s)
        BY <2>4 DEF ChangesStay
      <4> QED BY <1>2, <1>4, <3>1, <4>1, <4>2 DEF StorageInv, KeysInv
    <3>3. ASSUME NEW j \in DOMAIN records[s] \ deleted[s], j # k
          PROVE  VersionInv(s, j)'
      <4>1. VersionInv(s, j)
        BY <3>1 DEF StorageInv
      <4> QED BY <1>2, <1>4, <2>4, <2>6, <3>1, <3>3, <4>1, VersionStays
    <3> QED BY <1>3, <1>4, <3>2, <3>3 DEF StorageInv
  <2> QED BY <1>5, <2>2, <2>3, <2>7, <2>8 DEF CleanInv
<1> QED BY <1>2, <1>6, <1>7, <1>8

-----------------------------------------------------------------------------
(* A removed record is read again; the seek flushes.                       *)
LEMMA ReadKeepsFilesInv ==
  ASSUME IInv, FilesInv, Running, ReadRecord
  PROVE  FilesInv'
<1> USE DEF FilesInv
<1>0. api.storage \in Live /\ api.key \in deleted[api.storage]
  BY DEF ReadRecord, IInv, ApiInv, HeldInv, WriterInv
<1> PICK s \in Live : s = api.storage
  BY <1>0
<1> PICK n \in Names : n = nameOf[s]
  BY NamesOfLive
<1>1. /\ UNCHANGED <<nameOf, changed, deleted, files, sync, overlap, clock, currentlySyncingStorage>>
      /\ (api').at = "idle" /\ api.at = "read"
      /\ \/ /\ IsOpen(n) /\ UNCHANGED fault
            /\ disk' = [disk EXCEPT ![n] = files[n].written]
            /\ records' = [records EXCEPT ![s] = Put(@, api.key, files[n].written[api.line])]
         \/ ~IsOpen(n) /\ UNCHANGED <<disk, records>>
  BY DEF ReadRecord, history, queues, Idle, FlushedBySeek
<1>2. s \in Live /\ s \in Storages /\ n \in Names /\ api.key \in deleted[s]
  BY <1>0, NamesOfLive
<1>3. /\ DOMAIN records' = Storages /\ \A t \in Storages \ {s} : records'[t] = records[t]
      /\ DOMAIN records'[s] \in {DOMAIN records[s], DOMAIN records[s] \cup {api.key}}
      /\ \A j \in DOMAIN records[s] : j # api.key => records'[s][j] = records[s][j]
  <2>1. CASE IsOpen(n)
    <3>1. records'[s] = Put(records[s], api.key, files[n].written[api.line])
      BY <1>1, <1>2, <2>1 DEF DataInv
    <3> QED BY <1>1, <1>2, <2>1, <3>1 DEF DataInv, Put
  <2>2. CASE ~IsOpen(n)
    BY <1>1, <2>2 DEF DataInv
  <2> QED BY <2>1, <2>2
<1>4. /\ DOMAIN disk' = Names
      /\ \A m \in Names : disk'[m] = disk[m] \/ disk'[m] = files[m].written
  BY <1>1, <1>2 DEF DataInv
<1>5. Live' = Live /\ KeysGiven /\ clock \in Nat /\ clock' \in Nat /\ clock <= clock'
  BY <1>1, SameFiles DEF Live, DataInv
<1>6. DataInv'
  <2>1. \A m \in Names : NameData(m)'
    BY <1>4, <1>5, NameDataStays
  <2>2. ASSUME NEW t \in Storages
        PROVE  StorageData(t)'
    BY <1>1, <1>5 DEF DataInv, StorageData
  <2> QED BY <1>1, <1>3, <1>4, <2>1, <2>2 DEF DataInv
<1>7. WriterInv'
  BY <1>1 DEF WriterInv, Writing, Running, IsOpen
<1>8. ASSUME ~overlap
      PROVE  CleanInv'
  <2>1. CleanInv /\ DataInv /\ IsOpen(n)
    BY <1>2, <1>8 DEF CleanInv, OwnFiles
  <2>2. Running' /\ OwnFiles' /\ AddedInv'
    BY <1>1, <1>5, <2>1 DEF CleanInv, OwnFiles, Running, AddedInv, IsOpen
  <2>3. ASSUME NEW m \in Names
        PROVE  FileInv(m)'
    BY <1>1, <1>4, <1>5, <2>1, FileStays, FileFlushed DEF CleanInv, KeysGiven, WriterStays
  <2>4. \A t : ChangesStay(t)
    BY <1>1 DEF ChangesStay, BeingWritten
  <2>5. \A t \in Live : VersionsStay(nameOf[t])
    BY <1>5, LinesAreVersionsToo, NamesOfLive DEF KeysGiven
  <2>6. ASSUME NEW t \in Live, t # s
        PROVE  StorageInv(t)'
    <3>1. StorageStays(t)
      BY <1>1, <1>3, <2>6, NamesOfLive DEF StorageStays
    <3> QED BY <1>5, <2>1, <2>4, <2>5, <3>1, StorageKept DEF CleanInv
  <2>7. StorageInv(s)'
    <3>1. StorageInv(s) /\ VersionsStay(nameOf[s])
      BY <1>2, <2>1, <2>5 DEF CleanInv
    <3>2. KeysInv(s)'
      <4>1. DOMAIN records'[s] \cup deleted[s] = DOMAIN records[s] \cup deleted[s]
        BY <1>2, <1>3
      <4>2. BeingWritten(s)' = BeingWritten(s)
        BY <2>4 DEF ChangesStay
      <4> QED BY <1>1, <3>1, <4>1, <4>2 DEF StorageInv, KeysInv
    <3>3. ASSUME NEW j \in DOMAIN records[s] \ deleted[s]
          PROVE  VersionInv(s, j)'
      <4>1. VersionInv(s, j) /\ j # api.key
        BY <1>2, <3>1 DEF StorageInv
      <4> QED BY <1>1, <1>3, <1>5, <2>4, <3>1, <4>1, VersionStays
    <3> QED BY <1>1, <1>2, <1>3, <3>2, <3>3 DEF StorageInv
  <2> QED BY <1>5, <2>2, <2>3, <2>6, <2>7 DEF CleanInv
<1> QED BY <1>1, <1>6, <1>7, <1>8

-----------------------------------------------------------------------------
(* A storage is retrieved.  A file that is opened then is read: its keys   *)
(* are those of its lines, which are on the disk.                          *)
LEMMA OpenedFile ==
  ASSUME NEW n, disk[n] \in Seq(Nat), files'[n] = Opened(disk[n]), disk'[n] = disk[n], ~At(n)'
  PROVE  FileInv(n)'
<1> DEFINE lines == disk[n]
           p == LinesOfKeys(lines, 0)
<1>1. /\ files'[n].written = lines /\ files'[n].positions = p
      /\ files'[n].nextKey = Cardinality(RecordLines(lines))
  BY OpenedIs
<1>2. Cardinality(RecordLines(lines)) \in Nat /\ RecordLines(lines) \subseteq DOMAIN lines
  BY RecordLinesAre DEF RecordLines
<1>3. /\ \A k \in DOMAIN p : /\ p[k] \in RecordLines(lines)
                             /\ k = 0 + Cardinality(RecordsBefore(lines, p[k]))
                             /\ k \in 0..(0 + Cardinality(RecordLines(lines)) - 1)
      /\ \A i \in RecordLines(lines) : \E k \in DOMAIN p : p[k] = i
  <2>1. 0 \in Int
    OBVIOUS
  <2> QED BY <2>1, LinesOfKeysAre
<1> HIDE DEF p
<1>4. Positioned(n)'
  <2>1. \A k \in DOMAIN p : k \in Int /\ k < Cardinality(RecordLines(lines))
    BY <1>2, <1>3
  <2>2. \A j, k \in DOMAIN p : p[j] = p[k] => j = k
    BY <1>3
  <2> QED BY <1>1, <1>2, <1>3, <2>1, <2>2 DEF Positioned
<1>5. \A k \in DOMAIN p : p[k] \in RecordLines(disk'[n]) /\ LineOf(n, k)' = lines[p[k]]
  BY <1>1, <1>3 DEF LineOf
<1>6. Occupied(n)'
  <2>1. \A k : ~Replacing(n, k)'
    BY DEF At, Replacing
  <2>2. \A k \in DOMAIN p : LineOf(n, k)' # BLANK
    BY <1>5 DEF RecordLines
  <2>3. \A i \in RecordLines(lines) : \E k \in DOMAIN p : p[k] = i
    BY <1>3
  <2> QED BY <1>1, <2>1, <2>2, <2>3 DEF Occupied
<1>7. \A k \in DOMAIN p : Saved(n, k)'
  BY <1>1, <1>5 DEF Saved
<1>8. Lags(n)'
  BY <1>1, <1>7 DEF Lags
<1> QED BY <1>4, <1>6, <1>8 DEF FileInv

LEMMA RetrieveKeepsFilesInv ==
  ASSUME IInv, FilesInv, NEW n \in Names, NEW s \in Storages, RetrieveStorage(n, s)
  PROVE  FilesInv'
<1> USE DEF FilesInv
<1>1. /\ UNCHANGED <<changed, deleted, disk, sync, fault, clock, currentlySyncingStorage, api>>
      /\ s \notin Live /\ nameOf' = [nameOf EXCEPT ![s] = n]
      /\ overlap' = (overlap \/ IsOpen(n)) /\ api.at = "idle"
  BY DEF RetrieveStorage, queues, Idle
<1>2. /\ nameOf'[s] = n /\ \A t \in Storages \ {s} : nameOf'[t] = nameOf[t]
      /\ DOMAIN nameOf = Storages
  BY <1>1 DEF IInv, TypeOK
<1>3. Live' = Live \cup {s}
  BY <1>1, <1>2, NullIsNoStorage DEF Live
<1>4. /\ DOMAIN files' = Names /\ DOMAIN records' = Storages
      /\ \A m \in Names \ {n} : files'[m] = files[m]
      /\ \A t \in Storages \ {s} : records'[t] = records[t]
  BY DEF RetrieveStorage, DataInv
<1>5. clock \in Nat /\ clock' \in Nat /\ clock <= clock' /\ NameData(n)
  BY <1>1 DEF DataInv
<1>6. /\ FileType(files'[n]) /\ files'[n].nextKey \in Nat
      /\ files'[n].written \in {files[n].written, disk[n]}
  <2>1. CASE IsOpen(n)
    <3>1. files' = [files EXCEPT ![n].nextKey = @ + Cardinality(RecordLines(disk[n]))]
      BY <2>1 DEF RetrieveStorage
    <3>2. files'[n] = [files[n] EXCEPT !.nextKey = @ + Cardinality(RecordLines(disk[n]))]
      BY <3>1 DEF DataInv
    <3>3. /\ DOMAIN files'[n] = DOMAIN files[n]
          /\ files'[n].nextKey = files[n].nextKey + Cardinality(RecordLines(disk[n]))
          /\ files'[n].written = files[n].written
      BY <1>5, <3>2 DEF NameData, FileType
    <3>4. files[n].nextKey \in Nat /\ Cardinality(RecordLines(disk[n])) \in Nat
      BY <1>5, <2>1, RecordLinesAre DEF NameData
    <3> QED BY <1>5, <3>3, <3>4 DEF NameData, FileType
  <2>2. CASE ~IsOpen(n)
    <3>1. files'[n] = Opened(disk[n])
      BY <2>2 DEF RetrieveStorage, DataInv
    <3> QED BY <1>5, <3>1, OpenedIs DEF NameData
  <2> QED BY <2>1, <2>2
<1>7. IsOpen(n)' /\ \A m \in Names \ {n} : IsOpen(m)' <=> IsOpen(m)
  BY <1>4, <1>6, OpenHasKey DEF IsOpen
<1>8. DataInv'
  <2>1. ASSUME NEW m \in Names
        PROVE  NameData(m)'
    <3>1. CASE m = n
      BY <1>1, <1>5, <1>6, <3>1 DEF NameData
    <3>2. CASE m # n
      BY <1>1, <1>4, <1>7, <3>2 DEF DataInv, NameData
    <3> QED BY <3>1, <3>2
  <2>2. ASSUME NEW t \in Storages
        PROVE  StorageData(t)'
    BY <1>1, <1>3 DEF DataInv, StorageData
  <2> QED BY <1>1, <1>4, <2>1, <2>2 DEF DataInv
<1>9. currentlySyncingStorage # s /\ (Writing => currentlySyncingStorage \in Live)
  <2>1. currentlySyncingStorage # NULL => currentlySyncingStorage \in Live
    BY DEF IInv, QueueInv
  <2> QED BY <1>1, <2>1, NullIsNoStorage, NamesOfLive DEF Writing
<1>10. Writing => sync.name \in Names /\ nameOf'[currentlySyncingStorage] = nameOf[currentlySyncingStorage]
  BY <1>2, <1>9, NamesOfLive DEF WriterInv
<1>11. WriterInv'
  BY <1>1, <1>7, <1>10 DEF WriterInv, Writing, Running
<1>12. ASSUME ~overlap'
       PROVE  CleanInv'
  <2>1. CleanInv /\ DataInv /\ WriterInv /\ ~IsOpen(n)
    BY <1>1, <1>12
  <2>2. \A t \in Live : nameOf[t] # n /\ nameOf'[t] = nameOf[t] /\ t \in Storages
    BY <1>1, <1>2, <2>1, NamesOfLive DEF CleanInv, OwnFiles
  <2>3. files'[n] = Opened(disk[n]) /\ records'[s] = RecordsOf(disk[n], 0)
    BY <2>1 DEF RetrieveStorage, DataInv
  <2>4. Running' /\ OwnFiles'
    BY <1>1, <1>2, <1>3, <1>7, <2>1, <2>2, NamesOfLive DEF CleanInv, OwnFiles, Running
  <2>5. ~At(n)
    BY <1>9, <2>1, <2>2 DEF At, WriterInv, Writing
  <2>6. AddedInv'
    BY <1>1, <1>4, <1>10, <2>1, <2>5 DEF CleanInv, AddedInv, At, Writing
  <2>7. ASSUME NEW m \in Names
        PROVE  FileInv(m)'
    <3>1. CASE m = n
      <4>1. ~At(n)'
        BY <1>1, <2>5 DEF At
      <4> QED BY <1>1, <1>5, <2>3, <3>1, <4>1, OpenedFile DEF NameData
    <3>2. CASE m # n
      <4>1. LinesStay(m)
        BY <1>4, <3>2 DEF LinesStay, DataInv, NameData, FileType
      <4> QED BY <1>1, <2>1, <4>1, FileStays DEF CleanInv, WriterStays
    <3> QED BY <3>1, <3>2
  <2>8. ASSUME NEW t \in Live
        PROVE  StorageInv(t)'
    <3>1. StorageStays(t)
      BY <1>1, <1>4, <2>2 DEF StorageStays
    <3>2. ChangesStay(t)
      BY <1>1 DEF ChangesStay, BeingWritten
    <3>3. VersionsStay(nameOf[t])
      BY <1>4, <2>2, NamesOfLive DEF VersionsStay, DataInv, NameData, FileType
    <3> QED BY <1>5, <2>1, <3>1, <3>2, <3>3, StorageKept DEF CleanInv
  <2>9. StorageInv(s)'
    <3> DEFINE lines == disk[n]
               p == LinesOfKeys(lines, 0)
    <3>1. /\ changed'[s] = changed[s] /\ DOMAIN changed'[s] = {}
          /\ deleted'[s] = {} /\ BeingWritten(s)' = {}
      BY <1>1, <1>9 DEF IInv, FreeInv, DataInv, StorageData, BeingWritten
    <3>2. /\ DOMAIN records'[s] = DOMAIN p /\ \A k \in DOMAIN p : records'[s][k] = lines[p[k]]
          /\ files'[n].written = lines /\ files'[n].positions = p
          /\ files'[n].nextKey = Cardinality(RecordLines(lines))
      BY <1>5, <2>3, OpenedIs DEF RecordsOf, NameData
    <3>3. \A k \in DOMAIN p : p[k] \in RecordLines(lines)
      <4>1. 0 \in Int /\ lines \in Seq(Nat)
        BY <1>5 DEF NameData
      <4> QED BY <4>1, LinesOfKeysAre
    <3> HIDE DEF p
    <3>4. \A k \in DOMAIN p : lines[p[k]] \in 1..clock
      <4>1. \A i \in RecordLines(lines) : lines[i] \in Nat /\ lines[i] <= clock /\ lines[i] # 0
        <5> DEFINE d == disk[n]
        <5>1. d \in Seq(Nat) /\ \A i \in DOMAIN d : d[i] <= clock
          BY <1>5 DEF NameData
        <5> HIDE DEF d
        <5>2. \A i \in RecordLines(d) : d[i] \in Nat /\ d[i] <= clock /\ d[i] # 0
          BY <5>1 DEF RecordLines, BLANK
        <5> QED BY <5>2 DEF d
      <4> QED BY <1>5, <3>3, <4>1
    <3>5. KeysInv(s)'
      <4>1. Positioned(n)'
        BY <2>7 DEF FileInv
      <4> QED BY <1>2, <3>1, <3>2, <4>1 DEF KeysInv, Positioned
    <3>6. ASSUME NEW k \in DOMAIN p
          PROVE  VersionInv(s, k)'
      BY <1>1, <1>2, <3>1, <3>2, <3>4 DEF VersionInv, InFile, LineOf
    <3> QED BY <3>1, <3>2, <3>5, <3>6 DEF StorageInv
  <2> QED BY <1>3, <2>4, <2>6, <2>7, <2>8, <2>9 DEF CleanInv
<1> QED BY <1>8, <1>11, <1>12

-----------------------------------------------------------------------------
(* A storage is destroyed, and its file closed: after a release, when      *)
(* nothing is to be written, or by the sync thread, when all is written.   *)
LEMMA CloseFileIs ==
  ASSUME DataInv, NEW n \in Names, CloseFile(n)
  PROVE  /\ DOMAIN disk' = Names /\ DOMAIN files' = Names /\ ~IsOpen(n)'
         /\ \A m \in Names \ {n} : files'[m] = files[m] /\ disk'[m] = disk[m]
         /\ IsOpen(n) => disk'[n] = Closed(files[n].written)
         /\ ~IsOpen(n) => UNCHANGED media
BY DEF DataInv, CloseFile, IsOpen, media

LEMMA ClosedData ==
  ASSUME DataInv, NEW n \in Names, disk'[n] = Closed(files[n].written), files'[n] = NoFile,
         clock' = clock
  PROVE  NameData(n)'
<1> DEFINE w == files[n].written
<1>1. w \in Seq(Nat) /\ \A i \in DOMAIN w : w[i] <= clock
  BY DEF DataInv, NameData, FileType
<1>2. /\ Closed(w) \in Seq(Nat)
      /\ \A i \in DOMAIN Closed(w) : \E j \in DOMAIN w : Closed(w)[i] = w[j]
  BY <1>1, ClosedIs
<1>3. disk'[n] = Closed(w)
  OBVIOUS
<1> HIDE DEF w
<1>4. \A i \in DOMAIN Closed(w) : Closed(w)[i] <= clock
  BY <1>1, <1>2
<1>5. DOMAIN NoFile.written = {}
  BY NoFileIs
<1> QED BY <1>2, <1>3, <1>4, <1>5, NoFileIs DEF NameData, IsOpen

LEMMA NoFileInv ==
  ASSUME NEW n, files'[n] = NoFile, ~At(n)'
  PROVE  FileInv(n)'
<1>1. DOMAIN files'[n].positions = {} /\ files'[n].written = <<>>
  BY NoFileIs
<1>2. RecordLines(files'[n].written) = {}
  BY <1>1 DEF RecordLines
<1> QED BY <1>1, <1>2 DEF FileInv, Positioned, Occupied, Lags, At

LEMMA DestroyingKeepsFilesInv ==
  ASSUME IInv, FilesInv, Running, NEW s \in Live, NEW n \in Names, nameOf[s] = n,
         Free(s), CloseFile(n), clock' = clock, overlap' = overlap,
         (api').at = "read" => (api').key \in deleted'[(api').storage],
         \/ /\ UNCHANGED <<sync, currentlySyncingStorage>> /\ currentlySyncingStorage # s
            /\ Running' <=> ~WriterUses(n)
         \/ /\ sync.at = "write" /\ DOMAIN sync.todo = {} /\ sync' = AtRest
            /\ Running'
  PROVE  FilesInv'
<1> USE DEF FilesInv
<1>1. s \in Storages
  BY NamesOfLive
<1>2. /\ DOMAIN records' = Storages /\ DOMAIN deleted' = Storages
      /\ nameOf'[s] = NULL /\ DOMAIN changed'[s] = {} /\ deleted'[s] = {}
      /\ \A t \in Storages \ {s} : /\ nameOf'[t] = nameOf[t] /\ records'[t] = records[t]
                                   /\ changed'[t] = changed[t] /\ deleted'[t] = deleted[t]
  BY <1>1 DEF Free, DataInv, IInv, TypeOK, NoRecords
<1>3. Live' = Live \ {s}
  BY <1>1, <1>2 DEF Live
<1>4. /\ DOMAIN disk' = Names /\ DOMAIN files' = Names /\ ~IsOpen(n)'
      /\ \A m \in Names \ {n} : files'[m] = files[m] /\ disk'[m] = disk[m]
      /\ IsOpen(n) => disk'[n] = Closed(files[n].written)
      /\ ~IsOpen(n) => UNCHANGED media
  BY CloseFileIs
<1>5. DataInv'
  <2>1. ASSUME NEW m \in Names
        PROVE  NameData(m)'
    <3>1. CASE m = n /\ IsOpen(n)
      <4>1. files'[n] = NoFile
        BY <1>4 DEF IsOpen
      <4> QED BY <1>4, <3>1, <4>1, ClosedData
    <3>2. CASE m # n \/ ~IsOpen(n)
      BY <1>4, <3>2 DEF DataInv, NameData, IsOpen, media
    <3> QED BY <3>1, <3>2
  <2>2. ASSUME NEW t \in Storages
        PROVE  StorageData(t)'
    BY <1>2, <1>3 DEF DataInv, StorageData
  <2>3. \A k \in DOMAIN (sync').todo : (sync').todo[k] \in 1..clock'
    <3>1. sync' = AtRest => DOMAIN (sync').todo = {}
      BY DEF AtRest, NoRecords
    <3> QED BY <3>1 DEF DataInv
  <2> QED BY <1>2, <1>4, <2>1, <2>2, <2>3 DEF DataInv
<1>6. Writing' => /\ UNCHANGED <<sync, currentlySyncingStorage>> /\ Writing
                  /\ Running' <=> ~WriterUses(n)
                  /\ currentlySyncingStorage \in Live \ {s}
  BY NamesOfLive DEF Writing, AtRest
<1>7. WriterInv'
  <2>1. ~Writing' => DOMAIN (sync').todo = {}
    BY DEF AtRest, NoRecords, WriterInv, Writing
  <2>2. Writing' => (sync').name = nameOf'[currentlySyncingStorage']
    BY <1>2, <1>6, NamesOfLive DEF WriterInv
  <2>3. (sync').at \in {"append", "place"} => (sync').key \in DOMAIN (sync').todo
    BY <1>6 DEF WriterInv, Writing
  <2>4. ASSUME Running', (sync').at \in {"append", "place"}
        PROVE  IsOpen(sync.name)' /\ (sync').name = sync.name
    <3>1. UNCHANGED sync /\ ~WriterUses(n) /\ currentlySyncingStorage \in Live
      BY <1>6, <2>4 DEF Running, Writing
    <3>2. IsOpen(sync.name) /\ sync.name \in Names
      BY <2>4, <3>1, NamesOfLive DEF WriterInv, Writing
    <3>3. sync.name # n
      BY <2>4, <3>1, <3>2 DEF WriterUses
    <3> QED BY <1>4, <3>1, <3>2, <3>3 DEF IsOpen
  <2> QED BY <2>1, <2>2, <2>3, <2>4 DEF WriterInv, Writing
<1>8. ASSUME ~overlap
      PROVE  CleanInv'
  <2>1. CleanInv /\ DataInv /\ WriterInv
    BY <1>8
  <2>2. \A t \in Live \ {s} : nameOf[t] # n /\ nameOf[t] \in Names /\ nameOf'[t] = nameOf[t] /\ t \in Storages
    BY <1>2, <2>1, NamesOfLive DEF CleanInv, OwnFiles
  <2>3. ~At(n)' /\ (Writing' => sync.name \in Names \ {n} /\ ~WriterUses(n))
    BY <1>6, <2>1, <2>2, NamesOfLive DEF At, Writing, WriterInv, WriterUses
  <2>4. Running'
    BY <2>3 DEF WriterUses, Writing
  <2>5. Running' /\ OwnFiles'
    BY <1>3, <1>4, <2>1, <2>2, <2>4 DEF CleanInv, OwnFiles, Running, IsOpen
  <2>6. AddedInv'
    BY <1>4, <1>6, <2>1, <2>3 DEF CleanInv, AddedInv, Writing
  <2>7. ASSUME NEW m \in Names
        PROVE  FileInv(m)'
    <3>1. CASE m = n
      BY <1>4, <2>3, <3>1, NoFileInv DEF IsOpen
    <3>2. CASE m # n
      <4>1. LinesStay(m)
        BY <1>4, <3>2 DEF LinesStay, DataInv, NameData, FileType
      <4>2. WriterStays(m)
        BY DEF WriterStays, At, AtRest
      <4> QED BY <1>4, <2>1, <3>2, <4>1, <4>2, FileStays DEF CleanInv
    <3> QED BY <3>1, <3>2
  <2>8. ASSUME NEW t \in Live \ {s}
        PROVE  StorageInv(t)'
    <3>1. StorageStays(t)
      BY <1>2, <2>2 DEF StorageStays
    <3>2. ChangesStay(t)
      <4>1. CASE UNCHANGED <<sync, currentlySyncingStorage>>
        BY <4>1 DEF ChangesStay, BeingWritten
      <4>2. CASE DOMAIN sync.todo = {} /\ sync' = AtRest
        <5>1. DOMAIN (sync').todo = {}
          BY <4>2 DEF AtRest, NoRecords
        <5>2. BeingWritten(t) = {} /\ BeingWritten(t)' = {}
          BY <4>2, <5>1 DEF BeingWritten
        <5> QED BY <5>2 DEF ChangesStay
      <4> QED BY <4>1, <4>2
    <3>3. VersionsStay(nameOf[t])
      BY <1>4, <2>2 DEF VersionsStay, DataInv, NameData, FileType
    <3>4. clock \in Nat /\ clock' \in Nat /\ clock <= clock'
      BY DEF DataInv
    <3> QED BY <2>1, <3>1, <3>2, <3>3, <3>4, StorageKept DEF CleanInv
  <2> QED BY <1>3, <2>5, <2>6, <2>7, <2>8 DEF CleanInv
<1> QED BY <1>5, <1>7, <1>8

-----------------------------------------------------------------------------
(* The start of a process: no storage, no open file.                       *)
LEMMA StartKeepsFilesInv ==
  ASSUME DataInv, Started,
         DOMAIN disk' = Names,
         \A n \in Names : disk'[n] = disk[n] \/ disk'[n] = Closed(files[n].written)
  PROVE  FilesInv'
<1>1. /\ Live' = {} /\ clock' = clock /\ sync' = AtRest /\ (api').at = "idle" /\ Running'
      /\ files' = [n \in Names |-> NoFile] /\ records' = [s \in Storages |-> NoRecords]
      /\ changed' = [s \in Storages |-> NoRecords] /\ deleted' = [s \in Storages |-> {}]
  BY DEF Started, Live, Idle, Running
<1>2. (sync').at = "check" /\ DOMAIN (sync').todo = {}
  BY <1>1 DEF AtRest, NoRecords
<1>3. DataInv'
  <2>1. ASSUME NEW n \in Names
        PROVE  NameData(n)'
    <3>1. CASE disk'[n] = Closed(files[n].written)
      BY <1>1, <3>1, ClosedData
    <3>2. CASE disk'[n] = disk[n]
      BY <1>1, <3>2, NoFileIs DEF DataInv, NameData, IsOpen
    <3> QED BY <3>1, <3>2
  <2>2. \A s \in Storages : StorageData(s)'
    BY <1>1 DEF StorageData, NoRecords
  <2> QED BY <1>1, <1>2, <2>1, <2>2 DEF DataInv
<1>4. WriterInv'
  BY <1>1, <1>2 DEF WriterInv, Writing
<1>5. CleanInv'
  BY <1>1, <1>2, NoFileInv DEF CleanInv, OwnFiles, AddedInv, At
<1> QED BY <1>3, <1>4, <1>5 DEF FilesInv

LEMMA RestartKeepsFilesInv ==
  ASSUME FilesInv, Restart \/ Crash
  PROVE  FilesInv'
<1>1. DataInv /\ Started
  BY DEF FilesInv, Restart, Crash
<1>2. DOMAIN disk' = Names /\ \A n \in Names : disk'[n] = disk[n] \/ disk'[n] = Closed(files[n].written)
  BY <1>1 DEF Restart, Crash, DataInv
<1> QED BY <1>1, <1>2, StartKeepsFilesInv

LEMMA InitFilesInv == Init => FilesInv
<1> SUFFICES ASSUME Init PROVE FilesInv
  OBVIOUS
<1>1. /\ Live = {} /\ sync = AtRest /\ api.at = "idle" /\ Running
      /\ files = [n \in Names |-> NoFile] /\ records = [s \in Storages |-> NoRecords]
      /\ changed = [s \in Storages |-> NoRecords] /\ deleted = [s \in Storages |-> {}]
      /\ disk = [n \in Names |-> FirstLines] /\ clock = Len(FirstLines)
  BY DEF Init, Live, Idle, Running
<1>2. sync.at = "check" /\ DOMAIN sync.todo = {}
  BY <1>1 DEF AtRest, NoRecords
<1>3. /\ FirstLines \in Seq(Nat) /\ Len(FirstLines) \in Nat
      /\ \A i \in DOMAIN FirstLines : FirstLines[i] <= Len(FirstLines)
  <2>1. FirstLines \in Seq(0..Len(FirstLines))
    BY LinesAreVersions
  <2>2. /\ Len(FirstLines) \in Nat /\ DOMAIN FirstLines = 1..Len(FirstLines)
        /\ \A i \in DOMAIN FirstLines : FirstLines[i] \in 0..Len(FirstLines)
    BY <2>1
  <2>3. FirstLines \in [1..Len(FirstLines) -> 0..Len(FirstLines)]
    BY <2>1
  <2>4. FirstLines \in [1..Len(FirstLines) -> Nat]
    BY <2>2, <2>3
  <2> QED BY <2>2, <2>4
<1>4. DataInv
  <2>1. \A n \in Names : NameData(n)
    BY <1>1, <1>3, NoFileIs DEF NameData, IsOpen
  <2>2. \A s \in Storages : StorageData(s)
    BY <1>1 DEF StorageData, NoRecords
  <2> QED BY <1>1, <1>2, <1>3, <2>1, <2>2 DEF DataInv
<1>5. WriterInv
  BY <1>1, <1>2 DEF WriterInv, Writing
<1>6. ASSUME NEW n \in Names
      PROVE  FileInv(n)
  <2>1. DOMAIN files[n].positions = {} /\ files[n].written = <<>>
    BY <1>1, NoFileIs
  <2>2. RecordLines(files[n].written) = {}
    BY <2>1 DEF RecordLines
  <2> QED BY <1>2, <2>1, <2>2 DEF FileInv, Positioned, Occupied, Lags
<1>7. CleanInv
  BY <1>1, <1>2, <1>6 DEF CleanInv, OwnFiles, AddedInv
<1> QED BY <1>4, <1>5, <1>7 DEF FilesInv

-----------------------------------------------------------------------------
(* The sync thread takes the changes of a storage: what waited is being    *)
(* written.                                                                *)
LEMMA SwapKeepsFilesInv ==
  ASSUME IInv, FilesInv, SyncSwaps
  PROVE  FilesInv'
<1> USE DEF FilesInv
<1>0. currentlySyncingStorage \in Live /\ sync.at = "swap"
  BY NamesOfLive DEF SyncSwaps
<1> PICK s \in Live : s = currentlySyncingStorage
  BY <1>0
<1>1. /\ UNCHANGED <<nameOf, records, deleted, files, disk, api, clock, overlap, currentlySyncingStorage, fault>>
      /\ sync' = [sync EXCEPT !.at = "write", !.name = nameOf[s], !.todo = changed[s]]
      /\ changed' = [changed EXCEPT ![s] = NoRecords]
  BY <1>0 DEF SyncSwaps, queues, media
<1>2. s \in Storages /\ nameOf[s] \in Names
  BY NamesOfLive
<1>3. /\ (sync').at = "write" /\ (sync').name = nameOf[s] /\ (sync').todo = changed[s]
      /\ DOMAIN changed' = Storages /\ DOMAIN changed'[s] = {}
      /\ \A t \in Storages \ {s} : changed'[t] = changed[t]
  BY <1>1, <1>2 DEF IInv, TypeOK, NoRecords
<1>4. Live' = Live /\ DOMAIN sync.todo = {}
  BY <1>0, <1>1 DEF Live, WriterInv, Writing
<1>5. DataInv'
  <2>1. \A n \in Names : NameData(n)'
    BY <1>1 DEF DataInv, NameData, IsOpen
  <2>2. \A t \in Storages : StorageData(t)'
    BY <1>1, <1>3, <1>4 DEF DataInv, StorageData
  <2>3. \A k \in DOMAIN (sync').todo : (sync').todo[k] \in 1..clock'
    BY <1>1, <1>2, <1>3 DEF DataInv, StorageData
  <2> QED BY <1>1, <2>1, <2>2, <2>3 DEF DataInv
<1>6. WriterInv'
  BY <1>1, <1>3 DEF WriterInv, Writing
<1>7. ASSUME ~overlap
      PROVE  CleanInv'
  <2>1. CleanInv /\ KeysGiven /\ DataInv
    BY <1>1, <1>7, SameFiles
  <2>2. Running' /\ OwnFiles' /\ AddedInv'
    BY <1>1, <1>3, <1>4, <2>1 DEF CleanInv, OwnFiles, Running, AddedInv, IsOpen
  <2>3. ASSUME NEW n \in Names
        PROVE  FileInv(n)'
    <3>1. WriterStays(n)
      BY <1>0, <1>3 DEF WriterStays, At
    <3> QED BY <1>1, <2>1, <3>1, FileStays DEF CleanInv, KeysGiven
  <2>4. \A t \in Live : VersionsStay(nameOf[t])
    BY <2>1, LinesAreVersionsToo, NamesOfLive DEF KeysGiven
  <2>5. \A t \in Live \ {s} : BeingWritten(t) = {} /\ BeingWritten(t)' = {}
    BY <1>1 DEF BeingWritten
  <2>6. ASSUME NEW t \in Live \ {s}
        PROVE  StorageInv(t)'
    <3>1. StorageStays(t)
      BY <1>1, <1>3, NamesOfLive DEF StorageStays
    <3>2. ChangesStay(t)
      BY <2>5 DEF ChangesStay
    <3>3. clock \in Nat /\ clock' \in Nat /\ clock <= clock'
      BY <1>1 DEF DataInv
    <3> QED BY <2>1, <2>4, <3>1, <3>2, <3>3, StorageKept DEF CleanInv
  <2>7. StorageInv(s)'
    <3>1. BeingWritten(s) = {} /\ BeingWritten(s)' = DOMAIN changed[s]
      BY <1>1, <1>3, <1>4 DEF BeingWritten
    <3>2. KeysInv(s)'
      BY <1>1, <1>3, <2>1, <3>1 DEF CleanInv, StorageInv, KeysInv
    <3>3. ASSUME NEW k \in DOMAIN records[s] \ deleted[s]
          PROVE  VersionInv(s, k)'
      <4>1. VersionInv(s, k)
        BY <2>1 DEF CleanInv, StorageInv
      <4> QED BY <1>1, <1>3, <3>1, <4>1 DEF VersionInv, InFile, LineOf
    <3> QED BY <1>1, <3>2, <3>3 DEF StorageInv
  <2> QED BY <1>4, <2>2, <2>3, <2>6, <2>7 DEF CleanInv
<1> QED BY <1>1, <1>5, <1>6, <1>7

-----------------------------------------------------------------------------
(* writeRecord: the old line is blanked.                                   *)

(* A step of the sync thread on the file m: all else stays.                *)
WritesOnly(m) ==
  /\ UNCHANGED <<retrieved, memory, queues, api, clock, fault, history>>
  /\ DOMAIN files' = Names /\ DOMAIN disk' = Names
  /\ \A n \in Names \ {m} : files'[n] = files[n] /\ disk'[n] = disk[n]
  /\ (sync').name = sync.name /\ sync.name = m

LEMMA OthersKept ==
  ASSUME IInv, CleanInv, DataInv, WriterInv, NEW m \in Names, WritesOnly(m),
         Writing, NEW s \in Live, s = currentlySyncingStorage
  PROVE  /\ nameOf[s] = m /\ Live' = Live /\ Running'
         /\ \A n \in Names \ {m} : FileInv(n)'
         /\ \A t \in Live \ {s} : StorageInv(t)'
<1>1. /\ UNCHANGED <<nameOf, records, changed, deleted, clock, fault, currentlySyncingStorage>>
      /\ (sync').name = m /\ sync.name = m
  BY DEF WritesOnly, memory, queues
<1>2. nameOf[s] = m /\ Live' = Live /\ Running'
  BY <1>1 DEF WriterInv, CleanInv, Running, Live
<1>3. ASSUME NEW n \in Names \ {m}
      PROVE  LinesStay(n) /\ VersionsStay(n) /\ WriterStays(n) /\ disk'[n] = disk[n] /\ FileInv(n)
  <2>1. LinesStay(n)
    BY DEF WritesOnly, LinesStay, DataInv, NameData, FileType
  <2>2. WriterStays(n)
    BY <1>1 DEF WriterStays, At
  <2> QED BY <2>1, <2>2, LinesAreVersionsToo DEF WritesOnly, CleanInv
<1>4. \A n \in Names \ {m} : FileInv(n)'
  BY <1>3, FileStays
<1>5. ASSUME NEW t \in Live \ {s}
      PROVE  StorageInv(t)'
  <2>1. nameOf[t] \in Names \ {m}
    BY <1>2, NamesOfLive DEF CleanInv, OwnFiles
  <2>2. VersionsStay(nameOf[t])
    BY <1>3, <2>1
  <2>3. StorageStays(t)
    BY <1>1 DEF StorageStays
  <2>4. ChangesStay(t)
    BY <1>1 DEF ChangesStay, BeingWritten
  <2>5. clock \in Nat /\ clock' \in Nat /\ clock <= clock'
    BY <1>1 DEF DataInv
  <2> QED BY <2>2, <2>3, <2>4, <2>5, StorageKept DEF CleanInv
<1> QED BY <1>2, <1>4, <1>5

LEMMA StorageDataStays ==
  ASSUME DataInv, UNCHANGED <<memory, clock>>
  PROVE  \A s \in Storages : StorageData(s)'
BY DEF DataInv, StorageData, memory, Live

(* Without a file (it was closed under the sync thread) nothing happens.   *)
LEMMA SkipKeepsFilesInv ==
  ASSUME IInv, FilesInv, Writing, NEW k, UNCHANGED <<retrieved, memory, queues, media, api, clock, fault, history>>,
         ~IsOpen(sync.name), sync' = [sync EXCEPT !.todo = Drop(@, k)], sync.at = "write"
  PROVE  FilesInv'
<1>1. /\ (sync').at = "write" /\ (sync').name = sync.name /\ (sync').todo = Drop(sync.todo, k)
  BY DEF IInv, TypeOK
<1>2. DataInv'
  <2>1. \A n \in Names : NameData(n)'
    BY DEF FilesInv, DataInv, NameData, IsOpen, media
  <2>2. \A j \in DOMAIN (sync').todo : (sync').todo[j] \in 1..clock'
    BY <1>1 DEF FilesInv, DataInv, Drop
  <2> QED BY <2>1, <2>2, StorageDataStays DEF FilesInv, DataInv, media, memory
<1>3. WriterInv'
  BY <1>1 DEF FilesInv, WriterInv, Writing, memory, queues
<1>4. overlap
  BY NamesOfLive DEF FilesInv, WriterInv, CleanInv, OwnFiles, Writing
<1> QED BY <1>2, <1>3, <1>4 DEF FilesInv, history

LEMMA BlankKeepsFilesInv ==
  ASSUME IInv, FilesInv, NEW k \in DOMAIN sync.todo, SyncBlanks(k), IsOpen(sync.name)
  PROVE  FilesInv'
<1> USE DEF FilesInv
<1>0. currentlySyncingStorage \in Live /\ sync.at = "write" /\ sync.name \in Names /\ Writing
  BY NamesOfLive DEF SyncBlanks, WriterInv, Writing
<1> PICK m \in Names : m = sync.name
  BY <1>0
<1> PICK s \in Live : s = currentlySyncingStorage
  BY <1>0
<1> DEFINE f == files[m]
           g == Blanked(f, k)
<1>1. /\ UNCHANGED <<retrieved, memory, queues, api, clock, fault, history>>
      /\ disk' = IF k \in DOMAIN f.positions THEN [disk EXCEPT ![m] = f.written] ELSE disk
      /\ files' = [files EXCEPT ![m] = g]
      /\ sync' = [sync EXCEPT !.at = "append", !.key = k]
  BY DEF SyncBlanks, FlushedBySeek
<1>2. /\ (sync').at = "append" /\ (sync').key = k /\ (sync').name = m /\ (sync').todo = sync.todo
  BY <1>1 DEF IInv, TypeOK
<1>3. FileType(f) /\ f.nextKey \in Nat /\ clock \in Nat /\ NameData(m)
  BY DEF DataInv, NameData
<1>4. WritesOnly(m) /\ files'[m] = g
  BY <1>1, <1>2 DEF WritesOnly, DataInv
<1>5. /\ FileType(g) /\ g.positions = f.positions /\ g.nextKey = f.nextKey
      /\ DOMAIN g.written = DOMAIN f.written
      /\ k \in DOMAIN f.positions =>
           \A i \in DOMAIN f.written : g.written[i] = IF i = f.positions[k] THEN BLANK ELSE f.written[i]
      /\ k \notin DOMAIN f.positions => g = f
      /\ \A i \in DOMAIN f.written : g.written[i] \in {BLANK, f.written[i]}
  BY <1>3, BlankedIs
<1>6. /\ k \in DOMAIN f.positions => disk'[m] = f.written
      /\ k \notin DOMAIN f.positions => disk'[m] = disk[m]
  BY <1>1 DEF DataInv
<1>7. IsOpen(m)'
  BY <1>3, <1>4, <1>5, OpenHasKey DEF IsOpen
<1> HIDE DEF g
<1>8. DataInv'
  <2>1. NameData(m)'
    <3>1. disk'[m] \in Seq(Nat) /\ \A i \in DOMAIN disk'[m] : disk'[m][i] <= clock
      BY <1>3, <1>6 DEF NameData, FileType
    <3>2. \A i \in DOMAIN g.written : g.written[i] <= clock
      BY <1>3, <1>5 DEF NameData, BLANK
    <3> QED BY <1>1, <1>3, <1>4, <1>5, <3>1, <3>2 DEF NameData
  <2>2. \A n \in Names \ {m} : NameData(n)'
    BY <1>1, <1>4 DEF WritesOnly, DataInv, NameData, IsOpen
  <2>3. \A t \in Storages : StorageData(t)'
    BY <1>1, StorageDataStays
  <2> QED BY <1>1, <1>2, <1>4, <2>1, <2>2, <2>3 DEF WritesOnly, DataInv, memory
<1>9. WriterInv'
  BY <1>1, <1>2, <1>7 DEF WriterInv, Writing, memory, queues, Running
<1>10. ASSUME ~overlap
       PROVE  CleanInv'
  <2>1. CleanInv /\ DataInv /\ WriterInv
    BY <1>10
  <2>2. /\ nameOf[s] = m /\ Live' = Live /\ Running'
        /\ \A n \in Names \ {m} : FileInv(n)'
        /\ \A t \in Live \ {s} : StorageInv(t)'
    BY <1>0, <1>4, <2>1, OthersKept
  <2>3. FileInv(m) /\ StorageInv(s)
    BY <2>1 DEF CleanInv
  <2>4. OwnFiles' /\ AddedInv'
    BY <1>1, <1>2, <1>4, <1>7, <2>1, <2>2, NamesOfLive
       DEF CleanInv, OwnFiles, AddedInv, memory, WritesOnly, IsOpen
  <2>5. Positioned(m)'
    BY <1>4, <1>5, <2>3 DEF FileInv, Positioned
  <2>6. \A j \in DOMAIN f.positions : /\ f.positions[j] \in DOMAIN f.written
                                      /\ LineOf(m, j) = f.written[f.positions[j]]
                                      /\ LineOf(m, j) # BLANK
    BY <1>0, <2>3 DEF FileInv, Positioned, Occupied, LineOf, Replacing
  <2>7. ASSUME NEW j \in DOMAIN f.positions, j # k
        PROVE  LineOf(m, j)' = LineOf(m, j) /\ g.written[f.positions[j]] = f.written[f.positions[j]]
    <3>1. k \in DOMAIN f.positions => f.positions[j] # f.positions[k]
      BY <2>3, <2>7 DEF FileInv, Positioned
    <3> QED BY <1>4, <1>5, <2>6, <3>1 DEF LineOf
  <2>8. k \in DOMAIN f.positions => LineOf(m, k)' = BLANK
    BY <1>4, <1>5, <2>6 DEF LineOf
  <2>9. Occupied(m)'
    <3>1. \A j : Replacing(m, j)' <=> j = k
      BY <1>2 DEF Replacing
    <3>2. \A j \in DOMAIN g.positions : LineOf(m, j)' = BLANK <=> Replacing(m, j)'
      BY <1>5, <2>6, <2>7, <2>8, <3>1
    <3>3. \A i \in RecordLines(g.written) : i \in RecordLines(f.written)
      BY <1>5 DEF RecordLines
    <3>4. \A i \in RecordLines(f.written) : \E j \in DOMAIN f.positions : f.positions[j] = i
      BY <1>0, <2>3 DEF FileInv, Occupied
    <3> QED BY <1>4, <1>5, <3>2, <3>3, <3>4 DEF Occupied
  <2>10. Lags(m)'
    <3>1. CASE k \in DOMAIN f.positions
      <4>1. ASSUME NEW j \in DOMAIN f.positions, j # k
            PROVE  Saved(m, j)'
        BY <1>4, <1>5, <1>6, <2>5, <2>6, <2>7, <3>1, <4>1, FlushSaves
      <4> QED BY <1>2, <1>4, <1>5, <4>1 DEF Lags
    <3>2. CASE k \notin DOMAIN f.positions
      <4>1. files'[m] = files[m] /\ disk'[m] = disk[m]
        BY <1>4, <1>5, <1>6, <3>2
      <4>2. \A j : Saved(m, j)' <=> Saved(m, j)
        BY <4>1 DEF Saved
      <4> QED BY <1>2, <2>3, <4>1, <4>2 DEF FileInv, Lags
    <3> QED BY <3>1, <3>2
  <2>11. StorageInv(s)'
    <3>1. /\ UNCHANGED <<nameOf, records, changed, deleted, currentlySyncingStorage>>
          /\ BeingWritten(s)' = BeingWritten(s) /\ k \in BeingWritten(s)
          /\ (sync').todo = sync.todo /\ clock' = clock
      BY <1>1, <1>2 DEF memory, queues, BeingWritten
    <3>2. KeysInv(s)'
      BY <1>4, <1>5, <2>2, <2>3, <3>1 DEF StorageInv, KeysInv
    <3>3. ASSUME NEW j \in DOMAIN records[s] \ deleted[s]
          PROVE  VersionInv(s, j)'
      <4>1. VersionInv(s, j) /\ (InFile(s, j)' <=> InFile(s, j)) /\ (InFile(s, j) <=> j \in DOMAIN f.positions)
        BY <1>4, <1>5, <2>2, <2>3, <3>1 DEF StorageInv, InFile
      <4>2. CASE j # k
        <5>1. InFile(s, j) => LineOf(nameOf[s], j)' = LineOf(nameOf[s], j)
          BY <2>2, <2>7, <3>1, <4>1, <4>2 DEF LineOf
        <5> QED BY <3>1, <4>1, <5>1 DEF VersionInv
      <4>3. CASE j = k
        <5>1. InFile(s, j) => LineOf(nameOf[s], j)' = 0
          BY <2>2, <2>8, <3>1, <4>1, <4>3 DEF LineOf, BLANK
        <5>2. sync.todo[j] \in 1..clock /\ (j \in DOMAIN changed[s] => changed[s][j] \in 1..clock)
          BY <2>1, <4>3, NamesOfLive DEF DataInv, StorageData
        <5> QED BY <3>1, <4>1, <4>3, <5>1, <5>2 DEF VersionInv
      <4> QED BY <4>2, <4>3
    <3> QED BY <3>1, <3>2, <3>3 DEF StorageInv
  <2> QED BY <2>2, <2>4, <2>5, <2>9, <2>10, <2>11 DEF CleanInv, FileInv
<1> QED BY <1>1, <1>8, <1>9, <1>10 DEF history

-----------------------------------------------------------------------------
(* The new line is added at the end, where no key points to.               *)
LEMMA AppendKeepsFilesInv ==
  ASSUME IInv, FilesInv, Running, SyncAppends
  PROVE  FilesInv'
<1> USE DEF FilesInv
<1>0. currentlySyncingStorage \in Live /\ sync.at = "append" /\ sync.name \in Names /\ Writing
  BY NamesOfLive DEF SyncAppends, WriterInv, Writing
<1> PICK m \in Names : m = sync.name
  BY <1>0
<1> PICK s \in Live : s = currentlySyncingStorage
  BY <1>0
<1> PICK k \in DOMAIN sync.todo : k = sync.key
  BY <1>0 DEF WriterInv
<1> PICK v \in 1..clock : v = sync.todo[k]
  BY DEF DataInv
<1> DEFINE f == files[m]
           g == Appended(f, v)
           line == Len(f.written) + 1
<1>1. /\ UNCHANGED <<retrieved, memory, queues, api, clock, fault, history>>
      /\ disk' \in {[disk EXCEPT ![m] = f.written], [disk EXCEPT ![m] = g.written]}
      /\ files' = [files EXCEPT ![m] = g]
      /\ sync' = [sync EXCEPT !.at = "place", !.line = Len(g.written)]
  BY DEF SyncAppends, FlushedBySeek
<1>3. FileType(f) /\ f.nextKey \in Nat /\ clock \in Nat /\ NameData(m) /\ v \in Nat /\ v <= clock /\ IsOpen(m)
  BY <1>0 DEF DataInv, NameData, WriterInv
<1>5. /\ FileType(g) /\ g.positions = f.positions /\ g.nextKey = f.nextKey
      /\ line = Len(g.written)
      /\ DOMAIN g.written = DOMAIN f.written \cup {line} /\ line \notin DOMAIN f.written
      /\ \A i \in DOMAIN f.written : g.written[i] = f.written[i]
      /\ g.written[line] = v
  <2> HIDE DEF f
  <2> QED BY <1>3, AppendedIs
<1> HIDE DEF g, line
<1>2. /\ (sync').at = "place" /\ (sync').key = k /\ (sync').name = m /\ (sync').todo = sync.todo
      /\ (sync').line = line
  BY <1>1, <1>5 DEF IInv, TypeOK
<1>4. WritesOnly(m) /\ files'[m] = g
  BY <1>1, <1>2 DEF WritesOnly, DataInv
<1>6. disk'[m] = f.written \/ disk'[m] = g.written
  BY <1>1 DEF DataInv
<1>7. IsOpen(m)'
  BY <1>3, <1>4, <1>5, OpenHasKey DEF IsOpen
<1>8. DataInv'
  <2>1. NameData(m)'
    <3>1. f.written \in Seq(Nat) /\ g.written \in Seq(Nat)
      BY <1>3, <1>5 DEF FileType
    <3>2. /\ \A i \in DOMAIN f.written : f.written[i] <= clock
          /\ \A i \in DOMAIN g.written : g.written[i] <= clock
      BY <1>3, <1>5 DEF NameData
    <3>3. disk'[m] \in Seq(Nat) /\ \A i \in DOMAIN disk'[m] : disk'[m][i] <= clock
      BY <1>6, <3>1, <3>2
    <3> QED BY <1>1, <1>3, <1>4, <1>5, <3>2, <3>3 DEF NameData
  <2>2. \A n \in Names \ {m} : NameData(n)'
    BY <1>1, <1>4 DEF WritesOnly, DataInv, NameData, IsOpen
  <2>3. \A t \in Storages : StorageData(t)'
    BY <1>1, StorageDataStays
  <2> QED BY <1>1, <1>2, <1>4, <2>1, <2>2, <2>3 DEF WritesOnly, DataInv, memory
<1>9. WriterInv'
  BY <1>0, <1>1, <1>2, <1>7 DEF WriterInv, Writing, memory, queues, Running
<1>10. ASSUME ~overlap
       PROVE  CleanInv'
  <2>1. CleanInv /\ DataInv /\ WriterInv
    BY <1>10
  <2>2. /\ nameOf[s] = m /\ Live' = Live /\ Running'
        /\ \A n \in Names \ {m} : FileInv(n)'
        /\ \A t \in Live \ {s} : StorageInv(t)'
    BY <1>0, <1>4, <2>1, OthersKept
  <2>3. FileInv(m) /\ StorageInv(s)
    BY <2>1 DEF CleanInv
  <2>4. \A j \in DOMAIN f.positions : /\ f.positions[j] \in DOMAIN f.written
                                      /\ f.positions[j] # line
                                      /\ g.written[f.positions[j]] = f.written[f.positions[j]]
                                      /\ LineOf(m, j)' = LineOf(m, j)
                                      /\ LineOf(m, j) = f.written[f.positions[j]]
                                      /\ LineOf(m, j) = BLANK <=> j = k
    BY <1>0, <1>4, <1>5, <2>3 DEF FileInv, Positioned, Occupied, LineOf, Replacing
  <2>5. OwnFiles'
    BY <1>1, <1>4, <1>7, <2>1, <2>2, NamesOfLive DEF CleanInv, OwnFiles, memory, WritesOnly, IsOpen
  <2>6. AddedInv'
    BY <1>2, <1>4, <1>5, <2>4 DEF AddedInv
  <2>7. Positioned(m)'
    BY <1>4, <1>5, <2>3 DEF FileInv, Positioned
  <2>8. Occupied(m)'
    <3>1. \A j : Replacing(m, j)' <=> j = k
      BY <1>2 DEF Replacing
    <3>2. \A j \in DOMAIN g.positions : LineOf(m, j)' = BLANK <=> Replacing(m, j)'
      BY <1>5, <2>4, <3>1
    <3>3. \A i \in RecordLines(g.written) : i \in RecordLines(f.written) \/ i = line
      BY <1>5 DEF RecordLines
    <3>4. \A i \in RecordLines(f.written) : \E j \in DOMAIN f.positions : f.positions[j] = i
      BY <1>0, <2>3 DEF FileInv, Occupied
    <3> QED BY <1>2, <1>4, <1>5, <3>2, <3>3, <3>4 DEF Occupied
  <2>9. Lags(m)'
    <3>1. ASSUME NEW j \in DOMAIN f.positions, j # k
          PROVE  Saved(m, j)'
      <4> DEFINE i == f.positions[j]
      <4>1. files'[m].positions[j] = i /\ files'[m].written[i] = f.written[i] /\ f.written[i] # BLANK
        BY <1>4, <1>5, <2>4, <3>1
      <4>2. i \in RecordLines(disk'[m]) /\ disk'[m][i] = f.written[i]
        BY <1>5, <1>6, <2>4, <4>1 DEF RecordLines
      <4> QED BY <4>1, <4>2 DEF Saved
    <3> QED BY <1>2, <1>4, <1>5, <3>1 DEF Lags
  <2>10. StorageInv(s)'
    <3>1. StorageStays(s) /\ clock' \in Nat /\ clock <= clock'
      BY <1>1, <1>3 DEF memory, StorageStays
    <3>2. ChangesStay(s)
      BY <1>1, <1>2 DEF ChangesStay, BeingWritten, queues
    <3>3. VersionsStay(nameOf[s])
      BY <1>3, <1>4, <1>5, <2>2, <2>4 DEF VersionsStay
    <3> QED BY <1>3, <2>3, <3>1, <3>2, <3>3, StorageKept
  <2> QED BY <2>2, <2>5, <2>6, <2>7, <2>8, <2>9, <2>10 DEF CleanInv, FileInv
<1> QED BY <1>1, <1>8, <1>9, <1>10 DEF history

(* Its position replaces the old one.                                      *)
LEMMA PlaceKeepsFilesInv ==
  ASSUME IInv, FilesInv, Running, SyncPlaces
  PROVE  FilesInv'
<1> USE DEF FilesInv
<1>0. currentlySyncingStorage \in Live /\ sync.at = "place" /\ sync.name \in Names /\ Writing
  BY NamesOfLive DEF SyncPlaces, WriterInv, Writing
<1> PICK m \in Names : m = sync.name
  BY <1>0
<1> PICK s \in Live : s = currentlySyncingStorage
  BY <1>0
<1> PICK k \in DOMAIN sync.todo : k = sync.key
  BY <1>0 DEF WriterInv
<1> PICK line : line = sync.line
  OBVIOUS
<1> DEFINE f == files[m]
           g == Placed(f, k, line)
<1>1. /\ UNCHANGED <<retrieved, memory, queues, api, clock, fault, history, disk>>
      /\ files' = [files EXCEPT ![m] = g]
      /\ sync' = [sync EXCEPT !.at = "write", !.todo = Drop(@, k), !.key = NoKey, !.line = 0]
  BY DEF SyncPlaces
<1>2. /\ (sync').at = "write" /\ (sync').name = m /\ (sync').todo = Drop(sync.todo, k)
  BY <1>1 DEF IInv, TypeOK
<1>3. FileType(f) /\ f.nextKey \in Nat /\ clock \in Nat /\ NameData(m)
  BY <1>0 DEF DataInv, NameData, WriterInv
<1>4. WritesOnly(m) /\ files'[m] = g /\ disk'[m] = disk[m]
  BY <1>1, <1>2 DEF WritesOnly, DataInv
<1>5. /\ FileType(g) /\ g.written = f.written /\ g.nextKey = f.nextKey
      /\ DOMAIN g.positions = DOMAIN f.positions \cup {k}
      /\ g.positions[k] = line
      /\ \A j \in DOMAIN f.positions : j # k => g.positions[j] = f.positions[j]
  BY <1>3, PlacedIs
<1> HIDE DEF g
<1>6. IsOpen(m)'
  BY <1>3, <1>4, <1>5, OpenHasKey DEF IsOpen
<1>7. /\ DOMAIN (sync').todo = DOMAIN sync.todo \ {k}
      /\ \A j \in DOMAIN sync.todo : j # k => (sync').todo[j] = sync.todo[j]
  BY <1>2 DEF Drop
<1>8. DataInv'
  <2>1. NameData(m)'
    BY <1>1, <1>3, <1>4, <1>5 DEF NameData
  <2>2. \A n \in Names \ {m} : NameData(n)'
    BY <1>1, <1>4 DEF WritesOnly, DataInv, NameData, IsOpen
  <2>3. \A t \in Storages : StorageData(t)'
    BY <1>1, StorageDataStays
  <2> QED BY <1>1, <1>4, <1>7, <2>1, <2>2, <2>3 DEF WritesOnly, DataInv, memory
<1>9. WriterInv'
  BY <1>0, <1>1, <1>2 DEF WriterInv, Writing, memory, queues
<1>10. ASSUME ~overlap
       PROVE  CleanInv'
  <2>1. CleanInv /\ DataInv /\ WriterInv
    BY <1>10
  <2>2. /\ nameOf[s] = m /\ Live' = Live /\ Running'
        /\ \A n \in Names \ {m} : FileInv(n)'
        /\ \A t \in Live \ {s} : StorageInv(t)'
    BY <1>0, <1>4, <2>1, OthersKept
  <2>3. FileInv(m) /\ StorageInv(s)
    BY <2>1 DEF CleanInv
  <2>4. /\ line \in DOMAIN f.written /\ f.written[line] = sync.todo[k]
        /\ \A j \in DOMAIN f.positions : f.positions[j] # line
        /\ sync.todo[k] \in 1..clock
    BY <1>0, <2>1 DEF CleanInv, AddedInv, DataInv
  <2>5. \A j \in DOMAIN f.positions : LineOf(m, j) = BLANK <=> j = k
    BY <1>0, <2>3 DEF FileInv, Occupied, Replacing
  <2>6. /\ \A j \in DOMAIN f.positions : j # k => LineOf(m, j)' = LineOf(m, j)
        /\ LineOf(m, k)' = sync.todo[k]
    BY <1>4, <1>5, <2>4 DEF LineOf
  <2>7. OwnFiles' /\ AddedInv'
    BY <1>1, <1>2, <1>4, <1>6, <2>1, <2>2, NamesOfLive
       DEF CleanInv, OwnFiles, AddedInv, memory, WritesOnly, IsOpen
  <2>8. k \in BeingWritten(s) /\ k \in Int /\ k < f.nextKey
    <3>1. k \in BeingWritten(s)
      BY DEF BeingWritten
    <3> QED BY <2>2, <2>3, <3>1 DEF StorageInv, KeysInv
  <2>9. Positioned(m)'
    <3>1. \A j \in DOMAIN g.positions : /\ j \in Int /\ j < g.nextKey
                                        /\ g.positions[j] \in DOMAIN g.written
      BY <1>5, <2>3, <2>4, <2>8 DEF FileInv, Positioned
    <3>2. \A i, j \in DOMAIN g.positions : g.positions[i] = g.positions[j] => i = j
      BY <1>5, <2>3, <2>4 DEF FileInv, Positioned
    <3> QED BY <1>4, <3>1, <3>2 DEF Positioned
  <2>10. Occupied(m)'
    <3>1. \A j : ~Replacing(m, j)'
      BY <1>2 DEF Replacing
    <3>2. \A j \in DOMAIN g.positions : LineOf(m, j)' # BLANK
      BY <1>5, <2>4, <2>5, <2>6 DEF BLANK
    <3>3. ASSUME NEW i \in RecordLines(f.written)
          PROVE  \E j \in DOMAIN g.positions : g.positions[j] = i
      <4>1. (\E j \in DOMAIN f.positions : f.positions[j] = i) \/ i = line
        BY <2>3 DEF FileInv, Occupied
      <4>2. CASE i = line
        BY <1>5, <4>2
      <4>3. ASSUME NEW j \in DOMAIN f.positions, f.positions[j] = i
            PROVE  j \in DOMAIN g.positions /\ g.positions[j] = i
        <5>1. f.written[f.positions[j]] # BLANK
          BY <4>3 DEF RecordLines
        <5>2. j # k
          BY <2>5, <5>1 DEF LineOf
        <5> QED BY <1>5, <4>3, <5>2
      <4> QED BY <4>1, <4>2, <4>3
    <3> QED BY <1>4, <1>5, <3>1, <3>2, <3>3 DEF Occupied
  <2>11. Lags(m)'
    <3>1. ASSUME NEW j \in DOMAIN f.positions, j # k
          PROVE  Saved(m, j)'
      <4>1. Saved(m, j)
        BY <1>0, <2>3, <3>1 DEF FileInv, Lags
      <4> QED BY <1>4, <1>5, <3>1, <4>1 DEF Saved
    <3>2. \A j \in DOMAIN g.positions : j = k \/ Saved(m, j)'
      BY <1>5, <3>1
    <3> QED BY <1>2, <1>4, <3>2 DEF Lags
  <2>12. StorageInv(s)'
    <3>1. /\ UNCHANGED <<nameOf, records, changed, deleted, currentlySyncingStorage>>
          /\ clock' = clock
          /\ BeingWritten(s) = DOMAIN sync.todo /\ BeingWritten(s)' = DOMAIN sync.todo \ {k}
      BY <1>1, <1>7 DEF memory, queues, BeingWritten
    <3>2. KeysInv(s)'
      BY <1>4, <1>5, <2>2, <2>3, <2>8, <3>1 DEF StorageInv, KeysInv
    <3>3. ASSUME NEW j \in DOMAIN records[s] \ deleted[s]
          PROVE  VersionInv(s, j)'
      <4>1. VersionInv(s, j) /\ (InFile(s, j) <=> j \in DOMAIN f.positions)
        BY <2>2, <2>3 DEF StorageInv, InFile
      <4>2. CASE j # k
        <5>1. InFile(s, j)' <=> InFile(s, j)
          BY <1>4, <1>5, <2>2, <3>1, <4>1, <4>2 DEF InFile
        <5>2. InFile(s, j) => LineOf(nameOf[s], j)' = LineOf(nameOf[s], j)
          BY <2>2, <2>6, <3>1, <4>1, <4>2 DEF LineOf
        <5>3. j \in BeingWritten(s)' <=> j \in BeingWritten(s)
          BY <3>1, <4>2
        <5>4. j \in BeingWritten(s) => (sync').todo[j] = sync.todo[j]
          BY <1>7, <3>1, <4>2
        <5> QED BY <3>1, <4>1, <5>1, <5>2, <5>3, <5>4 DEF VersionInv
      <4>3. CASE j = k
        <5>1. InFile(s, j)' /\ LineOf(nameOf[s], j)' = sync.todo[j]
          BY <1>4, <1>5, <2>2, <2>6, <3>1, <4>3 DEF InFile, LineOf
        <5>2. j \in BeingWritten(s) /\ j \notin BeingWritten(s)'
          BY <2>8, <3>1, <4>3
        <5> QED BY <3>1, <4>1, <5>1, <5>2 DEF VersionInv
      <4> QED BY <4>2, <4>3
    <3> QED BY <3>1, <3>2, <3>3 DEF StorageInv
  <2> QED BY <2>2, <2>7, <2>9, <2>10, <2>11, <2>12 DEF CleanInv, FileInv
<1> QED BY <1>1, <1>8, <1>9, <1>10 DEF history

-----------------------------------------------------------------------------
(* The other steps.                                                        *)
LEMMA WokenIsQuiet ==
  ASSUME IInv, WriterInv, sync' = Woken
  PROVE  \/ UNCHANGED sync
         \/ /\ sync.at \notin {"append", "place"} /\ DOMAIN sync.todo = {}
            /\ ~Writing' /\ DOMAIN (sync').todo = {}
<1>1. CASE sync.at = "waiting"
  <2>1. sync' = [sync EXCEPT !.at = "check"]
    BY <1>1 DEF Woken
  <2>2. (sync').at = "check" /\ (sync').todo = sync.todo
    BY <2>1 DEF IInv, TypeOK
  <2> QED BY <1>1, <2>2 DEF WriterInv, Writing
<1>2. CASE sync.at # "waiting"
  BY <1>2 DEF Woken
<1> QED BY <1>1, <1>2

LEMMA QuietCallsKeepFilesInv ==
  ASSUME IInv, FilesInv,
         \/ \E s \in Storages : \E k : LookUpRecord(s, k)
         \/ RecordsChanged \/ Close \/ CloseJoins
  PROVE  FilesInv'
<1>1. UNCHANGED <<memory, media, clock, overlap, fault, sync, currentlySyncingStorage>>
  BY DEF LookUpRecord, RecordsChanged, Close, CloseJoins, queues, history
<1>2. (api').at = "read" => (api').key \in deleted[(api').storage]
  <2>1. ASSUME NEW s \in Storages, NEW k, LookUpRecord(s, k)
        PROVE  (api').key = k /\ (api').storage = s /\ k \in deleted[s]
    BY <2>1 DEF LookUpRecord, IInv, TypeOK
  <2>2. RecordsChanged \/ Close \/ CloseJoins => (api').at # "read"
    <3>1. ASSUME RecordsChanged
          PROVE  (api').at # "read"
      <4>1. api' = Idle \/ api' = [api EXCEPT !.at = "signal", !.storage = NULL]
        BY <3>1 DEF RecordsChanged
      <4>2. CASE api' = Idle
        BY <4>2 DEF Idle
      <4>3. CASE api' = [api EXCEPT !.at = "signal", !.storage = NULL]
        <5>1. (api').at = "signal"
          BY <4>3 DEF IInv, TypeOK
        <5> QED BY <5>1
      <4> QED BY <4>1, <4>2, <4>3
    <3>2. ASSUME Close \/ CloseJoins
          PROVE  (api').at # "read"
      BY <3>2 DEF Close, CloseJoins, IInv, TypeOK
    <3> QED BY <3>1, <3>2
  <2> QED BY <2>1, <2>2
<1> QED BY <1>1, <1>2, QuietKeepsFilesInv

LEMMA SignalsKeepFilesInv ==
  ASSUME IInv, FilesInv, Signal \/ CloseAsksToEnd
  PROVE  FilesInv'
<1>1. /\ UNCHANGED <<memory, media, clock, overlap, fault, currentlySyncingStorage>>
      /\ sync' = Woken
  BY DEF Signal, CloseAsksToEnd, queues, history
<1>2. (api').at # "read"
  BY DEF Signal, CloseAsksToEnd, IInv, TypeOK
<1>3. WriterInv
  BY DEF FilesInv
<1> QED BY <1>1, <1>2, <1>3, WokenIsQuiet, QuietKeepsFilesInv

LEMMA QuietSyncKeepsFilesInv ==
  ASSUME IInv, FilesInv, SyncTakesStorage \/ SyncWaitsOrEnds \/ SpuriousWakeup
  PROVE  FilesInv'
<1>1. UNCHANGED <<memory, media, clock, overlap, fault, api>>
  BY DEF SyncTakesStorage, SyncWaitsOrEnds, SpuriousWakeup, history
<1>2. WriterInv /\ sync.at \in {"check", "waiting"}
  BY DEF FilesInv, SyncTakesStorage, SyncWaitsOrEnds, SpuriousWakeup
<1>3. /\ sync.at \notin {"append", "place"} /\ DOMAIN sync.todo = {}
      /\ ~Writing' /\ DOMAIN (sync').todo = {}
  <2>1. (sync').at \in {"swap", "ended", "waiting", "check"} /\ (sync').todo = sync.todo
    BY DEF SyncTakesStorage, SyncWaitsOrEnds, SpuriousWakeup, Woken, IInv, TypeOK
  <2> QED BY <1>2, <2>1 DEF WriterInv, Writing
<1>4. (api').at = "read" => (api').key \in deleted[(api').storage]
  BY <1>1, <1>2 DEF WriterInv
<1> QED BY <1>1, <1>3, <1>4, QuietKeepsFilesInv

LEMMA ReleasingKeepsFilesInv ==
  ASSUME IInv, FilesInv, Running, NEW n \in Names, Held(n), ReleaseButDontRemove(n),
         UNCHANGED <<currentlySyncingStorage, sync, clock, overlap>>, (api').at # "read"
  PROVE  FilesInv'
<1>1. retrieved[n] \in Live /\ nameOf[retrieved[n]] = n
  BY DEF IInv, HeldInv
<1> PICK s \in Live : s = retrieved[n]
  BY <1>1
<1>2. CASE HasChanges(s)
  <2>1. UNCHANGED <<memory, media, fault>>
    BY <1>2 DEF ReleaseButDontRemove
  <2> QED BY <2>1, QuietKeepsFilesInv
<1>3. CASE ~HasChanges(s)
  <2>1. /\ Free(s) /\ CloseFile(n)
        /\ fault' = IF WriterUses(n) THEN "freed file" ELSE "none"
    BY <1>3 DEF ReleaseButDontRemove
  <2>2. currentlySyncingStorage # s
    BY <1>3 DEF HasChanges
  <2>3. Running' <=> ~WriterUses(n)
    BY <2>1 DEF Running
  <2> QED BY <1>1, <2>1, <2>2, <2>3, DestroyingKeepsFilesInv
<1> QED BY <1>2, <1>3

LEMMA ReleaseKeepsFilesInv ==
  ASSUME IInv, FilesInv, Running, NEW n \in Names, ReleaseStorage(n) \/ CloseReleases(n)
  PROVE  FilesInv'
<1>1. /\ ReleaseButDontRemove(n)
      /\ UNCHANGED <<currentlySyncingStorage, sync, clock, overlap>>
  BY DEF ReleaseStorage, CloseReleases
<1>2. (api').at # "read"
  BY DEF ReleaseStorage, CloseReleases, IInv, TypeOK
<1>3. Held(n)
  <2>1. CASE ReleaseStorage(n)
    <3>1. ~api.closing /\ retrieved[n] # NULL
      BY <2>1 DEF ReleaseStorage, Idle
    <3> QED BY <3>1 DEF Held
  <2>2. CASE CloseReleases(n)
    <3>1. n \in api.left /\ api.at = "closing"
      BY <2>2 DEF CloseReleases
    <3> QED BY <3>1 DEF Held, IInv, ApiInv
  <2> QED BY <2>1, <2>2
<1> QED BY <1>1, <1>2, <1>3, ReleasingKeepsFilesInv

LEMMA FinishKeepsFilesInv ==
  ASSUME IInv, FilesInv, Running, SyncFinishes
  PROVE  FilesInv'
<1>1. /\ currentlySyncingStorage \in Live /\ sync.at = "write" /\ DOMAIN sync.todo = {}
      /\ sync.name = nameOf[currentlySyncingStorage] /\ sync.name \in Names
  BY NamesOfLive DEF SyncFinishes, FilesInv, WriterInv, Writing
<1> PICK s \in Live : s = currentlySyncingStorage
  BY <1>1
<1> PICK n \in Names : n = sync.name
  BY <1>1
<1>2. /\ UNCHANGED <<clock, overlap, api, fault>> /\ sync' = AtRest
  BY DEF SyncFinishes
<1>3. CASE s \in releasedStorages
  <2>1. Free(s) /\ CloseFile(n)
    BY <1>3 DEF SyncFinishes
  <2>2. (api').at = "read" => (api').key \in deleted'[(api').storage]
    <3> SUFFICES ASSUME api.at = "read"
                 PROVE  api.key \in deleted'[api.storage]
      BY <1>2
    <3>1. api.storage \in Live /\ api.storage \notin releasedStorages /\ api.key \in deleted[api.storage]
      BY DEF IInv, ApiInv, HeldInv, FilesInv, WriterInv
    <3>2. api.storage # s /\ api.storage \in Storages
      BY <1>3, <3>1, NamesOfLive
    <3> QED BY <2>1, <3>1, <3>2 DEF Free, FilesInv, DataInv
  <2> QED BY <1>1, <1>2, <2>1, <2>2, DestroyingKeepsFilesInv DEF Running
<1>4. CASE s \notin releasedStorages
  <2>1. UNCHANGED <<memory, media>>
    BY <1>4 DEF SyncFinishes
  <2>2. ~Writing' /\ DOMAIN (sync').todo = {}
    BY <1>2 DEF AtRest, NoRecords, Writing
  <2>3. (api').at = "read" => (api').key \in deleted[(api').storage]
    BY <1>2, <2>1 DEF FilesInv, WriterInv
  <2> QED BY <1>1, <1>2, <2>1, <2>2, <2>3, QuietKeepsFilesInv
<1> QED BY <1>3, <1>4

-----------------------------------------------------------------------------
LEMMA NextKeepsFilesInv == IInv /\ FilesInv /\ [Next]_vars => FilesInv'
<1> SUFFICES ASSUME IInv, FilesInv, [Next]_vars PROVE FilesInv'
  OBVIOUS
<1>1. CASE Running /\ Caller
  <2>1. ASSUME NEW n \in Names, NEW s \in Storages, RetrieveStorage(n, s)
        PROVE  FilesInv'
    BY <2>1, RetrieveKeepsFilesInv
  <2>2. ASSUME NEW s \in Storages, NEW k, ModifyRecord(s, k)
        PROVE  FilesInv'
    BY <2>2, ModifyRecordKeepsFilesInv
  <2>3. ASSUME NEW s \in Storages, StoreRecord(s)
        PROVE  FilesInv'
    BY <2>3, StoreKeepsFilesInv
  <2>4. ASSUME NEW s \in Storages, NEW k, RemoveRecord(s, k)
        PROVE  FilesInv'
    BY <2>4, RemoveKeepsFilesInv
  <2>5. ASSUME NEW s \in Storages, NEW k, LookUpRecord(s, k)
        PROVE  FilesInv'
    BY <2>5, QuietCallsKeepFilesInv
  <2>6. ASSUME NEW n \in Names, ReleaseStorage(n)
        PROVE  FilesInv'
    BY <1>1, <2>6, ReleaseKeepsFilesInv
  <2> QED BY <1>1, <2>1, <2>2, <2>3, <2>4, <2>5, <2>6, QuietCallsKeepFilesInv DEF Caller
<1>2. CASE Running /\ CallGoesOn
  BY <1>2, ReadKeepsFilesInv, QuietCallsKeepFilesInv, SignalsKeepFilesInv, ReleaseKeepsFilesInv DEF CallGoesOn
<1>3. CASE Running /\ SyncThread
  <2>1. ASSUME NEW k \in DOMAIN sync.todo, SyncBlanks(k)
        PROVE  FilesInv'
    <3>1. CASE IsOpen(sync.name)
      BY <2>1, <3>1, BlankKeepsFilesInv
    <3>2. CASE ~IsOpen(sync.name)
      BY <2>1, <3>2, SkipKeepsFilesInv DEF SyncBlanks, Writing
    <3> QED BY <3>1, <3>2
  <2> QED BY <1>3, <2>1, QuietSyncKeepsFilesInv, SwapKeepsFilesInv, AppendKeepsFilesInv,
             PlaceKeepsFilesInv, FinishKeepsFilesInv DEF SyncThread
<1>4. CASE SpuriousWakeup
  BY <1>4, QuietSyncKeepsFilesInv
<1>5. CASE Restart \/ Crash
  BY <1>5, RestartKeepsFilesInv
<1>6. CASE UNCHANGED vars
  <2>1. UNCHANGED <<memory, media, clock, overlap, fault, sync, currentlySyncingStorage, api>>
    BY <1>6 DEF vars, queues, history
  <2>2. (api').at = "read" => (api').key \in deleted[(api').storage]
    BY <2>1 DEF FilesInv, WriterInv
  <2> QED BY <2>1, <2>2, QuietKeepsFilesInv
<1> QED BY <1>1, <1>2, <1>3, <1>4, <1>5, <1>6 DEF Next

LEMMA FilesInductive == Spec => [](IInv /\ FilesInv)
<1>1. Init => IInv /\ FilesInv
  BY InitIInv, InitFilesInv
<1>2. IInv /\ FilesInv /\ [Next]_vars => (IInv /\ FilesInv)'
  BY NextKeepsIInv, NextKeepsFilesInv
<1> QED BY <1>1, <1>2, PTL DEF Spec

(* As long as no file was opened twice, what is in memory and waits for    *)
(* nothing is in the file, at the position known for its key.              *)
THEOREM FilesMatch == Spec => []FileMatchesMemory
<1>1. FilesInv => FileMatchesMemory
  <2> SUFFICES ASSUME FilesInv, ~overlap, NEW s \in Live,
                      NEW k \in DOMAIN records[s] \ (DOMAIN changed[s] \cup BeingWritten(s) \cup deleted[s])
               PROVE  /\ k \in DOMAIN files[nameOf[s]].positions
                      /\ files[nameOf[s]].written[files[nameOf[s]].positions[k]] = records[s][k]
    BY DEF FileMatchesMemory
  <2>1. VersionInv(s, k)
    BY DEF FilesInv, CleanInv, StorageInv
  <2> QED BY <2>1 DEF VersionInv, InFile, LineOf
<1> QED BY <1>1, FilesInductive, PTL

(* A process that is killed loses at most one record of each file.         *)
THEOREM AtMostOneRecordAtRisk == Spec => []OneRecordAtRisk
<1>1. FilesInv => OneRecordAtRisk
  <2> SUFFICES ASSUME FilesInv, ~overlap, NEW n \in Names
               PROVE  Cardinality({k \in DOMAIN files[n].positions : ~Saved(n, k)}) <= 1
    BY DEF OneRecordAtRisk
  <2> DEFINE U == {k \in DOMAIN files[n].positions : ~Saved(n, k)}
  <2>1. \A j, k \in U : j = k
    BY DEF FilesInv, CleanInv, FileInv, Lags
  <2> HIDE DEF U
  <2>2. CASE U = {}
    BY <2>2, FS_EmptySet DEF U
  <2>3. CASE U # {}
    <3>1. PICK x : x \in U
      BY <2>3
    <3>2. U = {x}
      BY <2>1, <3>1
    <3>3. Cardinality(U) = 1
      BY <3>2, FS_Singleton
    <3> QED BY <3>3 DEF U
  <2> QED BY <2>2, <2>3
<1> QED BY <1>1, FilesInductive, PTL

(* A file is freed under one of the threads only if its name was retrieved *)
(* again before the previous storage of that name was written.             *)
THEOREM NoFreedFileIsUsed == Spec => [](~overlap => Running)
<1>1. FilesInv => (~overlap => Running)
  BY DEF FilesInv, CleanInv
<1> QED BY <1>1, FilesInductive, PTL

-----------------------------------------------------------------------------
(* What a storage leaves behind.                                           *)

(* Nothing of s waits or is being written.                                 *)
AllWritten(s) ==
  /\ DOMAIN changed[s] \cup BeingWritten(s) = {}
  /\ ~At(nameOf[s])

LEMMA FileHoldsRecords ==
  ASSUME CleanInv, DataInv, IInv, NEW s \in Live, AllWritten(s), deleted[s] = {}
  PROVE  VersionsIn(files[nameOf[s]].written) = {records[s][k] : k \in DOMAIN records[s]}
<1> DEFINE n == nameOf[s]
           w == files[n].written
           p == files[n].positions
<1>1. /\ n \in Names /\ FileInv(n) /\ StorageInv(s)
      /\ \A k : ~Replacing(n, k)
  BY NamesOfLive DEF CleanInv, AllWritten, At, Replacing
<1>2. \A k \in DOMAIN records[s] : k \in DOMAIN p /\ w[p[k]] = records[s][k]
  BY <1>1 DEF StorageInv, VersionInv, AllWritten, InFile, LineOf
<1>3. \A k \in DOMAIN p : p[k] \in RecordLines(w) /\ k \in DOMAIN records[s]
  BY <1>1 DEF FileInv, Positioned, Occupied, RecordLines, LineOf, StorageInv, KeysInv
<1>4. \A i \in RecordLines(w) : \E k \in DOMAIN p : p[k] = i
  BY <1>1 DEF FileInv, Occupied, AllWritten, At
<1> HIDE DEF p, w
<1>5. VersionsIn(w) \subseteq {records[s][k] : k \in DOMAIN records[s]}
  <2> SUFFICES ASSUME NEW i \in RecordLines(w)
               PROVE  \E k \in DOMAIN records[s] : w[i] = records[s][k]
    BY DEF VersionsIn
  <2> QED BY <1>2, <1>3, <1>4
<1>6. {records[s][k] : k \in DOMAIN records[s]} \subseteq VersionsIn(w)
  <2> SUFFICES ASSUME NEW k \in DOMAIN records[s]
               PROVE  \E i \in RecordLines(w) : records[s][k] = w[i]
    BY DEF VersionsIn
  <2> QED BY <1>2, <1>3
<1> QED BY <1>5, <1>6 DEF w

(* The storage that a step destroys has no changes (FreeInv is about those *)
(* that are destroyed already), and its file is closed.                    *)
LEMMA EndsWritten ==
  ASSUME IInv, FilesInv, ~overlap, [Next]_vars,
         NEW s \in Live \ late, nameOf'[s] = NULL, ~Crash, ~Restart
  PROVE  AllWritten(s) /\ CloseFile(nameOf[s])
<1>1. s \in Storages /\ nameOf[s] # NULL /\ CleanInv /\ WriterInv
  BY NamesOfLive DEF Live, FilesInv
<1>2. nameOf' # nameOf
  BY <1>1
<1>3. ASSUME NEW n \in Names, Held(n), ReleaseButDontRemove(n), api.at # "queue"
      PROVE  AllWritten(s) /\ CloseFile(nameOf[s])
  <2>1. nameOf[retrieved[n]] = n /\ retrieved[n] \in Live
    BY <1>3 DEF IInv, HeldInv
  <2> PICK t \in Live : t = retrieved[n]
    BY <2>1
  <2>2. ~HasChanges(t) /\ CloseFile(n) /\ nameOf' = [nameOf EXCEPT ![t] = NULL]
    BY <1>2, <1>3 DEF ReleaseButDontRemove, Free, memory
  <2>3. s = t
    BY <1>1, <2>2 DEF IInv, TypeOK
  <2>4. s \notin Queued /\ s # currentlySyncingStorage
    BY <2>2, <2>3 DEF HasChanges
  <2>5. DOMAIN changed[s] = {} /\ BeingWritten(s) = {}
    BY <1>3, <2>4 DEF IInv, NothingElseForgotten, BeingWritten
  <2>6. ~At(n)
    <3>1. Writing => sync.name = nameOf[currentlySyncingStorage] /\ currentlySyncingStorage \in Live
      BY <1>1, NamesOfLive DEF WriterInv, Writing
    <3> QED BY <1>1, <2>1, <2>3, <2>4, <3>1 DEF At, Writing, CleanInv, OwnFiles
  <2> QED BY <2>1, <2>2, <2>3, <2>5, <2>6 DEF AllWritten
<1>4. ASSUME SyncFinishes
      PROVE  AllWritten(s) /\ CloseFile(nameOf[s])
  <2>1. /\ sync.at = "write" /\ DOMAIN sync.todo = {}
        /\ currentlySyncingStorage \in Live \ Queued
        /\ sync.name = nameOf[currentlySyncingStorage]
    BY <1>1, <1>4, NamesOfLive DEF SyncFinishes, WriterInv, Writing, IInv, QueueInv, SyncInv
  <2> PICK t \in Live : t = currentlySyncingStorage
    BY <2>1
  <2>2. t \in releasedStorages /\ CloseFile(sync.name) /\ nameOf' = [nameOf EXCEPT ![t] = NULL]
    BY <1>2, <1>4 DEF SyncFinishes, Free, memory
  <2>3. s = t
    BY <1>1, <2>2 DEF IInv, TypeOK
  <2>4. ~(s = api.storage /\ api.at = "queue")
    <3> SUFFICES ASSUME s = api.storage, api.at = "queue" PROVE FALSE
      OBVIOUS
    <3>1. PICK n \in Names : retrieved[n] = api.storage /\ Held(n)
      BY DEF IInv, ApiInv
    <3>2. retrieved[n] \in Live \ releasedStorages
      BY <3>1 DEF IInv, HeldInv
    <3> QED BY <2>2, <2>3, <3>1, <3>2
  <2>5. DOMAIN changed[s] = {}
    BY <2>1, <2>3, <2>4 DEF IInv, NothingElseForgotten
  <2>6. BeingWritten(s) = {} /\ ~At(nameOf[s])
    BY <2>1 DEF BeingWritten, At
  <2> QED BY <2>1, <2>2, <2>3, <2>5, <2>6 DEF AllWritten
<1>5. \/ \E n \in Names : ReleaseStorage(n) \/ CloseReleases(n)
      \/ SyncFinishes
  <2>1. ASSUME NEW n \in Names, NEW t \in Storages, RetrieveStorage(n, t)
        PROVE  FALSE
    <3>1. nameOf'[s] = nameOf[s]
      BY <1>1, <2>1 DEF RetrieveStorage, IInv, TypeOK
    <3> QED BY <1>1, <3>1
  <2>2. ASSUME \/ \E t \in Storages : \E k : ModifyRecord(t, k) \/ RemoveRecord(t, k) \/ LookUpRecord(t, k)
               \/ \E t \in Storages : StoreRecord(t)
               \/ Close \/ ReadRecord \/ RecordsChanged \/ Signal \/ CloseAsksToEnd \/ CloseJoins
        PROVE  FALSE
    BY <1>2, <2>2 DEF ModifyRecord, StoreRecord, Modify, RemoveRecord, LookUpRecord, Close, ReadRecord,
                      RecordsChanged, Signal, CloseAsksToEnd, CloseJoins, memory
  <2>3. ASSUME \/ SyncTakesStorage \/ SyncWaitsOrEnds \/ SpuriousWakeup \/ SyncSwaps
               \/ \E k \in DOMAIN sync.todo : SyncBlanks(k)
               \/ SyncAppends \/ SyncPlaces
        PROVE  FALSE
    BY <1>2, <2>3 DEF SyncTakesStorage, SyncWaitsOrEnds, SpuriousWakeup, SyncSwaps, SyncBlanks,
                      SyncAppends, SyncPlaces, memory
  <2>4. ~UNCHANGED vars
    BY <1>2 DEF vars, memory
  <2> QED BY <2>1, <2>2, <2>3, <2>4 DEF Next, Caller, CallGoesOn, SyncThread
<1>6. ASSUME NEW n \in Names, ReleaseStorage(n) \/ CloseReleases(n)
      PROVE  Held(n) /\ ReleaseButDontRemove(n) /\ api.at # "queue"
  <2>1. CASE ReleaseStorage(n)
    <3>1. ~api.closing /\ retrieved[n] # NULL /\ api.at = "idle"
      BY <2>1 DEF ReleaseStorage, Idle
    <3> QED BY <2>1, <3>1 DEF Held, ReleaseStorage
  <2>2. CASE CloseReleases(n)
    <3>1. n \in api.left /\ api.at = "closing" /\ ReleaseButDontRemove(n)
      BY <2>2 DEF CloseReleases
    <3> QED BY <3>1 DEF Held, IInv, ApiInv
  <2> QED BY <1>6, <2>1, <2>2
<1> QED BY <1>3, <1>4, <1>5, <1>6

(* A storage that is destroyed leaves a file that, read again, gives its   *)
(* records, unless a change came late or records were removed.             *)
THEOREM StoragesLeaveTheirRecords == Spec => LeftAsRecorded
<1> DEFINE Left == \A s \in Live \ late :
                     Destroyed(s) /\ ~overlap /\ deleted[s] = {} =>
                       VersionsIn(disk'[nameOf[s]]) = {records[s][k] : k \in DOMAIN records[s]}
<1>1. IInv /\ FilesInv /\ [Next]_vars => Left
  <2> SUFFICES ASSUME IInv, FilesInv, [Next]_vars, NEW s \in Live \ late,
                      nameOf'[s] = NULL, ~Crash, ~Restart, ~overlap, deleted[s] = {}
               PROVE  VersionsIn(disk'[nameOf[s]]) = {records[s][k] : k \in DOMAIN records[s]}
    BY DEF Destroyed
  <2>1. AllWritten(s) /\ CloseFile(nameOf[s]) /\ CleanInv /\ DataInv
    BY EndsWritten DEF FilesInv
  <2>2. nameOf[s] \in Names /\ IsOpen(nameOf[s]) /\ NameData(nameOf[s])
    BY <2>1, NamesOfLive DEF CleanInv, OwnFiles, DataInv
  <2>3. disk'[nameOf[s]] = Closed(files[nameOf[s]].written)
    BY <2>1, <2>2, CloseFileIs
  <2>4. VersionsIn(Closed(files[nameOf[s]].written)) = VersionsIn(files[nameOf[s]].written)
    BY <2>2, ClosedIs DEF NameData, FileType
  <2> QED BY <2>1, <2>3, <2>4, FileHoldsRecords
<1>2. [](IInv /\ FilesInv) /\ [][Next]_vars => [][Left]_vars
  BY <1>1, PTL
<1> QED BY <1>2, FilesInductive, PTL DEF Spec, LeftAsRecorded

-----------------------------------------------------------------------------
(* The refinement of WriteBehind: what a step does to the version of a     *)
(* record that was stored last, and to the one that is kept.               *)
Tracked(s, k) == ~overlap /\ s \in Live /\ k \in DOMAIN records[s] \ deleted[s]

Holds(s, k) ==
  IF InFile(s, k)
  THEN IF Replacing(nameOf[s], k) THEN sync.todo[k] ELSE LineOf(nameOf[s], k)
  ELSE 0

SlotsAre ==
  \A s \in Storages : \A k :
    /\ Tracked(s, k) => /\ Told(s, k) = records[s][k] /\ Told(s, k) \in 1..clock
                        /\ Kept(s, k) = Holds(s, k) /\ Kept(s, k) \in Nat
    /\ ~Tracked(s, k) => Told(s, k) = 0 /\ Kept(s, k) = 0

LEMMA SlotsInv == IInv /\ FilesInv => SlotsAre
<1> SUFFICES ASSUME IInv, FilesInv, NEW s \in Storages, NEW k
             PROVE  /\ Tracked(s, k) => /\ Told(s, k) = records[s][k] /\ Told(s, k) \in 1..clock
                                        /\ Kept(s, k) = Holds(s, k) /\ Kept(s, k) \in Nat
                    /\ ~Tracked(s, k) => Told(s, k) = 0 /\ Kept(s, k) = 0
  BY DEF SlotsAre
<1>1. CASE Tracked(s, k)
  <2>1. CleanInv /\ s \in Live /\ nameOf[s] \in Names /\ DataInv /\ WriterInv
    BY <1>1, NamesOfLive DEF Tracked, FilesInv
  <2>2. /\ VersionInv(s, k) /\ FileInv(nameOf[s]) /\ Running /\ FileType(files[nameOf[s]])
        /\ clock \in Nat
    BY <1>1, <2>1 DEF Tracked, CleanInv, StorageInv, DataInv, NameData
  <2>3. Told(s, k) = records[s][k] /\ Told(s, k) \in 1..clock /\ Told(s, k) # 0
    BY <1>1, <2>2 DEF Tracked, Told, VersionInv
  <2>4. CASE ~InFile(s, k)
    BY <1>1, <2>3, <2>4 DEF Kept, Holds, InFile
  <2>5. CASE InFile(s, k)
    <3>1. LineOf(nameOf[s], k) = BLANK <=> Replacing(nameOf[s], k)
      BY <2>2, <2>5 DEF FileInv, Occupied, InFile
    <3>2. Replacing(nameOf[s], k) => k \in DOMAIN sync.todo
      BY <2>1 DEF Replacing, WriterInv
    <3>3. Kept(s, k) = Holds(s, k)
      BY <2>3, <2>5, <3>1, <3>2 DEF Kept, Holds, InFile, LineOf
    <3>4. Replacing(nameOf[s], k) => sync.todo[k] \in Nat
      BY <2>1, <2>2, <3>2 DEF DataInv
    <3>5. LineOf(nameOf[s], k) \in Nat
      <4> DEFINE w == files[nameOf[s]].written
                 i == files[nameOf[s]].positions[k]
      <4>1. w \in Seq(Nat) /\ i \in DOMAIN w
        BY <2>2, <2>5 DEF FileType, FileInv, Positioned, InFile
      <4> HIDE DEF w, i
      <4>2. w[i] \in Nat
        BY <4>1
      <4> QED BY <4>2 DEF LineOf, w, i
    <3> QED BY <1>1, <2>3, <2>5, <3>3, <3>4, <3>5 DEF Holds
  <2> QED BY <2>4, <2>5
<1>2. CASE ~Tracked(s, k)
  BY <1>2 DEF Tracked, Told, Kept
<1> QED BY <1>1, <1>2

LEMMA SlotsInvAfter == IInv' /\ FilesInv' => SlotsAre'
BY SlotsInv, PTL

SlotStays(s, k) == Told(s, k)' = Told(s, k) /\ Kept(s, k)' = Kept(s, k)

(* The steps of WriteBehind.                                               *)
Loads == \A s \in Storages : \A k : SlotStays(s, k) \/ (Told(s, k) = 0 /\ Kept(s, k)' = Told(s, k)')

Forgets == \A s \in Storages : \A k : SlotStays(s, k) \/ (Told(s, k)' = 0 /\ Kept(s, k)' = 0)

MovesOnly(s, k) ==
  /\ \A t \in Storages : \A j : t # s \/ j # k => SlotStays(t, j)
  /\ \/ SlotStays(s, k)
     \/ Told(s, k)' \in Nat /\ Told(s, k)' > Told(s, k) /\ Kept(s, k)' = Kept(s, k)
     \/ Told(s, k)' = Told(s, k) /\ Kept(s, k)' \in (Kept(s, k) + 1)..Told(s, k)

TableStep == Loads \/ Forgets \/ \E s \in Storages : \E k : MovesOnly(s, k)

LEMMA TableStepImplements == TableStep => [Table!Next]_(Table!table)
<1>1. ASSUME Loads PROVE Table!Load
  <2>1. \A slot \in Storages \X Keys :
          \/ Told(slot[1], slot[2])' = Told(slot[1], slot[2]) /\ Kept(slot[1], slot[2])' = Kept(slot[1], slot[2])
          \/ Told(slot[1], slot[2]) = 0 /\ Kept(slot[1], slot[2])' = Told(slot[1], slot[2])'
    BY <1>1 DEF Loads, SlotStays
  <2> QED BY <2>1 DEF Table!Load, Table!Untouched
<1>2. ASSUME Forgets PROVE Table!Forget
  <2>1. \A slot \in Storages \X Keys :
          \/ Told(slot[1], slot[2])' = Told(slot[1], slot[2]) /\ Kept(slot[1], slot[2])' = Kept(slot[1], slot[2])
          \/ Told(slot[1], slot[2])' = 0 /\ Kept(slot[1], slot[2])' = 0
    BY <1>2 DEF Forgets, SlotStays
  <2> QED BY <2>1 DEF Table!Forget, Table!Untouched
<1>3. ASSUME NEW s \in Storages, NEW k, MovesOnly(s, k)
      PROVE  [Table!Next]_(Table!table)
  <2> DEFINE S == Storages \X Keys
             x == <<s, k>>
             told == [slot \in S |-> Told(slot[1], slot[2])]
             kept == [slot \in S |-> Kept(slot[1], slot[2])]
             told1 == [slot \in S |-> Told(slot[1], slot[2])']
             kept1 == [slot \in S |-> Kept(slot[1], slot[2])']
  <2>1. ASSUME NEW slot \in S, slot # x
        PROVE  told1[slot] = told[slot] /\ kept1[slot] = kept[slot]
    <3>1. slot[1] \in Storages /\ (slot[1] # s \/ slot[2] # k)
      BY <2>1
    <3> QED BY <1>3, <3>1 DEF MovesOnly, SlotStays
  <2>2. CASE SlotStays(s, k) \/ k \notin Keys
    <3>1. \A slot \in S : told1[slot] = told[slot] /\ kept1[slot] = kept[slot]
      BY <2>1, <2>2 DEF SlotStays
    <3>2. told1 = told /\ kept1 = kept
      BY <3>1
    <3> QED BY <3>2 DEF Table!table
  <2>3. CASE k \in Keys /\ Told(s, k)' \in Nat /\ Told(s, k)' > Told(s, k) /\ Kept(s, k)' = Kept(s, k)
    <3>1. x \in S /\ told1[x] = Told(s, k)' /\ told[x] = Told(s, k) /\ kept1[x] = kept[x]
      BY <2>3
    <3>2. told1 = [told EXCEPT ![x] = told1[x]] /\ kept1 = kept
      <4>1. \A slot \in S : /\ told1[slot] = [told EXCEPT ![x] = told1[x]][slot]
                            /\ kept1[slot] = kept[slot]
        BY <2>1, <3>1
      <4> HIDE DEF x
      <4> QED BY <4>1
    <3>3. told1[x] \in Nat /\ told1[x] > told[x]
      BY <2>3, <3>1
    <3>4. Table!Change(x)
      BY <3>2, <3>3 DEF Table!Change
    <3> QED BY <3>1, <3>4 DEF Table!Next
  <2>4. CASE k \in Keys /\ Told(s, k)' = Told(s, k) /\ Kept(s, k)' \in (Kept(s, k) + 1)..Told(s, k)
    <3>1. x \in S /\ kept1[x] = Kept(s, k)' /\ kept[x] = Kept(s, k) /\ told1[x] = told[x] /\ told[x] = Told(s, k)
      BY <2>4
    <3>2. kept1 = [kept EXCEPT ![x] = kept1[x]] /\ told1 = told
      <4>1. \A slot \in S : /\ kept1[slot] = [kept EXCEPT ![x] = kept1[x]][slot]
                            /\ told1[slot] = told[slot]
        BY <2>1, <3>1
      <4> HIDE DEF x
      <4> QED BY <4>1
    <3>3. kept1[x] \in (kept[x] + 1)..told[x]
      BY <2>4, <3>1
    <3>4. Table!Keep(x)
      BY <3>2, <3>3 DEF Table!Keep
    <3> QED BY <3>1, <3>4 DEF Table!Next
  <2> QED BY <1>3, <2>2, <2>3, <2>4 DEF MovesOnly
<1> QED BY <1>1, <1>2, <1>3 DEF TableStep, Table!Next

-----------------------------------------------------------------------------
(* Nothing is known of slots once a file is opened twice, or when the      *)
(* process starts again.                                                   *)
LEMMA AllForgotten ==
  ASSUME SlotsAre', overlap' \/ Live' = {}
  PROVE  TableStep
<1>1. \A s \in Storages : \A k : ~Tracked(s, k)'
  BY DEF Tracked
<1> QED BY <1>1 DEF SlotsAre, TableStep, Forgets

(* What leaves a slot alone.                                               *)
LEMMA SlotKept ==
  ASSUME SlotsAre, SlotsAre', NEW s \in Storages, NEW k,
         Tracked(s, k)' <=> Tracked(s, k), Tracked(s, k) => records'[s][k] = records[s][k],
         Tracked(s, k) => Holds(s, k)' = Holds(s, k)
  PROVE  SlotStays(s, k)
<1>1. CASE Tracked(s, k)
  BY <1>1 DEF SlotsAre, SlotStays
<1>2. CASE ~Tracked(s, k)
  BY <1>2 DEF SlotsAre, SlotStays
<1> QED BY <1>1, <1>2

LEMMA HoldsStays ==
  ASSUME NEW s, NEW k, nameOf'[s] = nameOf[s], VersionsStay(nameOf[s]),
         Replacing(nameOf[s], k)' <=> Replacing(nameOf[s], k),
         Replacing(nameOf[s], k) => (sync').todo[k] = sync.todo[k]
  PROVE  Holds(s, k)' = Holds(s, k)
<1>1. InFile(s, k)' <=> InFile(s, k)
  BY DEF InFile, VersionsStay
<1>2. InFile(s, k) => LineOf(nameOf[s], k)' = LineOf(nameOf[s], k)
  BY DEF InFile, VersionsStay, LineOf
<1> QED BY <1>1, <1>2 DEF Holds

LEMMA StorageSlotsStay ==
  ASSUME IInv, SlotsAre, SlotsAre', NEW s \in Storages, StorageStays(s), overlap' <=> overlap,
         ~overlap /\ s \in Live => VersionsStay(nameOf[s]),
         \A k : Replacing(nameOf[s], k)' <=> Replacing(nameOf[s], k),
         \A k : Replacing(nameOf[s], k) => (sync').todo[k] = sync.todo[k]
  PROVE  \A k : SlotStays(s, k)
<1> SUFFICES ASSUME NEW k PROVE SlotStays(s, k)
  OBVIOUS
<1>1. Tracked(s, k)' <=> Tracked(s, k)
  BY DEF Tracked, StorageStays, Live
<1>2. Tracked(s, k) => Holds(s, k)' = Holds(s, k)
  BY HoldsStays DEF Tracked, StorageStays
<1> QED BY <1>1, <1>2, SlotKept DEF StorageStays

LEMMA AllStay ==
  ASSUME \A s \in Storages : \A k : SlotStays(s, k)
  PROVE  TableStep
BY DEF TableStep, Loads

(* Steps that touch neither records nor files.                             *)
LEMMA QuietTable ==
  ASSUME IInv, FilesInv, SlotsAre, SlotsAre', UNCHANGED <<memory, media, overlap>>,
         UNCHANGED sync \/ (sync.at \notin {"append", "place"} /\ (sync').at \notin {"append", "place"})
  PROVE  TableStep
<1>1. ASSUME NEW s \in Storages
      PROVE  \A k : SlotStays(s, k)
  <2>1. StorageStays(s)
    BY DEF StorageStays, memory
  <2>2. s \in Live => VersionsStay(nameOf[s])
    BY NamesOfLive DEF VersionsStay, media, FilesInv, DataInv, NameData, FileType
  <2>3. \A k : /\ Replacing(nameOf[s], k)' <=> Replacing(nameOf[s], k)
               /\ Replacing(nameOf[s], k) => (sync').todo[k] = sync.todo[k]
    BY DEF Replacing, memory
  <2> QED BY <2>1, <2>2, <2>3, StorageSlotsStay
<1> QED BY <1>1, AllStay

LEMMA RetrieveTable ==
  ASSUME IInv, FilesInv, IInv', FilesInv', SlotsAre, SlotsAre', ~overlap,
         NEW n \in Names, NEW s \in Storages, RetrieveStorage(n, s)
  PROVE  TableStep
<1>1. /\ UNCHANGED <<changed, deleted, disk, sync, fault, clock, currentlySyncingStorage, api>>
      /\ s \notin Live /\ nameOf' = [nameOf EXCEPT ![s] = n]
      /\ overlap' = (overlap \/ IsOpen(n))
  BY DEF RetrieveStorage, queues, Idle
<1>2. CASE overlap'
  BY <1>2, AllForgotten
<1>3. CASE ~overlap'
  <2>1. ~IsOpen(n) /\ CleanInv /\ CleanInv'
    BY <1>1, <1>3 DEF FilesInv
  <2>2. /\ nameOf'[s] = n
        /\ \A t \in Storages \ {s} : nameOf'[t] = nameOf[t] /\ records'[t] = records[t]
        /\ \A m \in Names \ {n} : files'[m] = files[m]
    BY <1>1 DEF RetrieveStorage, FilesInv, DataInv, IInv, TypeOK
  <2>3. ASSUME NEW t \in Storages \ {s}
        PROVE  \A k : SlotStays(t, k)
    <3>1. StorageStays(t)
      BY <1>1, <2>2 DEF StorageStays
    <3>2. t \in Live => VersionsStay(nameOf[t])
      <4>1. t \in Live => nameOf[t] \in Names \ {n}
        BY <2>1, NamesOfLive DEF CleanInv, OwnFiles
      <4> QED BY <2>2, <4>1 DEF VersionsStay, FilesInv, DataInv, NameData, FileType
    <3>3. \A k : /\ Replacing(nameOf[t], k)' <=> Replacing(nameOf[t], k)
                 /\ Replacing(nameOf[t], k) => (sync').todo[k] = sync.todo[k]
      BY <1>1, <2>2 DEF Replacing
    <3> QED BY <1>1, <1>3, <3>1, <3>2, <3>3, StorageSlotsStay
  <2>4. ASSUME NEW k
        PROVE  SlotStays(s, k) \/ (Told(s, k) = 0 /\ Kept(s, k)' = Told(s, k)')
    <3>1. Told(s, k) = 0 /\ Kept(s, k) = 0
      BY <1>1 DEF SlotsAre, Tracked
    <3>2. CASE ~Tracked(s, k)'
      BY <3>1, <3>2 DEF SlotsAre, SlotStays
    <3>3. CASE Tracked(s, k)'
      <4>1. /\ Told(s, k)' = records'[s][k] /\ Told(s, k)' \in 1..clock'
            /\ Kept(s, k)' = Holds(s, k)'
        BY <3>3 DEF SlotsAre
      <4>2. VersionInv(s, k)' /\ FileInv(nameOf[s])'
        BY <2>1, <2>2, <3>3 DEF CleanInv, StorageInv, Tracked
      <4>3. DOMAIN changed'[s] = {} /\ BeingWritten(s)' = {}
        <5>1. currentlySyncingStorage # s
          BY <1>1, NullIsNoStorage DEF IInv, QueueInv
        <5> QED BY <1>1, <5>1 DEF IInv, FreeInv, BeingWritten
      <4>4. InFile(s, k)' /\ LineOf(nameOf[s], k)' = records'[s][k]
        BY <4>2, <4>3 DEF VersionInv
      <4>5. LineOf(nameOf[s], k)' # BLANK
        BY <1>1, <4>1, <4>4 DEF BLANK, FilesInv, DataInv
      <4>6. ~Replacing(nameOf[s], k)'
        BY <4>2, <4>4, <4>5 DEF FileInv, Occupied, InFile
      <4> QED BY <3>1, <4>1, <4>4, <4>6 DEF Holds
    <3> QED BY <3>2, <3>3
  <2> QED BY <2>3, <2>4 DEF TableStep, Loads
<1> QED BY <1>2, <1>3

(* A version is stored: the file does not follow yet.                      *)
LEMMA ModifyTable ==
  ASSUME IInv, FilesInv, IInv', FilesInv', SlotsAre, SlotsAre', ~overlap,
         NEW s \in Storages, NEW k, InUse(s), Modify(s, k), KeysGiven
  PROVE  TableStep
<1>1. s \in Live /\ nameOf[s] \in Names /\ CleanInv /\ DataInv
  BY InUseIsLive DEF FilesInv
<1>2. /\ UNCHANGED <<nameOf, deleted, disk, sync, fault, overlap, currentlySyncingStorage>>
      /\ clock' = clock + 1 /\ clock \in Nat
      /\ records' = [records EXCEPT ![s] = Put(@, k, clock + 1)]
      /\ changed' = [changed EXCEPT ![s] = Put(@, k, clock + 1)]
  BY <1>1 DEF Modify, history, queues, DataInv
<1>3. /\ records'[s] = Put(records[s], k, clock')
      /\ \A t \in Storages \ {s} : records'[t] = records[t] /\ changed'[t] = changed[t]
  BY <1>1, <1>2 DEF DataInv, IInv, TypeOK
<1>4. /\ DOMAIN records'[s] = DOMAIN records[s] \cup {k} /\ records'[s][k] = clock'
      /\ \A j \in DOMAIN records[s] : j # k => records'[s][j] = records[s][j]
  BY <1>3 DEF Put
<1>5. /\ Live' = Live /\ ~overlap'
      /\ \A t \in Live : t \in Storages /\ VersionsStay(nameOf[t])
      /\ \A n, j : Replacing(n, j)' <=> Replacing(n, j)
      /\ sync' = sync
  BY <1>2, NamesOfLive, LinesAreVersionsToo DEF Live, KeysGiven, Replacing
<1>6. \A t \in Live : \A j : Holds(t, j)' = Holds(t, j)
  <2> SUFFICES ASSUME NEW t \in Live, NEW j PROVE Holds(t, j)' = Holds(t, j)
    OBVIOUS
  <2>1. Replacing(nameOf[t], j)' <=> Replacing(nameOf[t], j)
    BY <1>2 DEF Replacing
  <2> QED BY <1>2, <1>5, <2>1, HoldsStays
<1>7. ASSUME NEW t \in Storages, NEW j, t # s \/ j # k
      PROVE  SlotStays(t, j)
  <2>1. Tracked(t, j)' <=> Tracked(t, j)
    BY <1>2, <1>3, <1>4, <1>5, <1>7 DEF Tracked
  <2>2. Tracked(t, j) => records'[t][j] = records[t][j] /\ Holds(t, j)' = Holds(t, j)
    BY <1>3, <1>4, <1>6, <1>7 DEF Tracked
  <2> QED BY <2>1, <2>2, SlotKept
<1>8. \/ SlotStays(s, k)
      \/ Told(s, k)' \in Nat /\ Told(s, k)' > Told(s, k) /\ Kept(s, k)' = Kept(s, k)
  <2>1. CASE k \in deleted[s]
    <3>1. ~Tracked(s, k) /\ ~Tracked(s, k)'
      BY <1>2, <2>1 DEF Tracked
    <3> QED BY <3>1, SlotKept
  <2>2. CASE k \notin deleted[s]
    <3>1. Tracked(s, k)' /\ Told(s, k)' = clock + 1 /\ Kept(s, k)' = Holds(s, k)
      BY <1>1, <1>2, <1>4, <1>5, <1>6, <2>2 DEF Tracked, SlotsAre
    <3>2. CASE k \in DOMAIN records[s]
      <4>1. Tracked(s, k)
        BY <1>1, <2>2, <3>2 DEF Tracked
      <4>2. Told(s, k) \in 1..clock /\ Kept(s, k) = Holds(s, k)
        BY <4>1 DEF SlotsAre
      <4> QED BY <1>2, <3>1, <4>2
    <3>3. CASE k \notin DOMAIN records[s]
      <4>1. ~Tracked(s, k)
        BY <3>3 DEF Tracked
      <4>2. Told(s, k) = 0 /\ Kept(s, k) = 0
        BY <4>1 DEF SlotsAre
      <4>3. ~InFile(s, k)
        BY <1>1, <2>2, <3>3 DEF CleanInv, StorageInv, KeysInv, InFile
      <4> QED BY <1>2, <3>1, <4>2, <4>3 DEF Holds
    <3> QED BY <3>2, <3>3
  <2> QED BY <2>1, <2>2
<1>9. MovesOnly(s, k)
  BY <1>7, <1>8 DEF MovesOnly
<1> QED BY <1>9 DEF TableStep

LEMMA RemoveTable ==
  ASSUME IInv, FilesInv, SlotsAre, SlotsAre', ~overlap,
         NEW s \in Storages, NEW k, RemoveRecord(s, k)
  PROVE  TableStep
<1>1. /\ UNCHANGED <<nameOf, files, sync, overlap>>
      /\ records' = [records EXCEPT ![s] = Drop(@, k)]
      /\ deleted' = [deleted EXCEPT ![s] = @ \cup {k}]
  BY DEF RemoveRecord, history, media
<1>2. /\ deleted'[s] = deleted[s] \cup {k} /\ DOMAIN records'[s] = DOMAIN records[s] \ {k}
      /\ \A j \in DOMAIN records[s] : j # k => records'[s][j] = records[s][j]
      /\ \A t \in Storages \ {s} : records'[t] = records[t] /\ deleted'[t] = deleted[t]
  BY <1>1 DEF FilesInv, DataInv, Drop
<1>3. \A t : \A j : Holds(t, j)' = Holds(t, j)
  BY <1>1 DEF Holds, InFile, Replacing, LineOf
<1>4. ASSUME NEW t \in Storages, NEW j, t # s \/ j # k
      PROVE  SlotStays(t, j)
  <2>1. Tracked(t, j)' <=> Tracked(t, j)
    BY <1>1, <1>2, <1>4 DEF Tracked, Live
  <2>2. Tracked(t, j) => records'[t][j] = records[t][j]
    BY <1>2, <1>4 DEF Tracked
  <2> QED BY <1>3, <2>1, <2>2, SlotKept
<1>5. Told(s, k)' = 0 /\ Kept(s, k)' = 0
  <2>1. ~Tracked(s, k)'
    BY <1>2 DEF Tracked
  <2> QED BY <2>1 DEF SlotsAre
<1> QED BY <1>4, <1>5 DEF TableStep, Forgets

LEMMA ReadTable ==
  ASSUME IInv, FilesInv, SlotsAre, SlotsAre', ReadRecord
  PROVE  TableStep
<1>1. api.storage \in Live /\ api.key \in deleted[api.storage]
  BY DEF ReadRecord, IInv, ApiInv, HeldInv, FilesInv, WriterInv
<1>2. PICK s \in Live : s = api.storage
  BY <1>1
<1>3. /\ UNCHANGED <<nameOf, deleted, files, sync, overlap>>
      /\ \/ records' = records
         \/ \E v : records' = [records EXCEPT ![s] = Put(@, api.key, v)]
  BY <1>2 DEF ReadRecord, history
<1>4. \A t : \A j : Holds(t, j)' = Holds(t, j)
  BY <1>3 DEF Holds, InFile, Replacing, LineOf
<1>5. \A t \in Storages \ {s} : records'[t] = records[t]
  BY <1>3 DEF FilesInv, DataInv
<1>6. /\ DOMAIN records'[s] = DOMAIN records[s] \/ DOMAIN records'[s] = DOMAIN records[s] \cup {api.key}
      /\ \A j \in DOMAIN records[s] : j # api.key => records'[s][j] = records[s][j]
  <2>1. s \in DOMAIN records
    BY NamesOfLive DEF FilesInv, DataInv
  <2> QED BY <1>3, <2>1 DEF Put
<1>7. ASSUME NEW t \in Storages, NEW j
      PROVE  SlotStays(t, j)
  <2>1. (Tracked(t, j)' <=> Tracked(t, j)) /\ (Tracked(t, j) => records'[t][j] = records[t][j])
    <3>1. CASE t # s
      BY <1>3, <1>5, <3>1 DEF Tracked, Live
    <3>2. CASE t = s
      BY <1>1, <1>2, <1>3, <1>6, <3>2 DEF Tracked, Live
    <3> QED BY <3>1, <3>2
  <2> QED BY <1>4, <2>1, SlotKept
<1> QED BY <1>7, AllStay

(* A storage is destroyed: its records are forgotten.                      *)
LEMMA DestroyTable ==
  ASSUME IInv, FilesInv, SlotsAre, SlotsAre', ~overlap, NEW s \in Live, NEW n \in Names, nameOf[s] = n,
         Free(s), CloseFile(n), overlap' = overlap,
         UNCHANGED sync \/ (sync.at \notin {"append", "place"} /\ (sync').at \notin {"append", "place"})
  PROVE  TableStep
<1>1. s \in Storages /\ CleanInv /\ DataInv
  BY NamesOfLive DEF FilesInv
<1>2. /\ nameOf'[s] = NULL
      /\ \A t \in Storages \ {s} : /\ nameOf'[t] = nameOf[t] /\ records'[t] = records[t]
                                   /\ changed'[t] = changed[t] /\ deleted'[t] = deleted[t]
  BY <1>1 DEF Free, DataInv, IInv, TypeOK
<1>3. \A k : Told(s, k)' = 0 /\ Kept(s, k)' = 0
  BY <1>1, <1>2 DEF SlotsAre, Tracked, Live
<1>4. ASSUME NEW t \in Storages \ {s}
      PROVE  \A k : SlotStays(t, k)
  <2>1. StorageStays(t)
    BY <1>2 DEF StorageStays
  <2>2. t \in Live => VersionsStay(nameOf[t])
    <3>1. t \in Live => nameOf[t] \in Names \ {n}
      BY <1>1, NamesOfLive DEF CleanInv, OwnFiles
    <3>2. \A m \in Names \ {n} : files'[m] = files[m]
      BY <1>1, CloseFileIs
    <3> QED BY <1>1, <3>1, <3>2 DEF VersionsStay, DataInv, NameData, FileType
  <2>3. \A k : Replacing(nameOf[t], k)' <=> Replacing(nameOf[t], k)
    BY <1>2 DEF Replacing
  <2>4. \A k : Replacing(nameOf[t], k) => (sync').todo[k] = sync.todo[k]
    BY DEF Replacing
  <2> QED BY <2>1, <2>2, <2>3, <2>4, StorageSlotsStay
<1> QED BY <1>3, <1>4 DEF TableStep, Forgets

LEMMA SwapTable ==
  ASSUME IInv, FilesInv, SlotsAre, SlotsAre', SyncSwaps
  PROVE  TableStep
<1>1. /\ UNCHANGED <<nameOf, records, deleted, files, overlap>> /\ sync.at = "swap"
      /\ sync' = sync \/ (sync').at = "write"
  BY DEF SyncSwaps, media, IInv, TypeOK
<1>2. \A t, j : ~Replacing(nameOf[t], j) /\ ~Replacing(nameOf[t], j)'
  BY <1>1 DEF Replacing
<1>3. \A t, j : Holds(t, j)' = Holds(t, j)
  BY <1>1, <1>2 DEF Holds, InFile, LineOf
<1>4. ASSUME NEW t \in Storages, NEW j
      PROVE  SlotStays(t, j)
  BY <1>1, <1>3, SlotKept DEF Tracked, Live
<1> QED BY <1>4, AllStay

-----------------------------------------------------------------------------
(* The sync thread in the file m of the storage s.                         *)
LEMMA OtherSlotsStay ==
  ASSUME IInv, CleanInv, DataInv, WriterInv, SlotsAre, SlotsAre', NEW m \in Names, WritesOnly(m),
         Writing, NEW s \in Live, s = currentlySyncingStorage
  PROVE  \A t \in Storages \ {s} : \A k : SlotStays(t, k)
<1>1. /\ UNCHANGED <<nameOf, records, changed, deleted, overlap>>
      /\ (sync').name = m /\ sync.name = m /\ nameOf[s] = m
  BY DEF WritesOnly, memory, history, WriterInv
<1>2. ASSUME NEW t \in Live \ {s}
      PROVE  \A k : SlotStays(t, k)
  <2>1. t \in Storages /\ nameOf[t] \in Names \ {m}
    BY <1>1, NamesOfLive DEF CleanInv, OwnFiles
  <2>2. StorageStays(t)
    BY <1>1 DEF StorageStays
  <2>3. VersionsStay(nameOf[t])
    BY <2>1 DEF WritesOnly, VersionsStay, DataInv, NameData, FileType
  <2>4. \A k : ~Replacing(nameOf[t], k) /\ ~Replacing(nameOf[t], k)'
    BY <1>1, <2>1 DEF Replacing
  <2> QED BY <1>1, <2>1, <2>2, <2>3, <2>4, StorageSlotsStay
<1>3. ASSUME NEW t \in Storages \ Live
      PROVE  \A k : SlotStays(t, k)
  <2>1. t \notin Live'
    BY <1>1, <1>3 DEF Live
  <2> QED BY <1>3, <2>1, SlotKept DEF Tracked
<1> QED BY <1>2, <1>3

(* Slots of s that are not written stay.                                   *)
LEMMA OtherKeysStay ==
  ASSUME SlotsAre, SlotsAre', NEW m \in Names, WritesOnly(m), NEW s \in Live, s \in Storages, nameOf[s] = m,
         NEW j, Holds(s, j)' = Holds(s, j)
  PROVE  SlotStays(s, j)
<1>1. UNCHANGED <<nameOf, records, deleted, overlap>>
  BY DEF WritesOnly, memory, history
<1> QED BY <1>1, SlotKept DEF Tracked, Live

(* What is being written is newer than what is in the file, and no newer   *)
(* than what was stored last.                                              *)
LEMMA WrittenIsBetween ==
  ASSUME CleanInv, DataInv, SlotsAre, NEW s \in Live, s \in Storages, s = currentlySyncingStorage,
         NEW k \in DOMAIN sync.todo, Tracked(s, k)
  PROVE  /\ sync.todo[k] \in 1..Told(s, k)
         /\ InFile(s, k) => LineOf(nameOf[s], k) < sync.todo[k]
<1>1. VersionInv(s, k) /\ k \in BeingWritten(s) /\ sync.todo[k] \in 1..clock
  BY DEF CleanInv, StorageInv, Tracked, BeingWritten, DataInv
<1>2. Told(s, k) = records[s][k] /\ records[s][k] \in 1..clock
  BY DEF SlotsAre
<1>3. clock \in Nat
  BY DEF DataInv
<1>4. sync.todo[k] <= records[s][k]
  BY <1>1, <1>2, <1>3 DEF VersionInv
<1> QED BY <1>1, <1>2, <1>3, <1>4 DEF VersionInv

LEMMA BlankTable ==
  ASSUME IInv, FilesInv, SlotsAre, SlotsAre', ~overlap,
         NEW k \in DOMAIN sync.todo, SyncBlanks(k)
  PROVE  TableStep
<1> USE DEF FilesInv
<1>0. /\ currentlySyncingStorage \in Live /\ sync.at = "write" /\ sync.name \in Names /\ Writing
      /\ CleanInv /\ IsOpen(sync.name)
  BY NamesOfLive DEF SyncBlanks, WriterInv, Writing, CleanInv, OwnFiles
<1> PICK m \in Names : m = sync.name
  BY <1>0
<1> PICK s \in Live : s = currentlySyncingStorage
  BY <1>0
<1> DEFINE f == files[m]
           g == Blanked(f, k)
<1>1. /\ UNCHANGED <<retrieved, memory, queues, api, clock, fault, history>>
      /\ \/ disk' = [disk EXCEPT ![m] = f.written]
         \/ disk' = disk
      /\ files' = [files EXCEPT ![m] = g]
      /\ sync' = [sync EXCEPT !.at = "append", !.key = k]
  BY <1>0 DEF SyncBlanks, FlushedBySeek
<1>2. /\ (sync').at = "append" /\ (sync').key = k /\ (sync').name = m /\ (sync').todo = sync.todo
  BY <1>1 DEF IInv, TypeOK
<1>3. FileType(f) /\ s \in Storages /\ nameOf[s] = m /\ FileInv(m)
  BY <1>0, NamesOfLive DEF DataInv, NameData, WriterInv, CleanInv
<1>4. WritesOnly(m) /\ files'[m] = g /\ nameOf' = nameOf
  BY <1>1, <1>2 DEF WritesOnly, DataInv, memory
<1>5. /\ g.positions = f.positions
      /\ k \in DOMAIN f.positions =>
           \A i \in DOMAIN f.written : g.written[i] = IF i = f.positions[k] THEN BLANK ELSE f.written[i]
      /\ k \notin DOMAIN f.positions => g = f
  BY <1>3, BlankedIs
<1> HIDE DEF g
<1>6. \A t \in Storages \ {s} : \A j : SlotStays(t, j)
  BY <1>0, <1>4, OtherSlotsStay
<1>7. \A j : InFile(s, j) <=> j \in DOMAIN f.positions
  BY <1>3 DEF InFile
<1>8. ASSUME NEW j, j # k
      PROVE  SlotStays(s, j)
  <2>1. ~Replacing(m, j) /\ ~Replacing(m, j)'
    BY <1>0, <1>2, <1>8 DEF Replacing
  <2>2. InFile(s, j)' <=> InFile(s, j)
    BY <1>3, <1>4, <1>5 DEF InFile
  <2>3. InFile(s, j) => LineOf(m, j)' = LineOf(m, j)
    <3>1. j \in DOMAIN f.positions =>
            f.positions[j] \in DOMAIN f.written /\ (k \in DOMAIN f.positions => f.positions[j] # f.positions[k])
      BY <1>3, <1>8 DEF FileInv, Positioned
    <3> QED BY <1>4, <1>5, <1>7, <3>1 DEF LineOf
  <2>4. Holds(s, j)' = Holds(s, j)
    BY <1>3, <1>4, <2>1, <2>2, <2>3 DEF Holds
  <2> QED BY <1>3, <1>4, <2>4, OtherKeysStay
<1>9. \/ SlotStays(s, k)
      \/ Told(s, k)' = Told(s, k) /\ Kept(s, k)' \in (Kept(s, k) + 1)..Told(s, k)
  <2>1. InFile(s, k)' <=> InFile(s, k)
    BY <1>3, <1>4, <1>5 DEF InFile
  <2>2. CASE ~InFile(s, k)
    <3>1. Holds(s, k)' = Holds(s, k)
      BY <2>1, <2>2 DEF Holds
    <3> QED BY <1>3, <1>4, <3>1, OtherKeysStay
  <2>3. CASE ~Tracked(s, k)
    <3>1. ~Tracked(s, k)'
      BY <1>1, <2>3 DEF Tracked, memory, history, Live
    <3> QED BY <1>3, <2>3, <3>1, SlotKept
  <2>4. CASE InFile(s, k) /\ Tracked(s, k)
    <3>1. Tracked(s, k)' /\ records'[s][k] = records[s][k]
      BY <1>1, <2>4 DEF Tracked, memory, history, Live
    <3>2. Told(s, k)' = Told(s, k) /\ Kept(s, k)' = Holds(s, k)' /\ Kept(s, k) = Holds(s, k) /\ Kept(s, k) \in Nat
      BY <1>3, <2>4, <3>1 DEF SlotsAre
    <3>3. ~Replacing(m, k) /\ Replacing(m, k)'
      BY <1>0, <1>2 DEF Replacing
    <3>4. Holds(s, k) = LineOf(m, k) /\ Holds(s, k)' = sync.todo[k]
      BY <1>2, <1>3, <1>4, <2>1, <2>4, <3>3 DEF Holds
    <3>5. sync.todo[k] \in 1..Told(s, k) /\ LineOf(m, k) < sync.todo[k]
      BY <1>0, <1>3, <2>4, WrittenIsBetween
    <3>6. Told(s, k) \in Nat
      BY <1>3, <2>4 DEF SlotsAre
    <3> QED BY <3>2, <3>4, <3>5, <3>6
  <2> QED BY <2>2, <2>3, <2>4
<1>10. MovesOnly(s, k)
  BY <1>6, <1>8, <1>9 DEF MovesOnly
<1> QED BY <1>3, <1>10 DEF TableStep

LEMMA AppendTable ==
  ASSUME IInv, FilesInv, SlotsAre, SlotsAre', ~overlap, SyncAppends
  PROVE  TableStep
<1> USE DEF FilesInv
<1>0. /\ currentlySyncingStorage \in Live /\ sync.at = "append" /\ sync.name \in Names /\ Writing
      /\ CleanInv /\ sync.key \in DOMAIN sync.todo
  BY NamesOfLive DEF SyncAppends, WriterInv, Writing
<1> PICK m \in Names : m = sync.name
  BY <1>0
<1> PICK s \in Live : s = currentlySyncingStorage
  BY <1>0
<1> PICK v \in 1..clock : v = sync.todo[sync.key]
  BY <1>0 DEF DataInv
<1> DEFINE f == files[m]
           g == Appended(f, v)
<1>1. /\ UNCHANGED <<retrieved, memory, queues, api, clock, fault, history>>
      /\ disk' \in {[disk EXCEPT ![m] = f.written], [disk EXCEPT ![m] = g.written]}
      /\ files' = [files EXCEPT ![m] = g]
      /\ sync' = [sync EXCEPT !.at = "place", !.line = Len(g.written)]
  BY DEF SyncAppends, FlushedBySeek
<1>2. /\ (sync').at = "place" /\ (sync').key = sync.key /\ (sync').name = m /\ (sync').todo = sync.todo
  BY <1>1 DEF IInv, TypeOK
<1>3. FileType(f) /\ s \in Storages /\ nameOf[s] = m /\ FileInv(m) /\ clock \in Nat /\ v \in Nat
  BY <1>0, NamesOfLive DEF DataInv, NameData, WriterInv, CleanInv
<1>4. WritesOnly(m) /\ files'[m] = g /\ nameOf' = nameOf
  BY <1>1, <1>2 DEF WritesOnly, DataInv, memory
<1>5. /\ g.positions = f.positions /\ g.nextKey = f.nextKey
      /\ \A i \in DOMAIN f.written : g.written[i] = f.written[i]
  <2> HIDE DEF f
  <2> QED BY <1>3, AppendedIs
<1> HIDE DEF g
<1>6. \A t \in Storages \ {s} : \A j : SlotStays(t, j)
  BY <1>0, <1>4, OtherSlotsStay
<1>7. VersionsStay(m)
  <2>1. f.nextKey \in Int
    BY <1>3 DEF FileType
  <2>2. \A j \in DOMAIN f.positions : f.positions[j] \in DOMAIN f.written
    BY <1>3 DEF FileInv, Positioned
  <2> QED BY <1>4, <1>5, <2>1, <2>2 DEF VersionsStay
<1>8. ASSUME NEW j
      PROVE  SlotStays(s, j)
  <2>1. Replacing(m, j)' <=> Replacing(m, j)
    BY <1>0, <1>2 DEF Replacing
  <2>2. Holds(s, j)' = Holds(s, j)
    BY <1>2, <1>3, <1>4, <1>7, <2>1, HoldsStays
  <2> QED BY <1>3, <1>4, <2>2, OtherKeysStay
<1> QED BY <1>6, <1>8, AllStay

LEMMA PlaceTable ==
  ASSUME IInv, FilesInv, SlotsAre, SlotsAre', ~overlap, SyncPlaces
  PROVE  TableStep
<1> USE DEF FilesInv
<1>0. /\ currentlySyncingStorage \in Live /\ sync.at = "place" /\ sync.name \in Names /\ Writing
      /\ CleanInv /\ sync.key \in DOMAIN sync.todo
  BY NamesOfLive DEF SyncPlaces, WriterInv, Writing
<1> PICK m \in Names : m = sync.name
  BY <1>0
<1> PICK s \in Live : s = currentlySyncingStorage
  BY <1>0
<1> PICK k \in DOMAIN sync.todo : k = sync.key
  BY <1>0
<1> PICK line : line = sync.line
  OBVIOUS
<1> DEFINE f == files[m]
           g == Placed(f, k, line)
<1>1. /\ UNCHANGED <<retrieved, memory, queues, api, clock, fault, history, disk>>
      /\ files' = [files EXCEPT ![m] = g]
      /\ sync' = [sync EXCEPT !.at = "write", !.todo = Drop(@, k), !.key = NoKey, !.line = 0]
  BY DEF SyncPlaces
<1>2. /\ (sync').at = "write" /\ (sync').name = m
  BY <1>1 DEF IInv, TypeOK
<1>3. FileType(f) /\ s \in Storages /\ nameOf[s] = m /\ FileInv(m)
  BY <1>0, NamesOfLive DEF DataInv, NameData, WriterInv, CleanInv
<1>4. WritesOnly(m) /\ files'[m] = g /\ nameOf' = nameOf
  BY <1>1, <1>2 DEF WritesOnly, DataInv, memory
<1>5. /\ g.written = f.written
      /\ DOMAIN g.positions = DOMAIN f.positions \cup {k}
      /\ g.positions[k] = line
      /\ \A j \in DOMAIN f.positions : j # k => g.positions[j] = f.positions[j]
  BY <1>3, PlacedIs
<1> HIDE DEF g
<1>6. \A t \in Storages \ {s} : \A j : SlotStays(t, j)
  BY <1>0, <1>4, OtherSlotsStay
<1>7. \A j : ~Replacing(m, j)' /\ (Replacing(m, j) <=> j = k)
  BY <1>0, <1>2 DEF Replacing
<1>8. ASSUME NEW j, j # k
      PROVE  SlotStays(s, j)
  <2>1. InFile(s, j)' <=> InFile(s, j)
    BY <1>3, <1>4, <1>5, <1>8 DEF InFile
  <2>2. InFile(s, j) => LineOf(m, j)' = LineOf(m, j)
    BY <1>3, <1>4, <1>5, <1>8 DEF LineOf, InFile
  <2>3. Holds(s, j)' = Holds(s, j)
    BY <1>3, <1>4, <1>7, <1>8, <2>1, <2>2 DEF Holds
  <2> QED BY <1>3, <1>4, <2>3, OtherKeysStay
<1>9. InFile(s, k)' /\ LineOf(m, k)' = sync.todo[k] /\ Holds(s, k)' = sync.todo[k]
  <2>1. f.written[line] = sync.todo[k]
    BY <1>0 DEF CleanInv, AddedInv
  <2>2. InFile(s, k)' /\ LineOf(m, k)' = sync.todo[k]
    BY <1>3, <1>4, <1>5, <2>1 DEF InFile, LineOf
  <2> QED BY <1>3, <1>4, <1>7, <2>2 DEF Holds
<1>10. \/ SlotStays(s, k)
       \/ Told(s, k)' = Told(s, k) /\ Kept(s, k)' \in (Kept(s, k) + 1)..Told(s, k)
  <2>1. CASE ~Tracked(s, k)
    <3>1. ~Tracked(s, k)'
      BY <1>1, <2>1 DEF Tracked, memory, history, Live
    <3> QED BY <1>3, <2>1, <3>1, SlotKept
  <2>2. CASE InFile(s, k)
    <3>1. Holds(s, k) = sync.todo[k]
      BY <1>3, <1>7, <2>2 DEF Holds
    <3> QED BY <1>3, <1>4, <1>9, <3>1, OtherKeysStay
  <2>3. CASE Tracked(s, k) /\ ~InFile(s, k)
    <3>1. Tracked(s, k)' /\ records'[s][k] = records[s][k]
      BY <1>1, <2>3 DEF Tracked, memory, history, Live
    <3>2. Told(s, k)' = Told(s, k) /\ Kept(s, k)' = Holds(s, k)' /\ Kept(s, k) = Holds(s, k)
      BY <1>3, <2>3, <3>1 DEF SlotsAre
    <3>3. Holds(s, k) = 0
      BY <2>3 DEF Holds
    <3>4. sync.todo[k] \in 1..Told(s, k)
      BY <1>0, <1>3, <2>3, WrittenIsBetween
    <3>5. Told(s, k) \in Nat
      BY <1>3, <2>3 DEF SlotsAre
    <3> QED BY <1>9, <3>2, <3>3, <3>4, <3>5
  <2> QED BY <2>1, <2>2, <2>3
<1>11. MovesOnly(s, k)
  BY <1>6, <1>8, <1>10 DEF MovesOnly
<1> QED BY <1>3, <1>11 DEF TableStep

-----------------------------------------------------------------------------
(* The other steps of the two threads.                                     *)
LEMMA QuietCallsTable ==
  ASSUME IInv, FilesInv, SlotsAre, SlotsAre',
         \/ \E s \in Storages : \E k : LookUpRecord(s, k)
         \/ RecordsChanged \/ Close \/ CloseJoins \/ Signal \/ CloseAsksToEnd
         \/ SyncTakesStorage \/ SyncWaitsOrEnds \/ SpuriousWakeup
  PROVE  TableStep
<1>1. UNCHANGED <<memory, media, overlap>>
  BY DEF LookUpRecord, RecordsChanged, Close, CloseJoins, Signal, CloseAsksToEnd,
         SyncTakesStorage, SyncWaitsOrEnds, SpuriousWakeup, history
<1>2. UNCHANGED sync \/ (sync.at \notin {"append", "place"} /\ (sync').at \notin {"append", "place"})
  <2>1. CASE sync' = Woken
    BY <2>1, WokenIsQuiet DEF FilesInv, Writing
  <2>2. ASSUME SyncTakesStorage \/ SyncWaitsOrEnds
        PROVE  sync.at \notin {"append", "place"} /\ (sync').at \notin {"append", "place"}
    BY <2>2 DEF SyncTakesStorage, SyncWaitsOrEnds, IInv, TypeOK
  <2> QED BY <2>1, <2>2 DEF LookUpRecord, RecordsChanged, Close, CloseJoins, Signal, CloseAsksToEnd, SpuriousWakeup
<1> QED BY <1>1, <1>2, QuietTable

LEMMA ReleaseTable ==
  ASSUME IInv, FilesInv, SlotsAre, SlotsAre', ~overlap,
         NEW n \in Names, ReleaseStorage(n) \/ CloseReleases(n)
  PROVE  TableStep
<1>1. ReleaseButDontRemove(n) /\ UNCHANGED <<sync, overlap>>
  BY DEF ReleaseStorage, CloseReleases
<1>2. Held(n)
  <2>1. CASE ReleaseStorage(n)
    <3>1. ~api.closing /\ retrieved[n] # NULL
      BY <2>1 DEF ReleaseStorage, Idle
    <3> QED BY <3>1 DEF Held
  <2>2. CASE CloseReleases(n)
    <3>1. n \in api.left /\ api.at = "closing"
      BY <2>2 DEF CloseReleases
    <3> QED BY <3>1 DEF Held, IInv, ApiInv
  <2> QED BY <2>1, <2>2
<1>3. retrieved[n] \in Live /\ nameOf[retrieved[n]] = n
  BY <1>2 DEF IInv, HeldInv
<1> PICK s \in Live : s = retrieved[n]
  BY <1>3
<1>4. CASE HasChanges(s)
  <2>1. UNCHANGED <<memory, media>>
    BY <1>1, <1>4 DEF ReleaseButDontRemove
  <2> QED BY <1>1, <2>1, QuietTable
<1>5. CASE ~HasChanges(s)
  <2>1. Free(s) /\ CloseFile(n)
    BY <1>1, <1>5 DEF ReleaseButDontRemove
  <2> QED BY <1>1, <1>3, <2>1, DestroyTable
<1> QED BY <1>4, <1>5

LEMMA FinishTable ==
  ASSUME IInv, FilesInv, SlotsAre, SlotsAre', ~overlap, SyncFinishes
  PROVE  TableStep
<1>1. /\ currentlySyncingStorage \in Live /\ sync.at = "write"
      /\ sync.name = nameOf[currentlySyncingStorage] /\ sync.name \in Names
  BY NamesOfLive DEF SyncFinishes, FilesInv, WriterInv, Writing
<1> PICK s \in Live : s = currentlySyncingStorage
  BY <1>1
<1> PICK n \in Names : n = sync.name
  BY <1>1
<1>2. overlap' = overlap /\ sync' = AtRest
  BY DEF SyncFinishes
<1>3. sync.at \notin {"append", "place"} /\ (sync').at \notin {"append", "place"}
  BY <1>1, <1>2 DEF AtRest
<1>4. CASE s \in releasedStorages
  <2>1. Free(s) /\ CloseFile(n)
    BY <1>4 DEF SyncFinishes
  <2> QED BY <1>1, <1>2, <1>3, <2>1, DestroyTable
<1>5. CASE s \notin releasedStorages
  <2>1. UNCHANGED <<memory, media>>
    BY <1>5 DEF SyncFinishes
  <2> QED BY <1>2, <1>3, <2>1, QuietTable
<1> QED BY <1>4, <1>5

LEMMA ModifyRecordTable ==
  ASSUME IInv, FilesInv, IInv', FilesInv', SlotsAre, SlotsAre', ~overlap,
         NEW s \in Storages, NEW k, ModifyRecord(s, k)
  PROVE  TableStep
<1>1. InUse(s) /\ Modify(s, k) /\ files' = files
  BY DEF ModifyRecord
<1>2. KeysGiven
  BY <1>1, SameFiles DEF FilesInv
<1> QED BY <1>1, <1>2, ModifyTable

LEMMA StoreTable ==
  ASSUME IInv, FilesInv, IInv', FilesInv', SlotsAre, SlotsAre', ~overlap,
         NEW s \in Storages, StoreRecord(s)
  PROVE  TableStep
<1> DEFINE m == nameOf[s]
           k == files[m].nextKey
<1>1. /\ InUse(s) /\ Modify(s, k)
      /\ files' = IF IsOpen(m) THEN [files EXCEPT ![m].nextKey = @ + 1] ELSE files
  BY DEF StoreRecord
<1>2. m \in Names /\ s \in Live /\ DataInv /\ IsOpen(m)
  BY <1>1, InUseIsLive DEF FilesInv, CleanInv, OwnFiles
<1>3. files' = [files EXCEPT ![m].nextKey = @ + 1]
  BY <1>1, <1>2
<1>4. KeysGiven
  BY <1>2, <1>3, NextKeyGiven
<1> HIDE DEF k
<1> QED BY <1>1, <1>4, ModifyTable

-----------------------------------------------------------------------------
LEMMA OverlapLasts == overlap /\ Next => overlap' \/ Live' = {}
<1> SUFFICES ASSUME overlap, Next PROVE overlap' \/ Live' = {}
  OBVIOUS
<1>1. CASE Restart \/ Crash
  BY <1>1 DEF Restart, Crash, Started, Live
<1>2. CASE Caller
  BY <1>2 DEF Caller, RetrieveStorage, ModifyRecord, StoreRecord, Modify, RemoveRecord, LookUpRecord,
              ReleaseStorage, Close, history
<1>3. CASE CallGoesOn
  BY <1>3 DEF CallGoesOn, ReadRecord, RecordsChanged, Signal, CloseReleases, CloseAsksToEnd,
              CloseJoins, history
<1>4. CASE SyncThread \/ SpuriousWakeup
  BY <1>4 DEF SyncThread, SpuriousWakeup, SyncTakesStorage, SyncWaitsOrEnds, SyncSwaps, SyncBlanks,
              SyncAppends, SyncPlaces, SyncFinishes, history
<1> QED BY <1>1, <1>2, <1>3, <1>4 DEF Next

LEMMA NextTable ==
  ASSUME IInv, FilesInv, IInv', FilesInv', [Next]_vars
  PROVE  [Table!Next]_(Table!table)
<1>1. SlotsAre /\ SlotsAre'
  BY SlotsInv, SlotsInvAfter
<1>2. CASE UNCHANGED vars
  <2>1. UNCHANGED <<memory, media, overlap, sync>>
    BY <1>2 DEF vars, history
  <2> QED BY <1>1, <2>1, QuietTable, TableStepImplements
<1>3. CASE Next /\ (overlap \/ Restart \/ Crash)
  <2>1. overlap' \/ Live' = {}
    BY <1>3, OverlapLasts DEF Restart, Crash, Started, Live
  <2> QED BY <1>1, <2>1, AllForgotten, TableStepImplements
<1>4. CASE ~overlap /\ Running /\ Caller
  <2>1. ASSUME NEW n \in Names, NEW s \in Storages, RetrieveStorage(n, s)
        PROVE  TableStep
    BY <1>1, <1>4, <2>1, RetrieveTable
  <2>2. ASSUME NEW s \in Storages, NEW k, ModifyRecord(s, k)
        PROVE  TableStep
    BY <1>1, <1>4, <2>2, ModifyRecordTable
  <2>3. ASSUME NEW s \in Storages, StoreRecord(s)
        PROVE  TableStep
    BY <1>1, <1>4, <2>3, StoreTable
  <2>4. ASSUME NEW s \in Storages, NEW k, RemoveRecord(s, k)
        PROVE  TableStep
    BY <1>1, <1>4, <2>4, RemoveTable
  <2>5. ASSUME NEW s \in Storages, NEW k, LookUpRecord(s, k)
        PROVE  TableStep
    BY <1>1, <2>5, QuietCallsTable
  <2>6. ASSUME NEW n \in Names, ReleaseStorage(n)
        PROVE  TableStep
    BY <1>1, <1>4, <2>6, ReleaseTable
  <2>7. ASSUME Close
        PROVE  TableStep
    BY <1>1, <2>7, QuietCallsTable
  <2>8. TableStep
    BY <1>4, <2>1, <2>2, <2>3, <2>4, <2>5, <2>6, <2>7 DEF Caller
  <2> QED BY <2>8, TableStepImplements
<1>5. CASE ~overlap /\ Running /\ CallGoesOn
  <2>1. ASSUME NEW n \in Names, CloseReleases(n)
        PROVE  TableStep
    BY <1>1, <1>5, <2>1, ReleaseTable
  <2>2. ASSUME RecordsChanged \/ Signal \/ CloseAsksToEnd \/ CloseJoins
        PROVE  TableStep
    BY <1>1, <2>2, QuietCallsTable
  <2>3. TableStep
    BY <1>1, <1>5, <2>1, <2>2, ReadTable DEF CallGoesOn
  <2> QED BY <2>3, TableStepImplements
<1>6. CASE ~overlap /\ Running /\ SyncThread
  <2>1. ASSUME NEW k \in DOMAIN sync.todo, SyncBlanks(k)
        PROVE  TableStep
    BY <1>1, <1>6, <2>1, BlankTable
  <2>2. ASSUME SyncTakesStorage \/ SyncWaitsOrEnds
        PROVE  TableStep
    BY <1>1, <2>2, QuietCallsTable
  <2>3. TableStep
    BY <1>1, <1>6, <2>1, <2>2, SwapTable, AppendTable, PlaceTable, FinishTable DEF SyncThread
  <2> QED BY <2>3, TableStepImplements
<1>7. CASE SpuriousWakeup
  BY <1>1, <1>7, QuietCallsTable, TableStepImplements
<1> QED BY <1>2, <1>3, <1>4, <1>5, <1>6, <1>7 DEF Next

(* Detailed and abstract specification: the files follow the memory, and   *)
(* never go back, whatever the two threads, restarts and crashes do.       *)
THEOREM ManagerWritesBehind == Spec => FileFollowsMemory
<1>1. Init => Table!Init
  <2> SUFFICES ASSUME Init PROVE Table!Init
    OBVIOUS
  <2>1. \A s \in Storages, k \in Keys : Told(s, k) = 0 /\ Kept(s, k) = 0
    BY DEF Init, Told, Kept, Live
  <2>2. \A slot \in Storages \X Keys : Told(slot[1], slot[2]) = 0 /\ Kept(slot[1], slot[2]) = 0
    BY <2>1
  <2> QED BY <2>2 DEF Table!Init
<1>2. (IInv /\ FilesInv) /\ (IInv /\ FilesInv)' /\ [Next]_vars => [Table!Next]_(Table!table)
  BY NextTable
<1> QED BY <1>1, <1>2, FilesInductive, PTL DEF Spec, FileFollowsMemory, Table!Promise
=============================================================================
