---------------------------- MODULE Persistence -----------------------------
(* The persistence manager: AbstractPersistenceManager with its sync       *)
(* thread, PersistentStorage, and FilePersistenceManager (all in           *)
(* daemon/src/).  Two threads:                                             *)
(*                                                                         *)
(*   - the one that uses the API (retrieve and release storages; store,    *)
(*     modify, remove and retrieve records; close).  `api` says how far it *)
(*     is in an operation, "idle" between two operations;                  *)
(*   - the sync thread, which takes storages off `changedStorages` and     *)
(*     writes their changes.  `sync` says how far it is.                   *)
(*                                                                         *)
(* A step is what a thread does under one lock, or between two locks.      *)
(* Storages are addresses: `nameOf[s] = NULL` if none is allocated at s.   *)
(* The three types of storages, which the code treats alike, are one.      *)
(* Content of records: see RecordFile.  All versions are different; they   *)
(* come from `clock`, which the constant MaxVersion bounds.                *)
EXTENDS RecordFile

CONSTANTS
  Storages,     \* addresses of PersistentStorage objects
  Names,        \* pairs of group and id
  FirstLines,   \* the contents of all files before the first start: versions
                \* that were given before
  MaxVersion,   \* bound of the versions that records get
  Compacting,   \* FilePersistenceManager::useCompaction
  NULL

ASSUME NullIsNoStorage == NULL \notin Storages /\ NULL \notin Names
ASSUME VersionsArePositive == MaxVersion \in Nat
ASSUME LinesAreVersions == FirstLines \in Seq(0..Len(FirstLines))
ASSUME CompactingIsFlag == Compacting \in BOOLEAN

VARIABLES
  retrieved,                \* name -> storage: listStorages and its siblings
  nameOf,                   \* the group and id of a storage
  records,                  \* its records, as a function from keys
  changed,                  \* its changedRecords
  deleted,                  \* its deletedRecords
  changedStorages,          \* the queue to the sync thread
  releasedStorages,         \* released, to be destroyed by the sync thread
  currentlySyncingStorage,
  syncingShouldEnd,
  files,                    \* name -> open file
  disk,                     \* name -> lines that the operating system has
  api,                      \* [at, storage, key, line, closing, left]
  sync,                     \* [at, name, todo, key, line]
  clock,                    \* the last version given to a record
  fault,                    \* why the process has died
  late,                     \* history: storages with a change nobody was told of
  overlap                   \* history: a storage was retrieved while the
                            \* previous one of its name was still to be written

memory == <<nameOf, records, changed, deleted>>
queues == <<changedStorages, releasedStorages, currentlySyncingStorage, syncingShouldEnd>>
media == <<files, disk>>
history == <<late, overlap>>
vars == <<retrieved, memory, queues, media, api, sync, clock, fault, history>>

Running == fault = "none"
Live == {s \in Storages : nameOf[s] # NULL}
Queued == {changedStorages[i] : i \in DOMAIN changedStorages}

NoRecords == [k \in {} |-> 0]

Idle == [at |-> "idle", storage |-> NULL, key |-> NoKey, line |-> 0, closing |-> FALSE, left |-> {}]
AtRest == [at |-> "check", name |-> NULL, todo |-> NoRecords, key |-> NoKey, line |-> 0]

Init ==
  /\ retrieved = [n \in Names |-> NULL]
  /\ nameOf = [s \in Storages |-> NULL]
  /\ records = [s \in Storages |-> NoRecords]
  /\ changed = [s \in Storages |-> NoRecords]
  /\ deleted = [s \in Storages |-> {}]
  /\ changedStorages = <<>>
  /\ releasedStorages = {}
  /\ currentlySyncingStorage = NULL
  /\ syncingShouldEnd = FALSE
  /\ files = [n \in Names |-> NoFile]
  /\ api = Idle
  /\ sync = AtRest
  /\ fault = "none"
  /\ late = {}
  /\ overlap = FALSE
  /\ disk = [n \in Names |-> FirstLines]
  /\ clock = Len(FirstLines)
-----------------------------------------------------------------------------
(* Files.                                                                  *)

IsOpen(n) == files[n] # NoFile

(* Mutant: a seek does not flush.                                          *)
NotFlushed(n) == disk

(* A seek flushes what was written before.                                 *)
FlushedBySeek(n) == [disk EXCEPT ![n] = files[n].written]

(* destroyStorage closes the file: if the sync thread is between two       *)
(* accesses to it, the next one is to freed memory.                        *)
Closed(lines) == IF Compacting THEN Compacted(lines) ELSE lines

CloseFile(n) ==
  IF IsOpen(n)
  THEN /\ disk' = [disk EXCEPT ![n] = Closed(files[n].written)]
       /\ files' = [files EXCEPT ![n] = NoFile]
  ELSE UNCHANGED media

WriterUses(n) == sync.name = n /\ sync.at \in {"append", "place"} /\ IsOpen(n)
-----------------------------------------------------------------------------
(* The thread that uses the API.                                           *)

(* retrieveXStorage of a storage that has not been retrieved yet:          *)
(* createXStorage opens the file and, blocking being allowed, reads it.    *)
(* If the file of a released storage is still open, files->insert does     *)
(* nothing: keys come from the old file, and the new one is in no table.   *)
RetrieveStorage(n, s) ==
  /\ api = Idle /\ ~syncingShouldEnd
  /\ retrieved[n] = NULL
  /\ s \notin Live
  /\ retrieved' = [retrieved EXCEPT ![n] = s]
  /\ nameOf' = [nameOf EXCEPT ![s] = n]
  /\ IF IsOpen(n)
     THEN /\ files' = [files EXCEPT
                  ![n].nextKey = @ + Cardinality(RecordLines(disk[n]))]
          /\ records' = [records EXCEPT ![s] = RecordsOf(disk[n], files[n].nextKey)]
     ELSE /\ files' = [files EXCEPT ![n] = Opened(disk[n])]
          /\ records' = [records EXCEPT ![s] = RecordsOf(disk[n], 0)]
  /\ overlap' = (overlap \/ IsOpen(n))
  /\ UNCHANGED <<changed, deleted, queues, disk, api, sync, clock, fault, late>>

(* Mutant: a record that is changed twice is written as it was first.      *)
ModifyKeepsFirst(s, k) ==
  /\ clock < MaxVersion
  /\ clock' = clock + 1
  /\ records' = [records EXCEPT ![s] = Put(@, k, clock + 1)]
  /\ changed' = IF k \in DOMAIN changed[s] THEN changed
                ELSE [changed EXCEPT ![s] = Put(@, k, clock + 1)]
  /\ api' = [api EXCEPT !.at = "queue", !.storage = s]
  /\ UNCHANGED <<retrieved, nameOf, deleted, queues, disk, sync, fault, history>>

(* PersistentStorage::modify, up to the call of recordsChanged.            *)
Modify(s, k) ==
  /\ clock < MaxVersion
  /\ clock' = clock + 1
  /\ records' = [records EXCEPT ![s] = Put(@, k, clock + 1)]
  /\ changed' = [changed EXCEPT ![s] = Put(@, k, clock + 1)]
  /\ api' = [api EXCEPT !.at = "queue", !.storage = s]
  /\ UNCHANGED <<retrieved, nameOf, deleted, queues, disk, sync, fault, history>>

(* The storages whose records the program may use.                         *)
InUse(s) == api = Idle /\ \E n \in Names : retrieved[n] = s

ModifyRecord(s, k) ==
  /\ InUse(s)
  /\ k \in DOMAIN records[s] \cup deleted[s]
  /\ Modify(s, k)
  /\ UNCHANGED files

(* store: the key comes from the file, if there is one.                    *)
StoreRecord(s) ==
  /\ InUse(s)
  /\ Modify(s, files[nameOf[s]].nextKey)
  /\ files' = IF IsOpen(nameOf[s]) THEN [files EXCEPT ![nameOf[s]].nextKey = @ + 1] ELSE files

RemoveRecord(s, k) ==
  /\ InUse(s)
  /\ k \in DOMAIN records[s]
  /\ records' = [records EXCEPT ![s] = Drop(@, k)]
  /\ changed' = [changed EXCEPT ![s] = Drop(@, k)]
  /\ deleted' = [deleted EXCEPT ![s] = @ \cup {k}]
  /\ api' = [api EXCEPT !.at = "queue", !.storage = s]
  /\ UNCHANGED <<retrieved, nameOf, queues, media, sync, clock, fault, history>>

(* retrieve of a record that is not in memory looks its position up ...    *)
LookUpRecord(s, k) ==
  /\ InUse(s)
  /\ k \in deleted[s] \ DOMAIN records[s]
  /\ k \in DOMAIN files[nameOf[s]].positions
  /\ api' = [api EXCEPT !.at = "read", !.storage = s, !.key = k,
                        !.line = files[nameOf[s]].positions[k]]
  /\ UNCHANGED <<retrieved, memory, queues, media, sync, clock, fault, history>>

(* ... and reads that line, whatever is there by now.                      *)
ReadRecord ==
  LET n == nameOf[api.storage] IN
  /\ api.at = "read"
  /\ IF IsOpen(n)
     THEN /\ disk' = FlushedBySeek(n)
          /\ records' = [records EXCEPT
                 ![api.storage] = Put(@, api.key, files[n].written[api.line])]
          /\ UNCHANGED fault
     ELSE fault' = "freed file" /\ UNCHANGED <<disk, records>>
  /\ api' = Idle
  /\ UNCHANGED <<retrieved, nameOf, changed, deleted, queues, files, sync, clock, history>>

(* Mutants: a storage that is just being written counts as unchanged; any  *)
(* storage counts as changed while one is queued.                          *)
OnlyQueued(s) == s \in Queued
AnyQueued(s) == currentlySyncingStorage = s \/ Queued # {}

(* recordsChanged, under its first lock ...                                *)
HasChanges(s) == currentlySyncingStorage = s \/ s \in Queued

RecordsChanged ==
  LET s == api.storage IN
  /\ api.at = "queue"
  /\ IF HasChanges(s)
     THEN UNCHANGED changedStorages /\ api' = Idle
     ELSE /\ changedStorages' = Append(changedStorages, s)
          /\ api' = [api EXCEPT !.at = "signal", !.storage = NULL]
  /\ late' = IF /\ currentlySyncingStorage = s /\ sync.at # "swap"
                /\ DOMAIN changed[s] # {}
             THEN late \cup {s} ELSE late
  /\ UNCHANGED <<retrieved, memory, releasedStorages, currentlySyncingStorage,
                 syncingShouldEnd, media, sync, clock, fault, overlap>>

(* ... and pthread_cond_signal, here and in releaseStorageButDontRemove.   *)
Woken == IF sync.at = "waiting" THEN [sync EXCEPT !.at = "check"] ELSE sync

Signal ==
  /\ api.at = "signal"
  /\ sync' = Woken
  /\ api' = [api EXCEPT !.at = IF api.closing THEN "closing" ELSE "idle"]
  /\ UNCHANGED <<retrieved, memory, queues, media, clock, fault, history>>

(* A storage is deleted.                                                   *)
Free(s) ==
  /\ nameOf' = [nameOf EXCEPT ![s] = NULL]
  /\ records' = [records EXCEPT ![s] = NoRecords]
  /\ changed' = [changed EXCEPT ![s] = NoRecords]
  /\ deleted' = [deleted EXCEPT ![s] = {}]
  /\ late' = late \ {s}

(* releaseStorageButDontRemove: a storage without changes is destroyed at  *)
(* once, one with changes is left to the sync thread.                      *)
ReleaseButDontRemove(n) ==
  LET s == retrieved[n] IN
  IF HasChanges(s)
  THEN /\ releasedStorages' = releasedStorages \cup {s}
       /\ UNCHANGED <<memory, media, fault, late>>
  ELSE /\ Free(s)
       /\ CloseFile(n)
       /\ fault' = IF WriterUses(n) THEN "freed file" ELSE "none"
       /\ UNCHANGED releasedStorages

ReleaseStorage(n) ==
  /\ api = Idle
  /\ retrieved[n] # NULL
  /\ api' = [api EXCEPT !.at = IF HasChanges(retrieved[n]) THEN "signal" ELSE "idle"]
  /\ ReleaseButDontRemove(n)
  /\ retrieved' = [retrieved EXCEPT ![n] = NULL]
  /\ UNCHANGED <<changedStorages, currentlySyncingStorage, syncingShouldEnd, sync,
                 clock, overlap>>

(* close, in a state of the server in which it may block: it releases all  *)
(* storages (their entries stay in the tables, and are not used again),    *)
(* asks the sync thread to end, and joins it.                              *)
Close ==
  /\ api = Idle
  /\ ~syncingShouldEnd
  /\ api' = [api EXCEPT !.at = "closing", !.closing = TRUE, !.left = {n \in Names : retrieved[n] # NULL}]
  /\ UNCHANGED <<retrieved, memory, queues, media, sync, clock, fault, history>>

CloseReleases(n) ==
  /\ api.at = "closing"
  /\ n \in api.left
  /\ api' = [api EXCEPT !.left = @ \ {n},
                        !.at = IF HasChanges(retrieved[n]) THEN "signal" ELSE "closing"]
  /\ ReleaseButDontRemove(n)
  /\ UNCHANGED <<retrieved, changedStorages, currentlySyncingStorage, syncingShouldEnd,
                 sync, clock, overlap>>

(* Mutant: the sync thread is not woken.                                   *)
CloseEndsSilently ==
  /\ api.at = "closing"
  /\ api.left = {}
  /\ syncingShouldEnd' = TRUE
  /\ api' = [api EXCEPT !.at = "join"]
  /\ UNCHANGED <<retrieved, memory, changedStorages, releasedStorages,
                 currentlySyncingStorage, media, sync, clock, fault, history>>

CloseAsksToEnd ==
  /\ api.at = "closing"
  /\ api.left = {}
  /\ syncingShouldEnd' = TRUE
  /\ sync' = Woken
  /\ api' = [api EXCEPT !.at = "join"]
  /\ UNCHANGED <<retrieved, memory, changedStorages, releasedStorages,
                 currentlySyncingStorage, media, clock, fault, history>>

CloseJoins ==
  /\ api.at = "join"
  /\ sync.at = "ended"
  /\ api' = [api EXCEPT !.at = "closed"]
  /\ UNCHANGED <<retrieved, memory, queues, media, sync, clock, fault, history>>
-----------------------------------------------------------------------------
(* The sync thread: syncRecords.                                           *)

SyncTakesStorage ==
  /\ sync.at = "check"
  /\ changedStorages # <<>>
  /\ currentlySyncingStorage' = Head(changedStorages)
  /\ changedStorages' = Tail(changedStorages)
  /\ sync' = [sync EXCEPT !.at = "swap"]
  /\ UNCHANGED <<retrieved, memory, releasedStorages, syncingShouldEnd, media, api,
                 clock, fault, history>>

SyncWaitsOrEnds ==
  /\ sync.at = "check"
  /\ changedStorages = <<>>
  /\ sync' = [sync EXCEPT !.at = IF syncingShouldEnd THEN "ended" ELSE "waiting"]
  /\ UNCHANGED <<retrieved, memory, queues, media, api, clock, fault, history>>

(* pthread_cond_wait may return without a signal.                          *)
SpuriousWakeup ==
  /\ sync.at = "waiting"
  /\ sync' = Woken
  /\ UNCHANGED <<retrieved, memory, queues, media, api, clock, fault, history>>

(* getRecordsToSync: the thread itself has just set what swapRequested     *)
(* asks for, so that the changes are swapped out.  deletedRecords are not. *)
SyncSwaps ==
  LET s == currentlySyncingStorage IN
  /\ sync.at = "swap"
  /\ IF s \in Live
     THEN /\ sync' = [sync EXCEPT !.at = "write", !.name = nameOf[s], !.todo = changed[s]]
          /\ changed' = [changed EXCEPT ![s] = NoRecords]
          /\ late' = late \ {s}
          /\ UNCHANGED fault
     ELSE fault' = "freed storage" /\ UNCHANGED <<sync, changed, late>>
  /\ UNCHANGED <<retrieved, nameOf, records, deleted, queues, media, api, clock, overlap>>

(* The changes are written in the order of their keys.                     *)
NextToWrite(k) == k \in DOMAIN sync.todo /\ \A j \in DOMAIN sync.todo : k <= j

(* writeRecord: the old line, if there is one, is blanked (deleteRecord    *)
(* seeks to read its length); without a file nothing is written ...        *)
SyncBlanks(k) ==
  LET n == sync.name IN
  /\ sync.at = "write"
  /\ NextToWrite(k)
  /\ IF IsOpen(n)
     THEN /\ disk' = IF k \in DOMAIN files[n].positions THEN FlushedBySeek(n) ELSE disk
          /\ files' = [files EXCEPT ![n] = Blanked(@, k)]
          /\ sync' = [sync EXCEPT !.at = "append", !.key = k]
     ELSE sync' = [sync EXCEPT !.todo = Drop(@, k)] /\ UNCHANGED media
  /\ UNCHANGED <<retrieved, memory, queues, api, clock, fault, history>>

(* ... the new one is added at the end (after another seek; a long record  *)
(* is not buffered) ...                                                    *)
SyncAppends ==
  LET n == sync.name
      new == Appended(files[n], sync.todo[sync.key]) IN
  /\ sync.at = "append"
  /\ files' = [files EXCEPT ![n] = new]
  /\ disk' \in {FlushedBySeek(n), [disk EXCEPT ![n] = new.written]}
  /\ sync' = [sync EXCEPT !.at = "place", !.line = Len(new.written)]
  /\ UNCHANGED <<retrieved, memory, queues, api, clock, fault, history>>

(* ... and its position remembered.                                        *)
SyncPlaces ==
  /\ sync.at = "place"
  /\ files' = [files EXCEPT ![sync.name] = Placed(@, sync.key, sync.line)]
  /\ sync' = [sync EXCEPT !.at = "write", !.todo = Drop(@, sync.key),
                          !.key = NoKey, !.line = 0]
  /\ UNCHANGED <<retrieved, memory, queues, disk, api, clock, fault, history>>

(* All changes are written: a released storage is destroyed.               *)
SyncFinishes ==
  LET s == currentlySyncingStorage IN
  /\ sync.at = "write"
  /\ DOMAIN sync.todo = {}
  /\ IF s \in releasedStorages
     THEN /\ releasedStorages' = releasedStorages \ {s}
          /\ Free(s)
          /\ CloseFile(sync.name)
     ELSE UNCHANGED <<releasedStorages, memory, media, late>>
  /\ currentlySyncingStorage' = NULL
  /\ sync' = AtRest
  /\ UNCHANGED <<retrieved, changedStorages, syncingShouldEnd, api, clock, fault, overlap>>
-----------------------------------------------------------------------------
(* The process ends, and is started again.  After close() the destructor   *)
(* of the FilePersistenceManager closes the files that are still open;     *)
(* killed, the process loses what its streams have buffered.               *)
Started ==
  /\ retrieved' = [n \in Names |-> NULL]
  /\ nameOf' = [s \in Storages |-> NULL]
  /\ records' = [s \in Storages |-> NoRecords]
  /\ changed' = [s \in Storages |-> NoRecords]
  /\ deleted' = [s \in Storages |-> {}]
  /\ changedStorages' = <<>>
  /\ releasedStorages' = {}
  /\ currentlySyncingStorage' = NULL
  /\ syncingShouldEnd' = FALSE
  /\ files' = [n \in Names |-> NoFile]
  /\ api' = Idle
  /\ sync' = AtRest
  /\ fault' = "none"
  /\ late' = {}
  /\ overlap' = FALSE
  /\ UNCHANGED clock

Restart ==
  /\ api.at = "closed" /\ Running
  /\ Started
  /\ disk' = [n \in Names |-> IF IsOpen(n) THEN Closed(files[n].written) ELSE disk[n]]

Crash == Started /\ UNCHANGED disk

Caller ==
  \/ \E n \in Names, s \in Storages : RetrieveStorage(n, s)
  \/ \E s \in Storages : \/ \E k \in DOMAIN records[s] \cup deleted[s] : ModifyRecord(s, k)
                         \/ StoreRecord(s)
                         \/ \E k \in DOMAIN records[s] : RemoveRecord(s, k)
                         \/ \E k \in deleted[s] : LookUpRecord(s, k)
  \/ \E n \in Names : ReleaseStorage(n)
  \/ Close

CallGoesOn ==
  \/ ReadRecord
  \/ RecordsChanged
  \/ Signal
  \/ \E n \in Names : CloseReleases(n)
  \/ CloseAsksToEnd
  \/ CloseJoins

SyncThread ==
  \/ SyncTakesStorage
  \/ SyncWaitsOrEnds
  \/ SyncSwaps
  \/ \E k \in DOMAIN sync.todo : SyncBlanks(k)
  \/ SyncAppends
  \/ SyncPlaces
  \/ SyncFinishes

Next == \/ Running /\ (Caller \/ CallGoesOn \/ SyncThread \/ SpuriousWakeup)
        \/ Restart
        \/ Crash

Spec == Init /\ [][Next]_vars

-----------------------------------------------------------------------------
(* Properties.                                                             *)

Keys == NoKey..(Len(FirstLines) + MaxVersion)

TypeOK ==
  /\ retrieved \in [Names -> Storages \cup {NULL}]
  /\ nameOf \in [Storages -> Names \cup {NULL}]
  /\ DOMAIN changed = Storages
  /\ changedStorages \in Seq(Storages)
  /\ releasedStorages \subseteq Storages
  /\ currentlySyncingStorage \in Storages \cup {NULL}
  /\ syncingShouldEnd \in BOOLEAN
  /\ DOMAIN api = {"at", "storage", "key", "line", "closing", "left"}
  /\ api.at \in {"idle", "queue", "signal", "read", "closing", "join", "closed"}
  /\ api.closing \in BOOLEAN
  /\ DOMAIN sync = {"at", "name", "todo", "key", "line"}
  /\ sync.at \in {"check", "waiting", "swap", "write", "append", "place", "ended"}

(* The sync thread never meets a storage that has been freed: what is      *)
(* queued, being written or waiting to be destroyed exists, no storage is  *)
(* queued twice, and a storage that waits to be destroyed is queued or     *)
(* being written (releaseStorageButDontRemove, recordsChanged,             *)
(* syncRecords).                                                           *)
QueueSound ==
  Running =>
    /\ Queued \cup releasedStorages \subseteq Live
    /\ currentlySyncingStorage # NULL => currentlySyncingStorage \in Live \ Queued
    /\ \A i, j \in DOMAIN changedStorages :
          changedStorages[i] = changedStorages[j] => i = j
    /\ releasedStorages \subseteq Queued \cup {currentlySyncingStorage}

(* A change is forgotten in one way only: it comes while its storage is    *)
(* being written and after the swap; then nothing is queued.  All other    *)
(* changes are queued, or about to be (recordsChanged).                    *)
NothingElseForgotten ==
  \A s \in Live \ late :
    DOMAIN changed[s] # {} => \/ s \in Queued
                             \/ (s = currentlySyncingStorage /\ sync.at = "swap")
                             \/ (s = api.storage /\ api.at = "queue")

BeingWritten(s) == IF s = currentlySyncingStorage THEN DOMAIN sync.todo ELSE {}

(* A record that is neither changed nor being written nor was ever removed *)
(* is in the file as it is in memory, at the position known for its key    *)
(* (writeRecord, deleteRecord), as long as no file was opened twice.       *)
FileMatchesMemory ==
  Running /\ ~overlap =>
    \A s \in Live :
      LET file == files[nameOf[s]] IN
      \A k \in DOMAIN records[s] \ (DOMAIN changed[s] \cup BeingWritten(s) \cup deleted[s]) :
        /\ k \in DOMAIN file.positions
        /\ file.written[file.positions[k]] = records[s][k]

(* A process that is killed loses at most one record of each file: the one *)
(* that is being rewritten, or was rewritten last (the old line is blanked *)
(* before the new one is written, and each seek flushes).                  *)
Saved(n, k) ==
  \E i \in RecordLines(disk[n]) : disk[n][i] = files[n].written[files[n].positions[k]]

OneRecordAtRisk ==
  ~overlap => \A n \in Names :
                 Cardinality({k \in DOMAIN files[n].positions : ~Saved(n, k)}) <= 1

(* A storage that is destroyed leaves a file that, read again, gives its   *)
(* records: unless its last change came late, records were removed, or the *)
(* file was opened twice.                                                  *)
Destroyed(s) == s \in Live /\ nameOf'[s] = NULL /\ ~Crash /\ ~Restart

VersionsIn(lines) == {lines[i] : i \in RecordLines(lines)}

LeftAsRecorded ==
  [][\A s \in Live \ late :
       Destroyed(s) /\ ~overlap /\ deleted[s] = {} =>
         VersionsIn(disk'[nameOf[s]]) = {records[s][k] : k \in DOMAIN records[s]}]_vars

(* close() waits "until all syncs are completed"                           *)
(* (abstract_persistence_manager.cpp:94): a storage that it releases is    *)
(* not destroyed with changes that were not written.                       *)
CloseWaitsForSyncs ==
  [][\A s \in Live : Destroyed(s) /\ api.closing => DOMAIN changed[s] = {}]_vars

(* The file follows the memory, and never goes back: WriteBehind, of every *)
(* record of every storage as long as no file was opened twice.            *)
Told(s, k) ==
  IF /\ Running /\ ~overlap /\ s \in Live
     /\ k \in DOMAIN records[s] \ deleted[s]
  THEN records[s][k] ELSE 0

Kept(s, k) ==
  LET file == files[nameOf[s]] IN
  IF Told(s, k) = 0 \/ k \notin DOMAIN file.positions THEN 0
  ELSE IF file.written[file.positions[k]] = BLANK
       THEN IF k \in DOMAIN sync.todo THEN sync.todo[k] ELSE 0
  ELSE file.written[file.positions[k]]

Table == INSTANCE WriteBehind
  WITH Slots <- Storages \X Keys,
       told <- [slot \in Storages \X Keys |-> Told(slot[1], slot[2])],
       kept <- [slot \in Storages \X Keys |-> Kept(slot[1], slot[2])]

FileFollowsMemory == Table!Promise

(* No wakeup is lost: while the sync thread waits there is nothing to do,  *)
(* or the thread that added work is about to signal, and close(), which    *)
(* asks for the end and signals under one lock, never joins a thread that  *)
(* waits.                                                                  *)
NoLostWakeup ==
  sync.at = "waiting" => /\ changedStorages # <<>> => api.at = "signal"
                         /\ ~syncingShouldEnd
=============================================================================
