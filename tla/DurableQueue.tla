---------------------------- MODULE DurableQueue ----------------------------
(***************************************************************************)
(* The durable store-and-forward queue: DurableQueueCore (the index over   *)
(* one file per record), LittleFsQueueStorage (the files) and DurableQueue *)
(* (the mutex, the recent-tuple ring and the counters), from lib/queue.    *)
(*                                                                         *)
(* The power can go at any time, so an operation is cut at every point     *)
(* where it changes flash or NVS: one action per storage call, each with   *)
(* the code that follows it up to the next storage call.  The queue mutex  *)
(* admits one operation at a time; `op` is the operation that holds it and *)
(* op.at the storage call it is about to make.  The task that called the   *)
(* operation picks the result up in the step Return.                       *)
(*                                                                         *)
(* A record's content is its telemetry key (Node, session, sequence), or   *)
(* Damaged when framing, CRC or Protocol 3 decoding would reject it.       *)
(***************************************************************************)
EXTENDS Integers, FiniteSets, SequencesExt

CONSTANTS
  Keys,            \* telemetry keys that Nodes transmit
  NoKey,           \* "no key" in an operation that carries none
  NoFile,          \* content of a record name that has no file
  Damaged,         \* content of a file that does not decode
  Hash,            \* keyHash: Keys -> Nat, not necessarily injective
  Capacity,        \* capacity_ of DurableQueueCore (deriveCapacity)
  RecentCapacity,  \* kRecentDedupCapacity
  MaxRecordId,     \* bound: record ids in 1 .. MaxRecordId
  Faults,          \* storage calls that may fail
  MaxFaults,       \* bound on the number of storage faults
  MaxCrashes       \* bound on the number of power losses

FaultKinds == {"mount", "write", "remove", "read", "nvs", "rot"}

ASSUME QueueAssumption ==
  /\ NoKey \notin Keys /\ NoFile \notin Keys /\ Damaged \notin Keys
  /\ NoFile # Damaged
  /\ Hash \in [Keys -> Nat]
  /\ Capacity \in Nat \ {0}
  /\ RecentCapacity \in Nat \ {0}
  /\ MaxRecordId \in Nat \ {0}
  /\ Faults \subseteq FaultKinds
  /\ MaxFaults \in Nat
  /\ MaxCrashes \in Nat

VARIABLES
  \* Flash and NVS: they survive a power loss.
  flash,        \* content of each <id>.rec
  temp,         \* content of the .tmp of the record being written
  fsReady,      \* the NVS flag "fs-ready"
  recentFile,   \* the recent-tuple file, oldest first
  nvsDropped,   \* the NVS counter "dropped"
  \* RAM.
  entries,      \* entries_: the index, a sequence of [id, hash]
  nextRecordId, \* nextRecordId_
  recent,       \* recent_: the recent-tuple ring, oldest first
  statDropped,  \* stats_.recordsDroppedOldest (while booting: the core's)
  op,           \* the operation that holds mutex_
  \* Bookkeeping of the model.
  discarded,    \* keys whose record was dropped as oldest or found
                \* unreadable, and not stored again since
  drops,        \* records dropped as oldest since the first power-on
  faults,       \* storage faults so far
  crashes       \* power losses so far

flashVars == <<flash, temp, fsReady, recentFile, nvsDropped>>
ramVars == <<entries, nextRecordId, recent, statDropped>>
ghostVars == <<discarded, drops>>
qvars == <<flashVars, ramVars, op, ghostVars, faults, crashes>>

RecordIds == 1 .. MaxRecordId
Content == Keys \cup {NoFile, Damaged}
Entry == [id : Nat, hash : Nat]
Action == [id : Nat, key : Keys]     \* QueueTerminalAction

\* Where an operation can stand: the storage call it makes next.
BootSteps == {"scan", "trim", "loadRecent", "bootCheckpoint"}
EnqueueSteps == {"write", "rename", "evictForSpace", "evict", "withdraw",
                 "checkpoint"}
FinishSteps == {"remove", "persistRecent", "tally"}
OpSteps == {"off", "failed", "idle", "return"}
             \cup BootSteps \cup EnqueueSteps \cup FinishSteps

\* No operation: the mutex is free (at = "idle"), or there is no queue.
NoOp(at) == [at |-> at, key |-> NoKey, scan |-> {}, todo |-> {},
             retried |-> FALSE, dropped |-> FALSE, changed |-> FALSE,
             ok |-> FALSE]

OpRecord == [at : OpSteps, key : Keys \cup {NoKey}, scan : SUBSET RecordIds,
             todo : SUBSET Action, retried : BOOLEAN, dropped : BOOLEAN,
             changed : BOOLEAN, ok : BOOLEAN]

\* healthy_: begin() has succeeded since power-on.
Healthy == op.at \notin {"off", "failed"} \cup BootSteps

\* A storage call either works or fails; failures are bounded by MaxFaults.
Works == UNCHANGED faults
Fails(kind) ==
  /\ kind \in Faults
  /\ faults < MaxFaults
  /\ faults' = faults + 1

IdsOf(s) == {s[i].id : i \in DOMAIN s}

(***************************************************************************)
(* RecentDeduplicator, as the sequence its ring holds: a key already in    *)
(* the ring is not entered twice, and a full ring gives up its oldest.     *)
(***************************************************************************)
Remember(ring, k) ==
  IF Contains(ring, k) THEN ring
  ELSE IF Len(ring) < RecentCapacity THEN Append(ring, k)
  ELSE Append(Tail(ring), k)

(***************************************************************************)
(* contains(): the ring first, then the index.  An entry whose hash        *)
(* matches is read back and its key compared; an entry that cannot be      *)
(* read is skipped.                                                        *)
(***************************************************************************)
\* Mutant: a matching hash is taken for a matching key.
ContainsByHash(k, unreadable) ==
  \/ Contains(recent, k)
  \/ \E i \in DOMAIN entries :
       entries[i].hash = Hash[k] /\ entries[i].id \notin unreadable
\* Mutant: only the ring is searched, not the queue.
ContainsInRing(k, unreadable) == Contains(recent, k)
ContainsKey(k, unreadable) ==
  \/ Contains(recent, k)
  \/ \E i \in DOMAIN entries :
       /\ entries[i].hash = Hash[k]
       /\ entries[i].id \notin unreadable
       /\ flash[entries[i].id] = k

\* containsKey() under the mutex: one answer, and any number of failing reads.
Lookup(k, found) ==
  /\ op.at \in {"idle", "failed"}
  /\ \E unreadable \in SUBSET IdsOf(entries) :
       /\ IF unreadable = {} THEN Works ELSE Fails("read")
       /\ found = (Healthy /\ ContainsKey(k, unreadable))
  /\ UNCHANGED <<flashVars, ramVars, op, ghostVars, crashes>>

\* peek(): the oldest `limit` records, all of them readable or none.
PeekCount(limit) == IF limit < Len(entries) THEN limit ELSE Len(entries)
PeekReadable(limit) ==
  \A i \in 1 .. PeekCount(limit) : flash[entries[i].id] \in Keys
PeekRecords(limit) ==
  [i \in 1 .. PeekCount(limit) |->
     [id |-> entries[i].id, key |-> flash[entries[i].id]]]

-----------------------------------------------------------------------------
(***************************************************************************)
(* enqueue(): write the .tmp, rename it to .rec, then restore the bound by *)
(* removing the oldest record.                                             *)
(***************************************************************************)

\* The caller takes the mutex.  enqueue() refuses once the ids are used up
\* (nextRecordId_ has wrapped to 0; here it stands at MaxRecordId + 1).
EnqueueBegin(k) ==
  /\ op.at = "idle"
  /\ op' = IF nextRecordId > MaxRecordId THEN NoOp("return")
           ELSE [NoOp("write") EXCEPT !.key = k]
  /\ UNCHANGED <<flashVars, ramVars, ghostVars, faults, crashes>>

\* The counters are checkpointed before returning iff a record was dropped.
EnqueueDone(ok, dropped) ==
  [op EXCEPT !.at = IF dropped THEN "checkpoint" ELSE "return",
             !.ok = ok, !.dropped = dropped]

\* writeRecordAtomic() returned false.
WriteFailed ==
  IF ~op.retried /\ Len(entries) >= Capacity
  THEN [op EXCEPT !.at = "evictForSpace"]
  ELSE EnqueueDone(FALSE, op.dropped)

NewEntry == [id |-> nextRecordId, hash |-> Hash[op.key]]

\* The record enters the index `kept` and its id is used up.
\* Mutant: the id is not used up.
IndexRecordReusingId(kept) ==
  entries' = Append(kept, NewEntry) /\ UNCHANGED nextRecordId
\* Mutant: the id is counted twice.
IndexRecordSkippingId(kept) ==
  entries' = Append(kept, NewEntry) /\ nextRecordId' = nextRecordId + 2
IndexRecord(kept) ==
  /\ entries' = Append(kept, NewEntry)
  /\ nextRecordId' = nextRecordId + 1

WriteTemp ==
  /\ op.at = "write"
  /\ \/ /\ Works
        /\ temp' = op.key
        /\ op' = [op EXCEPT !.at = "rename"]
     \/ /\ Fails("write")
        /\ temp' \in {NoFile, Damaged, temp}
        /\ op' = WriteFailed
  /\ UNCHANGED <<flash, fsReady, recentFile, nvsDropped, ramVars, ghostVars,
                 crashes>>

RenameTemp ==
  /\ op.at = "rename"
  /\ \/ /\ Works
        /\ flash' = [flash EXCEPT ![nextRecordId] = temp]
        /\ temp' = NoFile
        /\ IF Len(entries) >= Capacity
           THEN /\ op' = [op EXCEPT !.at = "evict"]
                /\ UNCHANGED <<entries, nextRecordId, discarded>>
           ELSE /\ IndexRecord(entries)
                /\ discarded' = discarded \ {temp}
                /\ op' = EnqueueDone(TRUE, op.dropped)
     \/ /\ Fails("write")
        /\ temp' \in {NoFile, temp}
        /\ op' = WriteFailed
        /\ UNCHANGED <<flash, entries, nextRecordId, discarded>>
  /\ UNCHANGED <<fsReady, recentFile, nvsDropped, recent, statDropped, drops,
                 crashes>>

\* The oldest record, and what is given up with it.
\* Mutant: the newest record goes.
NewestId == entries[Len(entries)].id
OldestId == entries[1].id
\* Mutant: the drop is not counted.
DropFrontUncounted ==
  /\ flash' = [flash EXCEPT ![OldestId] = NoFile]
  /\ drops' = drops + 1
  /\ UNCHANGED statDropped
DropFront ==
  /\ flash' = [flash EXCEPT ![OldestId] = NoFile]
  /\ statDropped' = statDropped + 1
  /\ drops' = drops + 1

\* Last resort: the write failed on a full queue, so make room and retry.
EvictForSpace ==
  /\ op.at = "evictForSpace"
  /\ \/ /\ Works
        /\ DropFront
        /\ entries' = Tail(entries)
        /\ discarded' = discarded \cup {flash[OldestId]}
        /\ op' = [op EXCEPT !.at = "write", !.retried = TRUE, !.dropped = TRUE]
     \/ /\ Fails("remove")
        /\ op' = EnqueueDone(FALSE, FALSE)
        /\ UNCHANGED <<flash, entries, statDropped, discarded, drops>>
  /\ UNCHANGED <<temp, fsReady, recentFile, nvsDropped, nextRecordId, recent,
                 crashes>>

\* The new record is committed and the index is full: drop the oldest.
Evict ==
  /\ op.at = "evict"
  /\ \/ /\ Works
        /\ DropFront
        /\ IndexRecord(Tail(entries))
        /\ discarded' = (discarded \cup {flash[OldestId]})
                          \ {flash[nextRecordId]}
        /\ op' = EnqueueDone(TRUE, TRUE)
     \/ /\ Fails("remove")
        /\ op' = [op EXCEPT !.at = "withdraw"]
        /\ UNCHANGED <<flash, entries, nextRecordId, statDropped, discarded,
                       drops>>
  /\ UNCHANGED <<temp, fsReady, recentFile, nvsDropped, recent, crashes>>

\* The bound could not be restored: take the new record back.  The result of
\* this removal is ignored, so its file may stay behind.
Withdraw ==
  /\ op.at = "withdraw"
  /\ \/ /\ Works
        /\ flash' = [flash EXCEPT ![nextRecordId] = NoFile]
     \/ /\ Fails("remove")
        /\ UNCHANGED flash
  /\ op' = EnqueueDone(FALSE, op.dropped)
  /\ UNCHANGED <<temp, fsReady, recentFile, nvsDropped, ramVars, ghostVars,
                 crashes>>

\* persistCounters(); its result is ignored.
PersistCounters ==
  \/ Works /\ nvsDropped' = statDropped
  \/ Fails("nvs") /\ UNCHANGED nvsDropped

EnqueueCheckpoint ==
  /\ op.at = "checkpoint"
  /\ PersistCounters
  /\ op' = [op EXCEPT !.at = "return"]
  /\ UNCHANGED <<flash, temp, fsReady, recentFile, ramVars, ghostVars, crashes>>

\* The mutex is released and the caller has the result.
Return ==
  /\ op.at = "return"
  /\ op' = NoOp("idle")
  /\ UNCHANGED <<flashVars, ramVars, ghostVars, faults, crashes>>

-----------------------------------------------------------------------------
(***************************************************************************)
(* finish(): remove the records that have a terminal backend result, in    *)
(* the order of the response, and remember their keys.                     *)
(***************************************************************************)
FinishBegin(actions) ==
  /\ op.at = "idle"
  /\ actions # {}
  /\ op' = [NoOp("remove") EXCEPT !.todo = actions, !.ok = TRUE]
  /\ UNCHANGED <<flashVars, ramVars, ghostVars, faults, crashes>>

\* What the loop of finish() does next once the action a is through.
FinishNext(a, ok, changed) ==
  [op EXCEPT !.todo = op.todo \ {a}, !.ok = ok, !.changed = changed,
             !.at = IF op.todo # {a} THEN "remove"
                    ELSE IF changed THEN "persistRecent" ELSE "tally"]

FinishRemove(a) ==
  /\ op.at = "remove"
  /\ a \in op.todo
  /\ \/ \E i \in DOMAIN entries :
          /\ entries[i].id = a.id
          /\ Works
          /\ flash' = [flash EXCEPT ![a.id] = NoFile]
          /\ entries' = RemoveAt(entries, i)
          /\ recent' = Remember(recent, a.key)
          /\ op' = FinishNext(a, op.ok, op.changed \/ ~Contains(recent, a.key))
     \/ /\ \/ a.id \notin IdsOf(entries) /\ Works
           \/ a.id \in IdsOf(entries) /\ Fails("remove")
        /\ op' = FinishNext(a, FALSE, op.changed)
        /\ UNCHANGED <<flash, entries, recent>>
  /\ UNCHANGED <<temp, fsReady, recentFile, nvsDropped, nextRecordId,
                 statDropped, ghostVars, crashes>>

\* persistRecent(): .tmp and rename, so the file is the old or the new ring.
PersistRecent ==
  /\ op.at = "persistRecent"
  /\ \/ /\ Works
        /\ recentFile' = recent
        /\ op' = [op EXCEPT !.at = "tally"]
     \/ /\ Fails("write")
        /\ op' = [op EXCEPT !.at = "tally", !.ok = FALSE]
        /\ UNCHANGED recentFile
  /\ UNCHANGED <<flash, temp, fsReady, nvsDropped, ramVars, ghostVars, crashes>>

\* checkpointCountersUnlocked(false): only every 16 mutations or 60 s.
FinishTally ==
  /\ op.at = "tally"
  /\ \/ PersistCounters
     \/ Works /\ UNCHANGED nvsDropped
  /\ op' = [op EXCEPT !.at = "return"]
  /\ UNCHANGED <<flash, temp, fsReady, recentFile, ramVars, ghostVars, crashes>>

\* checkpointCounters(force), as the dashboard calls it before a restart, and
\* the timed checkpoint of recordUploadRetry().
CheckpointCounters ==
  /\ op.at = "idle"
  /\ PersistCounters
  /\ UNCHANGED <<flash, temp, fsReady, recentFile, ramVars, op, ghostVars,
                 crashes>>

-----------------------------------------------------------------------------
(***************************************************************************)
(* begin(): mount, recover the index, load counters and ring.              *)
(***************************************************************************)

\* A filesystem that does not mount is formatted only before the first
\* successful begin(); afterwards the queue stays down.
MountFilesystem ==
  \/ Works /\ UNCHANGED <<flash, recentFile>>
  \/ /\ ~fsReady
     /\ Fails("mount")
     /\ flash' = [i \in RecordIds |-> NoFile]
     /\ recentFile' = <<>>

Begin ==
  /\ op.at = "off"
  /\ \/ /\ MountFilesystem
        /\ fsReady' = TRUE
        /\ temp' \in {NoFile, temp}
        /\ op' = [NoOp("scan") EXCEPT
                    !.scan = {i \in RecordIds : flash'[i] # NoFile}]
     \/ /\ Fails("mount") \/ Fails("nvs") \/ Fails("read")
        /\ temp' \in {NoFile, temp}
        /\ op' = NoOp("failed")
        /\ UNCHANGED <<flash, recentFile, fsReady>>
  /\ UNCHANGED <<nvsDropped, ramVars, ghostVars, crashes>>

\* recover(), one listed file, in directory order.  A file that cannot be
\* read or decoded is removed; the removal itself may fail.
\* (MaxRecordId is a bound here: that the next id wraps to 0 behind the last
\* of 2^64 - 1 ids, with further files still to come, is left out.)
RecoverRecord(id) ==
  /\ op.at = "scan"
  /\ id \in op.scan
  /\ \/ /\ flash[id] \in Keys
        /\ Works
        /\ entries' = Append(entries, [id |-> id, hash |-> Hash[flash[id]]])
        /\ nextRecordId' = IF id >= nextRecordId THEN id + 1 ELSE nextRecordId
        /\ op' = [op EXCEPT !.scan = op.scan \ {id}]
        /\ discarded' = discarded \ {flash[id]}
        /\ UNCHANGED flash
     \/ /\ \/ flash[id] \notin Keys /\ Works
              /\ flash' = [flash EXCEPT ![id] = NoFile]
           \/ flash[id] \notin Keys /\ Fails("remove") /\ UNCHANGED flash
           \/ flash[id] \in Keys /\ Fails("read")
              /\ flash' \in {flash, [flash EXCEPT ![id] = NoFile]}
        /\ discarded' = discarded \cup {flash[id]}
        /\ op' = [op EXCEPT !.scan = op.scan \ {id}, !.changed = TRUE]
        /\ UNCHANGED <<entries, nextRecordId>>
  /\ UNCHANGED <<temp, fsReady, recentFile, nvsDropped, recent, statDropped,
                 drops, crashes>>

\* std::sort by record id, as its postcondition: an ascending permutation.
Ascending(s) == \A i, j \in DOMAIN s : i < j => s[i].id < s[j].id
\* Mutant: the index is left in directory order.
DirectoryOrder(s) == {s}
SortedPermutations(s) ==
  {t \in [1 .. Len(s) -> {s[i] : i \in DOMAIN s}] :
     /\ \A i \in DOMAIN s : \E j \in DOMAIN t : t[j] = s[i]
     /\ Ascending(t)}

RecoverSort ==
  /\ op.at = "scan"
  /\ op.scan = {}
  /\ entries' \in SortedPermutations(entries)
  /\ op' = [op EXCEPT !.at = "trim"]
  /\ UNCHANGED <<flashVars, nextRecordId, recent, statDropped, ghostVars,
                 faults, crashes>>

\* The bound is restored one oldest record at a time; recover() fails, and
\* the queue stays down, if one of them cannot be removed.
RecoverTrim ==
  /\ op.at = "trim"
  /\ Len(entries) > Capacity
  /\ \/ /\ Works
        /\ DropFront
        /\ entries' = Tail(entries)
        /\ discarded' = discarded \cup {flash[OldestId]}
        /\ op' = [op EXCEPT !.changed = TRUE]
     \/ /\ Fails("remove")
        /\ op' = NoOp("failed")
        /\ UNCHANGED <<flash, entries, statDropped, discarded, drops>>
  /\ UNCHANGED <<temp, fsReady, recentFile, nvsDropped, nextRecordId, recent,
                 crashes>>

\* loadCounters(); a counter that cannot be read starts again at zero.
LoadCounters ==
  /\ op.at = "trim"
  /\ Len(entries) <= Capacity
  /\ \/ Works /\ statDropped' = nvsDropped + statDropped
     \/ Fails("nvs") /\ UNCHANGED statDropped
  /\ op' = [op EXCEPT !.at = "loadRecent"]
  /\ UNCHANGED <<flashVars, entries, nextRecordId, recent, ghostVars, crashes>>

\* loadRecent(); an unreadable ring is cleared and unlinked.
LoadRecent ==
  /\ op.at = "loadRecent"
  /\ \/ /\ Works
        /\ recent' = recentFile
        /\ op' = IF op.changed THEN NoOp("bootCheckpoint") ELSE NoOp("idle")
        /\ UNCHANGED recentFile
     \/ /\ Fails("read")
        /\ recent' = <<>>
        /\ recentFile' \in {recentFile, <<>>}
        /\ op' = NoOp("bootCheckpoint")
  /\ UNCHANGED <<flash, temp, fsReady, nvsDropped, entries, nextRecordId,
                 statDropped, ghostVars, crashes>>

BeginCheckpoint ==
  /\ op.at = "bootCheckpoint"
  /\ PersistCounters
  /\ op' = NoOp("idle")
  /\ UNCHANGED <<flash, temp, fsReady, recentFile, ramVars, ghostVars, crashes>>

-----------------------------------------------------------------------------
(***************************************************************************)
(* The environment: power and flash.                                       *)
(***************************************************************************)

\* Power loss or restart: RAM is gone; a .tmp being written may be torn.
PowerLoss ==
  /\ op.at # "off"
  /\ crashes < MaxCrashes
  /\ crashes' = crashes + 1
  /\ temp' \in IF op.at = "write" THEN {temp, Damaged} ELSE {temp}
  /\ entries' = <<>>
  /\ nextRecordId' = 1
  /\ recent' = <<>>
  /\ statDropped' = 0
  /\ op' = NoOp("off")
  /\ UNCHANGED <<flash, fsReady, recentFile, nvsDropped, ghostVars, faults>>

\* A committed record stops passing its CRC.
MediaDecay(id) ==
  /\ flash[id] \in Keys
  /\ Fails("rot")
  /\ flash' = [flash EXCEPT ![id] = Damaged]
  /\ discarded' = discarded \cup {flash[id]}
  /\ UNCHANGED <<temp, fsReady, recentFile, nvsDropped, ramVars, op, drops,
                 crashes>>

-----------------------------------------------------------------------------
QInit ==
  /\ flash = [i \in RecordIds |-> NoFile]
  /\ temp = NoFile
  /\ fsReady = FALSE
  /\ recentFile = <<>>
  /\ nvsDropped = 0
  /\ entries = <<>>
  /\ nextRecordId = 1
  /\ recent = <<>>
  /\ statDropped = 0
  /\ op = NoOp("off")
  /\ discarded = {}
  /\ drops = 0
  /\ faults = 0
  /\ crashes = 0

\* The steps the queue takes by itself once an operation has begun.
EnqueueStep ==
  \/ WriteTemp \/ RenameTemp \/ EvictForSpace \/ Evict \/ Withdraw
  \/ EnqueueCheckpoint
FinishStep ==
  \/ \E a \in op.todo : FinishRemove(a)
  \/ PersistRecent
  \/ FinishTally
BootStep ==
  \/ Begin
  \/ \E id \in op.scan : RecoverRecord(id)
  \/ RecoverSort
  \/ RecoverTrim
  \/ LoadCounters \/ LoadRecent
  \/ BeginCheckpoint

\* What finish() may be asked to do: an action names a record id handed out
\* earlier and, if that record is still queued, the key it holds (or held
\* before it decayed).
FinishContract(actions) ==
  \A a \in actions :
    /\ a.id \in RecordIds
    /\ a.id < nextRecordId
    /\ a.id \in IdsOf(entries) => flash[a.id] \in {a.key, Damaged}

\* The queue with any client that keeps to the contract.
QNext ==
  \/ \E k \in Keys : EnqueueBegin(k)
  \/ \E actions \in SUBSET [id : RecordIds, key : Keys] :
       FinishContract(actions) /\ FinishBegin(actions)
  \/ \E k \in Keys, found \in BOOLEAN : Lookup(k, found)
  \/ Return
  \/ EnqueueStep \/ FinishStep \/ BootStep
  \/ CheckpointCounters
  \/ PowerLoss
  \/ \E id \in RecordIds : MediaDecay(id)

QSpec == QInit /\ [][QNext]_qvars

-----------------------------------------------------------------------------
\* The variables have the types of the fields they model.
QTypeOK ==
  /\ flash \in [RecordIds -> Content]
  /\ temp \in Content
  /\ fsReady \in BOOLEAN
  /\ recentFile \in Seq(Keys)
  /\ nvsDropped \in Nat
  /\ entries \in Seq(Entry)
  /\ nextRecordId \in 1 .. MaxRecordId + 1
  /\ recent \in Seq(Keys)
  /\ statDropped \in Nat
  /\ op \in OpRecord
  /\ discarded \subseteq Content
  /\ drops \in Nat
  /\ faults \in Nat
  /\ crashes \in Nat

(***************************************************************************)
(* IndexMatchesFlash.  While the queue is up, the index in RAM agrees with *)
(* the files: ids strictly ascend (so the front is the oldest and no       *)
(* record is listed twice), every listed record has a file that carries    *)
(* the listed hash unless it has decayed, no listed id will be handed out  *)
(* again, and the bound holds.  (durable_queue_core.cpp: every operation   *)
(* changes the file first and the index second, and can fail in between.)  *)
(***************************************************************************)
IndexedRecord(e) ==
  /\ e.id \in RecordIds
  /\ e.id < nextRecordId
  /\ flash[e.id] # NoFile
  /\ flash[e.id] \in Keys => e.hash = Hash[flash[e.id]]
IndexMatchesFlash ==
  Healthy => /\ Ascending(entries)
             /\ \A i \in DOMAIN entries : IndexedRecord(entries[i])
             /\ Len(entries) <= Capacity

(***************************************************************************)
(* The inductive strengthening of IndexMatchesFlash: what holds at each    *)
(* storage call of an operation, and of the index also while the queue is  *)
(* being recovered.                                                        *)
(***************************************************************************)
OpInv ==
  /\ op.at = "off" => entries = <<>>
  /\ op.at = "scan" => \A i \in DOMAIN entries : entries[i].id \notin op.scan
  /\ op.at \in {"write", "rename", "evictForSpace", "evict", "withdraw"} =>
       op.key \in Keys /\ nextRecordId <= MaxRecordId
  /\ op.at = "rename" => temp = op.key
  /\ op.at = "evict" => flash[nextRecordId] \in {op.key, Damaged}
  /\ op.at \in {"evictForSpace", "evict"} => Len(entries) >= Capacity
IndexInv ==
  /\ \A i \in DOMAIN entries : IndexedRecord(entries[i])
  /\ op.at # "scan" => Ascending(entries)
  /\ op.at \notin {"off", "failed", "scan", "trim"} => Len(entries) <= Capacity
QInv == QTypeOK /\ OpInv /\ IndexInv

(***************************************************************************)
(* DropsCounted.  Until the first power loss the dropped-oldest counter    *)
(* counts every record that was dropped, whichever call of the enqueue     *)
(* failed afterwards; and neither the counter nor its checkpoint in NVS    *)
(* ever reports a drop that did not happen.  (durable_queue.cpp:           *)
(* enqueue, begin, persistCounters.)                                       *)
(***************************************************************************)
DropsCounted ==
  /\ Healthy /\ crashes = 0 => statDropped = drops
  /\ statDropped <= drops
  /\ nvsDropped <= drops

\* Its inductive strengthening: until begin() adds the checkpoint to what
\* recovery has dropped, the two together count no drop that did not happen.
DropsInv ==
  /\ DropsCounted
  /\ crashes = 0 => statDropped = drops
  /\ op.at \in {"off", "scan", "trim"} =>
       /\ nvsDropped + statDropped <= drops
       /\ crashes = 0 => nvsDropped = 0

(***************************************************************************)
(* NoDuplicateRecords.  As long as every read works, a key occupies at     *)
(* most one record, whatever writes and removals fail and whenever the     *)
(* power goes.  (contains() before enqueue(), and the reuse of the id of a *)
(* failed enqueue.)                                                        *)
(***************************************************************************)
NoDuplicateRecords ==
  \A i, j \in RecordIds : flash[i] = flash[j] /\ flash[i] \in Keys => i = j

(***************************************************************************)
(* DataLossNeverSilent.  docs/durable-queue.md: "The dropped-oldest        *)
(* counter is incremented and checkpointed ... Data loss is never silent." *)
(* Whenever the queue is at rest its counter accounts for every drop.      *)
(***************************************************************************)
DataLossNeverSilent == op.at = "idle" => statDropped = drops
=============================================================================
