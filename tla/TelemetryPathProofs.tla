------------------------ MODULE TelemetryPathProofs ------------------------
(***************************************************************************)
(* Proofs about TelemetryPath: the radio task, the queue, the worker and   *)
(* the Backend together, for any number of keys, records, faults and power *)
(* losses.                                                                 *)
(*                                                                         *)
(* The argument has two levels.  The lemmas on effects say what a step of  *)
(* the queue does to the set of listed ids, the files and the given-up     *)
(* keys; everything after them (contract, custody, refinement) reasons     *)
(* from those effects and never again about sequences.                     *)
(***************************************************************************)
EXTENDS TelemetryPath, DurableQueueProofs

Ids == IdsOf(entries)

-----------------------------------------------------------------------------
(* The ids of a sequence of entries. *)

\* Appending an entry adds its id.
LEMMA IdsAppend ==
  ASSUME NEW s \in Seq(Entry), NEW e \in Entry
  PROVE  IdsOf(Append(s, e)) = IdsOf(s) \cup {e.id}
<1> DEFINE t == Append(s, e)
<1>1. /\ DOMAIN t = 1 .. Len(s) + 1 /\ DOMAIN s = 1 .. Len(s) /\ Len(s) \in Nat
      /\ \A i \in 1 .. Len(s) : t[i] = s[i]
      /\ t[Len(s) + 1] = e
  OBVIOUS
<1> HIDE DEF t
<1>2. ASSUME NEW x \in IdsOf(t) PROVE x \in IdsOf(s) \cup {e.id}
  <2>1. PICK i \in DOMAIN t : x = t[i].id
    BY <1>2 DEF IdsOf
  <2>2. CASE i = Len(s) + 1
    BY <1>1, <2>1, <2>2
  <2>3. CASE i \in 1 .. Len(s)
    BY <1>1, <2>1, <2>3 DEF IdsOf
  <2> QED
    BY <1>1, <2>2, <2>3
<1>3. ASSUME NEW x \in IdsOf(s) PROVE x \in IdsOf(t)
  <2>1. PICK i \in 1 .. Len(s) : x = s[i].id
    BY <1>1, <1>3 DEF IdsOf
  <2> QED
    BY <1>1, <2>1 DEF IdsOf
<1>4. e.id \in IdsOf(t)
  <2>1. Len(s) + 1 \in DOMAIN t
    BY <1>1
  <2> QED
    BY <1>1, <2>1 DEF IdsOf
<1> QED
  BY <1>2, <1>3, <1>4 DEF t

\* Dropping the front of an ascending index takes exactly its id away.
LEMMA IdsTail ==
  ASSUME NEW s \in Seq(Entry), s # <<>>, Ascending(s)
  PROVE  IdsOf(Tail(s)) = IdsOf(s) \ {s[1].id} /\ s[1].id \in IdsOf(s)
<1> DEFINE t == Tail(s)
<1>1. /\ \A i \in DOMAIN t : /\ \E j \in DOMAIN s : t[i] = s[j]
                             /\ t[i].id # s[1].id
      /\ \A j \in DOMAIN s \ {1} : \E i \in DOMAIN t : t[i] = s[j]
  BY TailIndex
<1>2. 1 \in DOMAIN s
  OBVIOUS
<1> HIDE DEF t
<1>3. IdsOf(t) = IdsOf(s) \ {s[1].id}
  BY <1>1 DEF IdsOf
<1>4. s[1].id \in IdsOf(s)
  BY <1>2 DEF IdsOf
<1> QED
  BY <1>3, <1>4 DEF t

\* So does removing any other position.
LEMMA IdsRemoveAt ==
  ASSUME NEW s \in Seq(Entry), Ascending(s), NEW i \in DOMAIN s
  PROVE  IdsOf(RemoveAt(s, i)) = IdsOf(s) \ {s[i].id}
<1> DEFINE t == RemoveAt(s, i)
<1>1. /\ \A k \in DOMAIN t : /\ \E j \in DOMAIN s : t[k] = s[j]
                             /\ t[k].id # s[i].id
      /\ \A j \in DOMAIN s \ {i} : \E k \in DOMAIN t : t[k] = s[j]
  BY RemoveAtIndex
<1> HIDE DEF t
<1>2. IdsOf(t) = IdsOf(s) \ {s[i].id}
  BY <1>1 DEF IdsOf
<1> QED
  BY <1>2 DEF t

\* Sorting keeps the ids.
LEMMA IdsSorted ==
  ASSUME NEW s \in Seq(Entry), NEW t \in SortedPermutations(s)
  PROVE  IdsOf(t) = IdsOf(s)
<1>1. /\ t \in [1 .. Len(s) -> {s[i] : i \in DOMAIN s}]
      /\ \A i \in DOMAIN s : \E j \in DOMAIN t : t[j] = s[i]
  BY DEF SortedPermutations
<1>2. \A j \in DOMAIN t : \E i \in DOMAIN s : t[j] = s[i]
  BY <1>1
<1> QED
  BY <1>1, <1>2 DEF IdsOf

\* What the index lists is on flash and will not be handed out again.
LEMMA ListedIds ==
  ASSUME QInv
  PROVE  /\ Ids \subseteq RecordIds
         /\ \A id \in Ids : id < nextRecordId /\ flash[id] # NoFile
         /\ nextRecordId \notin Ids
<1>1. ASSUME NEW id \in Ids
      PROVE  id \in RecordIds /\ id < nextRecordId /\ flash[id] # NoFile
  <2>1. PICK i \in DOMAIN entries : id = entries[i].id
    BY <1>1 DEF Ids, IdsOf
  <2> QED
    BY <2>1, ListedEntry DEF IndexedRecord
<1>2. nextRecordId \in Nat
  BY DEF QInv, QTypeOK
<1> QED
  BY <1>1, <1>2 DEF RecordIds

-----------------------------------------------------------------------------
(***************************************************************************)
(* What a step of the queue can do, in terms of listed ids, files and      *)
(* given-up keys.                                                          *)
(***************************************************************************)
Untouched == UNCHANGED <<flash, discarded, nextRecordId>> /\ Ids' = Ids
\* A record is written under the next id and listed.
Committed ==
  /\ op.at = "rename" /\ op.key \in Keys /\ nextRecordId \in RecordIds
  /\ flash' = [flash EXCEPT ![nextRecordId] = op.key]
  /\ Ids' = Ids \cup {nextRecordId}
  /\ nextRecordId' = nextRecordId + 1
  /\ discarded' = discarded \ {op.key}
\* A record is written under the next id, and the index is full.
Overwritten ==
  /\ op.at = "rename" /\ op.key \in Keys /\ nextRecordId \in RecordIds
  /\ flash' = [flash EXCEPT ![nextRecordId] = op.key]
  /\ UNCHANGED <<discarded, nextRecordId>> /\ Ids' = Ids
Dropped(o) ==
  /\ o \in Ids /\ OldestOfFullQueue(o)
  /\ flash' = [flash EXCEPT ![o] = NoFile]
  /\ Ids' = Ids \ {o}
  /\ discarded' = discarded \cup {flash[o]}
  /\ UNCHANGED nextRecordId
\* The record written under the next id is listed instead of the oldest.
Exchanged(o) ==
  /\ op.at = "evict" /\ op.key \in Keys /\ nextRecordId \in RecordIds
  /\ flash[nextRecordId] \in {op.key, Damaged}
  /\ o \in Ids /\ OldestOfFullQueue(o)
  /\ flash' = [flash EXCEPT ![o] = NoFile]
  /\ Ids' = (Ids \ {o}) \cup {nextRecordId}
  /\ nextRecordId' = nextRecordId + 1
  /\ discarded' = (discarded \cup {flash[o]}) \ {flash[nextRecordId]}
\* It is removed again.
TakenBack ==
  /\ op.at = "withdraw" /\ nextRecordId \in RecordIds
  /\ flash' = [flash EXCEPT ![nextRecordId] = NoFile]
  /\ UNCHANGED <<discarded, nextRecordId>> /\ Ids' = Ids
Removed(a) ==
  /\ op.at = "remove" /\ a \in op.todo /\ a.id \in Ids
  /\ flash' = [flash EXCEPT ![a.id] = NoFile]
  /\ Ids' = Ids \ {a.id}
  /\ UNCHANGED <<discarded, nextRecordId>>
Decayed(id) ==
  /\ flash[id] \in Keys
  /\ flash' = [flash EXCEPT ![id] = Damaged]
  /\ discarded' = discarded \cup {flash[id]}
  /\ UNCHANGED nextRecordId /\ Ids' = Ids
QueueGone == op'.at \in {"off", "failed"} /\ UNCHANGED <<flash, discarded>>
Rescanned ==
  /\ op.at = "off" /\ op'.at = "scan"
  /\ op'.scan = {i \in RecordIds : flash[i] # NoFile}
  /\ UNCHANGED <<flash, discarded>>
\* recover() lists a file.
Found(id) ==
  /\ op.at = "scan" /\ op'.at = "scan"
  /\ id \in op.scan /\ op'.scan = op.scan \ {id}
  /\ flash[id] \in Keys
  /\ Ids' = Ids \cup {id}
  /\ discarded' = discarded \ {flash[id]}
  /\ UNCHANGED flash
\* recover() gives a file up.
Abandoned(id) ==
  /\ op.at = "scan" /\ op'.at = "scan"
  /\ id \in op.scan /\ op'.scan = op.scan \ {id}
  /\ Ids' = Ids
  /\ discarded' = discarded \cup {flash[id]}
  /\ flash' \in {flash, [flash EXCEPT ![id] = NoFile]}
  /\ flash[id] \in Keys => faults' > faults /\ "read" \in Faults
Sorted ==
  /\ op.at = "scan" /\ op.scan = {} /\ op'.at = "trim"
  /\ UNCHANGED <<flash, discarded>> /\ Ids' = Ids

SamePhase ==
  \/ op' = op
  \/ /\ op.at \notin {"off", "failed", "scan"}
     /\ op'.at \notin {"off", "failed", "scan"}
IndexEffect ==
  \/ Untouched \/ Committed \/ Overwritten \/ TakenBack
  \/ \E id \in RecordIds : Dropped(id) \/ Exchanged(id) \/ Decayed(id)
  \/ \E a \in op.todo : Removed(a)
QueueEffect ==
  \/ SamePhase /\ IndexEffect
  \/ QueueGone \/ Rescanned \/ Sorted
  \/ \E id \in RecordIds : Found(id) \/ Abandoned(id)

\* The front of an index that is full is the oldest of a full queue.
LEMMA FrontIsOldest ==
  ASSUME QInv, op.at # "scan", Len(entries) >= Capacity
  PROVE  /\ OldestId \in RecordIds /\ OldestId \in Ids
         /\ OldestOfFullQueue(OldestId)
         /\ entries \in Seq(Entry) /\ entries # <<>> /\ Ascending(entries)
         /\ Tail(entries) \in Seq(Entry)
         /\ IdsOf(Tail(entries)) = Ids \ {OldestId}
<1>1. /\ entries \in Seq(Entry) /\ Ascending(entries)
      /\ entries # <<>> /\ 1 \in DOMAIN entries /\ OldestId \in RecordIds
  BY OldestRecord DEF QInv, QTypeOK, IndexInv
<1>2. /\ IdsOf(Tail(entries)) = Ids \ {OldestId} /\ OldestId \in Ids
      /\ Tail(entries) \in Seq(Entry)
  BY <1>1, IdsTail, TailIndex DEF OldestId, Ids
<1>3. ASSUME NEW e \in IdsOf(entries) PROVE OldestId <= e
  <2>1. PICK i \in DOMAIN entries : e = entries[i].id
    BY <1>3 DEF IdsOf
  <2>2. CASE i = 1
    BY <1>1, <2>1, <2>2 DEF OldestId, RecordIds
  <2>3. CASE i # 1
    <3>1. 1 < i
      BY <1>1, <2>3
    <3>2. entries[1].id < entries[i].id
      BY <1>1, <2>1, <3>1 DEF Ascending
    <3>3. entries[i].id \in RecordIds
      BY <2>1, ListedEntry
    <3> QED
      BY <1>1, <2>1, <3>2, <3>3 DEF OldestId, RecordIds
  <2> QED
    BY <2>2, <2>3
<1> QED
  BY <1>1, <1>2, <1>3 DEF OldestOfFullQueue

\* The steps of an enqueue, and where they lead.
LEMMA EnqueueEffects ==
  ASSUME QInv, EnqueueStep
  PROVE  /\ SamePhase /\ IndexEffect
         /\ op.at \in EnqueueSteps /\ op'.at \in EnqueueSteps \cup {"return"}
         /\ op'.key = op.key
         /\ op'.at \in {"checkpoint", "return"} /\ op'.ok =>
              \/ Committed
              \/ \E id \in RecordIds : Exchanged(id)
              \/ op.at = "checkpoint" /\ op.ok /\ Untouched
         /\ op'.at \in {"write", "rename", "evictForSpace"} =>
              /\ op.at \in {"write", "rename", "evictForSpace"}
              /\ Untouched \/ \E id \in RecordIds : Dropped(id)
<1>0. /\ op \in OpRecord /\ op.dropped \in BOOLEAN /\ op.ok \in BOOLEAN
      /\ entries \in Seq(Entry)
  BY DEF QInv, QTypeOK, OpRecord
<1>1. CASE WriteTemp
  <2>1. Untouched /\ op.at = "write"
    BY <1>1 DEF WriteTemp, Untouched, ramVars, ghostVars, Ids
  <2>2. CASE op' = [op EXCEPT !.at = "rename"]
    <3>1. op'.at = "rename" /\ op'.key = op.key
      BY <1>0, <2>2, AtType, OpStepNames
    <3> QED
      BY <2>1, <3>1 DEF SamePhase, IndexEffect, EnqueueSteps
  <2>3. CASE op' = WriteFailed
    <3>1. /\ op'.at \in {"evictForSpace", "checkpoint", "return"}
          /\ op'.key = op.key
          /\ op'.at \in {"checkpoint", "return"} => ~op'.ok
      BY <1>0, <2>3, WriteFailedType
    <3> QED
      BY <2>1, <3>1 DEF SamePhase, IndexEffect, EnqueueSteps
  <2> QED
    BY <1>1, <2>2, <2>3 DEF WriteTemp
<1>2. CASE RenameTemp
  <2>1. /\ op.at = "rename" /\ op.key \in Keys /\ temp = op.key
        /\ nextRecordId \in RecordIds
    BY <1>2, QueueAssumption DEF RenameTemp, QInv, QTypeOK, OpInv, RecordIds
  <2>2. CASE Works /\ Len(entries) >= Capacity
                   /\ flash' = [flash EXCEPT ![nextRecordId] = temp]
                   /\ op' = [op EXCEPT !.at = "evict"]
                   /\ UNCHANGED <<entries, nextRecordId, discarded>>
    <3>1. op'.at = "evict" /\ op'.key = op.key
      BY <1>0, <2>2, AtType, OpStepNames
    <3>2. Overwritten
      BY <2>1, <2>2 DEF Overwritten, Ids
    <3> QED
      BY <2>1, <3>1, <3>2 DEF SamePhase, IndexEffect, EnqueueSteps
  <2>3. CASE Works /\ flash' = [flash EXCEPT ![nextRecordId] = temp]
                   /\ IndexRecord(entries)
                   /\ discarded' = discarded \ {temp}
                   /\ op' = EnqueueDone(TRUE, op.dropped)
    <3>1. op'.at \in {"checkpoint", "return"} /\ op'.key = op.key
      BY <1>0, <2>3, EnqueueDoneType
    <3>2. Ids' = Ids \cup {nextRecordId} /\ nextRecordId' = nextRecordId + 1
      BY <1>0, <2>1, <2>3, NewEntryType, IdsAppend DEF IndexRecord, Ids
    <3>3. Committed
      BY <2>1, <2>3, <3>2 DEF Committed
    <3> QED
      BY <2>1, <3>1, <3>3 DEF SamePhase, IndexEffect, EnqueueSteps
  <2>4. CASE op' = WriteFailed /\ UNCHANGED <<flash, entries, nextRecordId, discarded>>
    <3>1. /\ op'.at \in {"evictForSpace", "checkpoint", "return"}
          /\ op'.key = op.key
          /\ op'.at \in {"checkpoint", "return"} => ~op'.ok
      BY <1>0, <2>4, WriteFailedType
    <3>2. Untouched
      BY <2>4 DEF Untouched, Ids
    <3> QED
      BY <2>1, <3>1, <3>2 DEF SamePhase, IndexEffect, EnqueueSteps
  <2> QED
    BY <1>2, <2>2, <2>3, <2>4 DEF RenameTemp
<1>3. CASE EvictForSpace
  <2>1. /\ op.at = "evictForSpace" /\ Len(entries) >= Capacity
        /\ UNCHANGED nextRecordId
    BY <1>3 DEF EvictForSpace, QInv, OpInv
  <2>2. CASE Works /\ DropFront /\ entries' = Tail(entries)
                   /\ discarded' = discarded \cup {flash[OldestId]}
                   /\ op' = [op EXCEPT !.at = "write", !.retried = TRUE,
                                       !.dropped = TRUE]
    <3>1. op'.at = "write" /\ op'.key = op.key
      BY <1>0, <2>2 DEF OpRecord
    <3>2. OldestId \in RecordIds /\ Dropped(OldestId)
      BY <2>1, <2>2, FrontIsOldest DEF Dropped, DropFront, Ids
    <3> QED
      BY <2>1, <3>1, <3>2 DEF SamePhase, IndexEffect, EnqueueSteps
  <2>3. CASE /\ op' = EnqueueDone(FALSE, FALSE)
             /\ UNCHANGED <<flash, entries, discarded>>
    <3>1. op'.at \in {"checkpoint", "return"} /\ op'.key = op.key /\ ~op'.ok
      BY <1>0, <2>3, EnqueueDoneType
    <3>2. Untouched
      BY <2>1, <2>3 DEF Untouched, Ids
    <3> QED
      BY <2>1, <3>1, <3>2 DEF SamePhase, IndexEffect, EnqueueSteps
  <2> QED
    BY <1>3, <2>2, <2>3 DEF EvictForSpace
<1>4. CASE Evict
  <2>1. /\ op.at = "evict" /\ op.key \in Keys /\ Len(entries) >= Capacity
        /\ nextRecordId \in RecordIds
        /\ flash[nextRecordId] \in {op.key, Damaged}
    BY <1>4, QueueAssumption DEF Evict, QInv, QTypeOK, OpInv, RecordIds
  <2>2. CASE Works /\ DropFront /\ IndexRecord(Tail(entries))
             /\ discarded' = (discarded \cup {flash[OldestId]}) \ {flash[nextRecordId]}
             /\ op' = EnqueueDone(TRUE, TRUE)
    <3>1. op'.at \in {"checkpoint", "return"} /\ op'.key = op.key
      BY <1>0, <2>2, EnqueueDoneType
    <3>2. /\ Ids' = (Ids \ {OldestId}) \cup {nextRecordId}
          /\ nextRecordId' = nextRecordId + 1
      BY <2>1, <2>2, FrontIsOldest, NewEntryType, IdsAppend DEF IndexRecord, Ids
    <3>3. OldestId \in RecordIds /\ Exchanged(OldestId)
      BY <2>1, <2>2, <3>2, FrontIsOldest DEF Exchanged, DropFront
    <3> QED
      BY <2>1, <3>1, <3>3 DEF SamePhase, IndexEffect, EnqueueSteps
  <2>3. CASE /\ op' = [op EXCEPT !.at = "withdraw"]
             /\ UNCHANGED <<flash, entries, nextRecordId, discarded>>
    <3>1. op'.at = "withdraw" /\ op'.key = op.key
      BY <1>0, <2>3, AtType, OpStepNames
    <3>2. Untouched
      BY <2>3 DEF Untouched, Ids
    <3> QED
      BY <2>1, <3>1, <3>2 DEF SamePhase, IndexEffect, EnqueueSteps
  <2> QED
    BY <1>4, <2>2, <2>3 DEF Evict
<1>5. CASE Withdraw
  <2>1. /\ op.at = "withdraw" /\ nextRecordId \in RecordIds
        /\ UNCHANGED <<entries, nextRecordId, discarded>>
    BY <1>5, QueueAssumption
       DEF Withdraw, QInv, QTypeOK, OpInv, RecordIds, ramVars, ghostVars
  <2>2. op'.at \in {"checkpoint", "return"} /\ op'.key = op.key /\ ~op'.ok
    BY <1>0, <1>5, EnqueueDoneType DEF Withdraw
  <2>3. TakenBack \/ Untouched
    BY <1>5, <2>1 DEF Withdraw, TakenBack, Untouched, Ids
  <2> QED
    BY <2>1, <2>2, <2>3 DEF SamePhase, IndexEffect, EnqueueSteps
<1>6. CASE EnqueueCheckpoint
  <2>1. Untouched /\ op.at = "checkpoint"
    BY <1>6 DEF EnqueueCheckpoint, Untouched, ramVars, ghostVars, Ids
  <2>2. op'.at = "return" /\ op'.key = op.key /\ op'.ok = op.ok
    BY <1>0, <1>6, AtType, OpStepNames DEF EnqueueCheckpoint
  <2> QED
    BY <2>1, <2>2 DEF SamePhase, IndexEffect, EnqueueSteps
<1> QED
  BY <1>1, <1>2, <1>3, <1>4, <1>5, <1>6 DEF EnqueueStep

\* The steps of a finish: only records it was given leave the index.
LEMMA FinishEffects ==
  ASSUME QInv, FinishStep
  PROVE  /\ SamePhase /\ IndexEffect
         /\ op.at \in FinishSteps /\ op'.at \in FinishSteps \cup {"return"}
         /\ op'.at = "remove" => op.at = "remove" /\ op'.todo \subseteq op.todo
         /\ \A i \in DOMAIN recent' :
              \/ \E j \in DOMAIN recent : recent'[i] = recent[j]
              \/ op.at = "remove" /\ \E a \in op.todo : recent'[i] = a.key
         /\ recentFile' \in {recentFile, recent}
<1>0. /\ op \in OpRecord /\ op.ok \in BOOLEAN /\ op.changed \in BOOLEAN
      /\ entries \in Seq(Entry) /\ op.todo \subseteq Action /\ recent \in Seq(Keys)
  BY DEF QInv, QTypeOK, OpRecord
<1>1. ASSUME NEW a \in op.todo, FinishRemove(a)
      PROVE  /\ SamePhase /\ IndexEffect
             /\ op.at = "remove" /\ op'.at \in FinishSteps
             /\ op'.todo \subseteq op.todo
             /\ recent' = recent \/ recent' = Remember(recent, a.key)
             /\ recentFile' = recentFile
  <2>1. /\ op.at = "remove" /\ UNCHANGED <<nextRecordId, discarded, recentFile>>
        /\ entries \in Seq(Entry) /\ Ascending(entries)
    BY <1>1 DEF FinishRemove, ghostVars, QInv, QTypeOK, IndexInv
  <2>2. ASSUME NEW ok \in BOOLEAN, NEW changed \in BOOLEAN,
               op' = FinishNext(a, ok, changed)
        PROVE  op'.at \in FinishSteps /\ op'.todo = op.todo \ {a}
    <3>1. op'.at \in {"remove", "persistRecent", "tally"}
      BY <1>0, <2>2, FinishNextType
    <3>2. op'.todo = op.todo \ {a}
      BY <1>0, <2>2 DEF FinishNext, OpRecord
    <3> QED
      BY <3>1, <3>2 DEF FinishSteps
  <2>3. ASSUME NEW i \in DOMAIN entries,
               entries[i].id = a.id,
               flash' = [flash EXCEPT ![a.id] = NoFile],
               entries' = RemoveAt(entries, i),
               recent' = Remember(recent, a.key),
               op' = FinishNext(a, op.ok, op.changed \/ ~Contains(recent, a.key))
        PROVE  /\ Removed(a)
               /\ op'.at \in FinishSteps /\ op'.todo \subseteq op.todo
               /\ recent' = recent \/ recent' = Remember(recent, a.key)
    <3>1. op'.at \in FinishSteps /\ op'.todo = op.todo \ {a}
      BY <1>0, <2>2, <2>3
    <3>2. Ids' = Ids \ {a.id}
      BY <2>1, <2>3, IdsRemoveAt DEF Ids
    <3>3. a.id \in Ids
      BY <2>3 DEF Ids, IdsOf
    <3> QED
      BY <2>1, <2>3, <3>1, <3>2, <3>3 DEF Removed
  <2>4. CASE /\ op' = FinishNext(a, FALSE, op.changed)
             /\ UNCHANGED <<flash, entries, recent>>
    <3>1. op'.at \in FinishSteps /\ op'.todo = op.todo \ {a}
      BY <1>0, <2>2, <2>4
    <3>2. Untouched
      BY <2>1, <2>4 DEF Untouched, Ids
    <3> QED
      BY <2>1, <2>4, <3>1, <3>2 DEF SamePhase, IndexEffect, FinishSteps
  <2>5. CASE \E i \in DOMAIN entries :
               /\ entries[i].id = a.id
               /\ flash' = [flash EXCEPT ![a.id] = NoFile]
               /\ entries' = RemoveAt(entries, i)
               /\ recent' = Remember(recent, a.key)
               /\ op' = FinishNext(a, op.ok, op.changed \/ ~Contains(recent, a.key))
    <3>1. /\ Removed(a)
          /\ op'.at \in FinishSteps /\ op'.todo \subseteq op.todo
          /\ recent' = recent \/ recent' = Remember(recent, a.key)
      BY <2>3, <2>5
    <3> QED
      BY <2>1, <3>1 DEF SamePhase, IndexEffect, FinishSteps
  <2> QED
    BY <1>1, <2>4, <2>5 DEF FinishRemove
<1>2. ASSUME NEW a \in op.todo, FinishRemove(a), NEW i \in DOMAIN recent'
      PROVE  \/ \E j \in DOMAIN recent : recent'[i] = recent[j]
             \/ recent'[i] = a.key
  <2>1. a.key \in Keys
    BY <1>0 DEF Action
  <2>2. recent' = recent \/ recent' = Remember(recent, a.key)
    BY <1>1, <1>2
  <2> QED
    BY <1>0, <1>2, <2>1, <2>2, RememberProperties
<1>3. CASE PersistRecent
  <2>1. /\ Untouched /\ op.at = "persistRecent" /\ recent' = recent
        /\ recentFile' \in {recentFile, recent}
    BY <1>3 DEF PersistRecent, Untouched, ramVars, ghostVars, Ids
  <2>2. op'.at = "tally"
    BY <1>0, <1>3 DEF PersistRecent, OpRecord
  <2> QED
    BY <2>1, <2>2 DEF SamePhase, IndexEffect, FinishSteps
<1>4. CASE FinishTally
  <2>1. /\ Untouched /\ op.at = "tally" /\ UNCHANGED <<recent, recentFile>>
    BY <1>4 DEF FinishTally, Untouched, ramVars, ghostVars, Ids
  <2>2. op'.at = "return"
    BY <1>0, <1>4 DEF FinishTally, OpRecord
  <2> QED
    BY <2>1, <2>2 DEF SamePhase, IndexEffect, FinishSteps
<1>5. ASSUME NEW a \in op.todo, FinishRemove(a)
      PROVE  /\ SamePhase /\ IndexEffect
             /\ op.at \in FinishSteps /\ op'.at \in FinishSteps \cup {"return"}
             /\ op'.at = "remove" => op.at = "remove" /\ op'.todo \subseteq op.todo
             /\ \A i \in DOMAIN recent' :
                  \/ \E j \in DOMAIN recent : recent'[i] = recent[j]
                  \/ op.at = "remove" /\ \E b \in op.todo : recent'[i] = b.key
             /\ recentFile' \in {recentFile, recent}
  <2>1. /\ SamePhase /\ IndexEffect
        /\ op.at = "remove" /\ op'.at \in FinishSteps
        /\ op'.todo \subseteq op.todo /\ recentFile' = recentFile
    BY <1>1, <1>5
  <2> QED
    BY <1>2, <1>5, <2>1 DEF FinishSteps
<1> QED
  BY <1>3, <1>4, <1>5 DEF FinishStep

\* The steps of begin().  The first one formats only an empty filesystem.
LEMMA BootEffects ==
  ASSUME QInv, FreshInv, BootStep
  PROVE  /\ QueueEffect
         /\ op.at \in {"off"} \cup BootSteps
         /\ op'.at \in {"failed", "idle"} \cup BootSteps
         /\ \A i \in DOMAIN recent' :
              \/ \E j \in DOMAIN recent : recent'[i] = recent[j]
              \/ \E j \in DOMAIN recentFile : recent'[i] = recentFile[j]
         /\ recentFile' \in {recentFile, <<>>}
<1>0. /\ op \in OpRecord /\ entries \in Seq(Entry)
      /\ op.at = "scan" => op.scan \subseteq RecordIds
  BY DEF QInv, QTypeOK, OpRecord
<1>1. CASE Begin
  <2>1. /\ op.at = "off"
        /\ UNCHANGED <<discarded, recent>>
    BY <1>1 DEF Begin, ramVars, ghostVars
  <2>2. CASE /\ MountFilesystem
             /\ op' = [NoOp("scan") EXCEPT
                         !.scan = {i \in RecordIds : flash'[i] # NoFile}]
    <3>1. UNCHANGED flash /\ recentFile' \in {recentFile, <<>>}
      BY <2>2 DEF MountFilesystem, FreshInv
    <3>2. op'.at = "scan" /\ op'.scan = {i \in RecordIds : flash[i] # NoFile}
      BY <2>2, <3>1 DEF NoOp
    <3>3. Rescanned
      BY <2>1, <3>1, <3>2 DEF Rescanned
    <3> QED
      BY <2>1, <3>1, <3>2, <3>3 DEF QueueEffect, BootSteps
  <2>3. CASE op' = NoOp("failed") /\ UNCHANGED <<flash, recentFile>>
    <3>1. op'.at = "failed"
      BY <2>3 DEF NoOp
    <3>2. QueueGone
      BY <2>1, <2>3, <3>1 DEF QueueGone
    <3> QED
      BY <2>1, <2>3, <3>1, <3>2 DEF QueueEffect
  <2> QED
    BY <1>1, <2>2, <2>3 DEF Begin
<1>2. ASSUME NEW id \in op.scan, RecoverRecord(id)
      PROVE  /\ op.at = "scan" /\ op'.at = "scan" /\ QueueEffect
             /\ UNCHANGED <<recent, recentFile>>
  <2>1. /\ op.at = "scan" /\ id \in RecordIds
        /\ UNCHANGED <<recent, recentFile>> /\ faults \in Nat
    BY <1>0, <1>2 DEF RecoverRecord, QInv, QTypeOK
  <2>2. CASE /\ flash[id] \in Keys
             /\ entries' = Append(entries, [id |-> id, hash |-> Hash[flash[id]]])
             /\ op' = [op EXCEPT !.scan = op.scan \ {id}]
             /\ discarded' = discarded \ {flash[id]}
             /\ UNCHANGED flash
    <3> DEFINE e == [id |-> id, hash |-> Hash[flash[id]]]
    <3>1. e \in Entry /\ e.id = id
      <4>1. id \in Nat /\ Hash[flash[id]] \in Nat
        BY <2>1, <2>2, QueueAssumption DEF RecordIds
      <4> QED
        BY <4>1 DEF Entry
    <3>2. entries' = Append(entries, e)
      BY <2>2
    <3> HIDE DEF e
    <3>3. Ids' = Ids \cup {id}
      BY <1>0, <3>1, <3>2, IdsAppend DEF Ids
    <3>4. op'.at = "scan" /\ op'.scan = op.scan \ {id}
      BY <1>0, <2>1, <2>2 DEF OpRecord
    <3>5. Found(id)
      BY <2>1, <2>2, <3>3, <3>4 DEF Found
    <3> QED
      BY <2>1, <3>4, <3>5 DEF QueueEffect
  <2>3. CASE /\ \/ flash[id] \notin Keys /\ Works
                   /\ flash' = [flash EXCEPT ![id] = NoFile]
                \/ flash[id] \notin Keys /\ Fails("remove") /\ UNCHANGED flash
                \/ flash[id] \in Keys /\ Fails("read")
                   /\ flash' \in {flash, [flash EXCEPT ![id] = NoFile]}
             /\ discarded' = discarded \cup {flash[id]}
             /\ op' = [op EXCEPT !.scan = op.scan \ {id}, !.changed = TRUE]
             /\ UNCHANGED entries
    <3>1. op'.at = "scan" /\ op'.scan = op.scan \ {id}
      BY <1>0, <2>1, <2>3 DEF OpRecord
    <3>2. flash' \in {flash, [flash EXCEPT ![id] = NoFile]}
      BY <2>3
    <3>3. flash[id] \in Keys => faults' > faults /\ "read" \in Faults
      BY <2>1, <2>3 DEF Fails
    <3>4. Abandoned(id)
      BY <2>1, <2>3, <3>1, <3>2, <3>3 DEF Abandoned, Ids
    <3> QED
      BY <2>1, <3>1, <3>4 DEF QueueEffect
  <2> QED
    BY <1>2, <2>2, <2>3 DEF RecoverRecord
<1>3. CASE RecoverSort
  <2>1. /\ op.at = "scan" /\ op.scan = {}
        /\ UNCHANGED <<flash, discarded, recent, recentFile>>
        /\ entries' \in SortedPermutations(entries)
    BY <1>3 DEF RecoverSort, flashVars, ghostVars
  <2>2. op'.at = "trim"
    BY <1>0, <1>3, AtType, OpStepNames DEF RecoverSort
  <2>3. Ids' = Ids
    BY <1>0, <2>1, IdsSorted DEF Ids
  <2>4. Sorted
    BY <2>1, <2>2, <2>3 DEF Sorted
  <2> QED
    BY <2>1, <2>2, <2>4 DEF QueueEffect, BootSteps
<1>4. CASE RecoverTrim
  <2>1. /\ op.at = "trim" /\ Len(entries) >= Capacity
        /\ UNCHANGED <<recent, recentFile, nextRecordId>>
    BY <1>4, QueueAssumption DEF RecoverTrim, QInv, QTypeOK
  <2>2. CASE /\ DropFront
             /\ entries' = Tail(entries)
             /\ discarded' = discarded \cup {flash[OldestId]}
             /\ op' = [op EXCEPT !.changed = TRUE]
    <3>1. op'.at = "trim"
      BY <1>0, <2>1, <2>2 DEF OpRecord
    <3>2. OldestId \in RecordIds /\ Dropped(OldestId)
      BY <2>1, <2>2, FrontIsOldest DEF Dropped, DropFront, Ids
    <3> QED
      BY <2>1, <3>1, <3>2 DEF QueueEffect, SamePhase, IndexEffect, BootSteps
  <2>3. CASE op' = NoOp("failed") /\ UNCHANGED <<flash, discarded>>
    <3>1. op'.at = "failed"
      BY <2>3 DEF NoOp
    <3>2. QueueGone
      BY <2>3, <3>1 DEF QueueGone
    <3> QED
      BY <2>1, <3>1, <3>2 DEF QueueEffect, BootSteps
  <2> QED
    BY <1>4, <2>2, <2>3 DEF RecoverTrim
<1>5. CASE LoadCounters
  <2>1. op.at = "trim" /\ Untouched /\ UNCHANGED <<recent, recentFile>>
    BY <1>5 DEF LoadCounters, Untouched, flashVars, ghostVars, Ids
  <2>2. op'.at = "loadRecent"
    BY <1>0, <1>5, AtType, OpStepNames DEF LoadCounters
  <2> QED
    BY <2>1, <2>2 DEF QueueEffect, SamePhase, IndexEffect, BootSteps
<1>7. CASE LoadRecent
  <2>1. op.at = "loadRecent" /\ Untouched
    BY <1>7 DEF LoadRecent, Untouched, ghostVars, Ids
  <2>2. op'.at \in {"bootCheckpoint", "idle"}
    BY <1>7 DEF LoadRecent, NoOp
  <2>3. /\ recent' = recentFile \/ recent' = <<>>
        /\ recentFile' \in {recentFile, <<>>}
    BY <1>7 DEF LoadRecent
  <2> QED
    BY <2>1, <2>2, <2>3 DEF QueueEffect, SamePhase, IndexEffect, BootSteps
<1>6. CASE BeginCheckpoint
  <2>1. op.at = "bootCheckpoint" /\ Untouched /\ UNCHANGED <<recent, recentFile>>
    BY <1>6 DEF BeginCheckpoint, Untouched, ramVars, ghostVars, Ids
  <2>2. op'.at = "idle"
    BY <1>6 DEF BeginCheckpoint, NoOp
  <2> QED
    BY <2>1, <2>2 DEF QueueEffect, SamePhase, IndexEffect, BootSteps
<1> QED
  BY <1>1, <1>2, <1>3, <1>4, <1>5, <1>6, <1>7 DEF BootStep, BootSteps

\* The steps that begin and end an operation, and those of the environment.
LEMMA OtherEffects ==
  ASSUME QInv
  PROVE  /\ \A k \in Keys : EnqueueBegin(k) =>
              /\ SamePhase /\ Untouched /\ op.at = "idle"
              /\ op'.at \in {"write", "return"} /\ UNCHANGED <<recent, recentFile>>
              /\ op'.at = "write" => op'.key = k
              /\ op'.at = "return" => ~op'.ok
         /\ \A actions : FinishBegin(actions) =>
              /\ SamePhase /\ Untouched /\ op.at = "idle"
              /\ op'.at = "remove" /\ op'.todo = actions
              /\ UNCHANGED <<recent, recentFile>>
         /\ Return => /\ SamePhase /\ Untouched /\ op.at = "return"
                      /\ op'.at = "idle" /\ UNCHANGED <<recent, recentFile>>
         /\ \A k, found : Lookup(k, found) =>
              /\ op' = op /\ Untouched /\ UNCHANGED <<recent, recentFile>>
         /\ CheckpointCounters =>
              /\ op' = op /\ Untouched /\ UNCHANGED <<recent, recentFile>>
         /\ PowerLoss => /\ QueueGone /\ op'.at = "off"
                         /\ recent' = <<>> /\ recentFile' = recentFile
         /\ \A id \in RecordIds : MediaDecay(id) =>
              /\ op' = op /\ Decayed(id) /\ UNCHANGED <<recent, recentFile>>
<1> USE DEF Ids
<1>1. ASSUME NEW k \in Keys, EnqueueBegin(k)
      PROVE  /\ SamePhase /\ Untouched /\ op.at = "idle"
             /\ op'.at \in {"write", "return"} /\ UNCHANGED <<recent, recentFile>>
             /\ op'.at = "write" => op'.key = k
             /\ op'.at = "return" => ~op'.ok
  BY <1>1 DEF EnqueueBegin, Untouched, SamePhase, NoOp, flashVars, ramVars, ghostVars
<1>2. ASSUME NEW actions, FinishBegin(actions)
      PROVE  /\ SamePhase /\ Untouched /\ op.at = "idle"
             /\ op'.at = "remove" /\ op'.todo = actions
             /\ UNCHANGED <<recent, recentFile>>
  BY <1>2 DEF FinishBegin, Untouched, SamePhase, NoOp, flashVars, ramVars, ghostVars
<1>3. ASSUME Return
      PROVE  /\ SamePhase /\ Untouched /\ op.at = "return"
             /\ op'.at = "idle" /\ UNCHANGED <<recent, recentFile>>
  BY <1>3 DEF Return, Untouched, SamePhase, NoOp, flashVars, ramVars, ghostVars
<1>4. ASSUME NEW k, NEW found, Lookup(k, found)
      PROVE  op' = op /\ Untouched /\ UNCHANGED <<recent, recentFile>>
  BY <1>4 DEF Lookup, Untouched, flashVars, ramVars, ghostVars
<1>5. ASSUME CheckpointCounters
      PROVE  op' = op /\ Untouched /\ UNCHANGED <<recent, recentFile>>
  BY <1>5 DEF CheckpointCounters, Untouched, ramVars, ghostVars
<1>6. ASSUME PowerLoss
      PROVE  QueueGone /\ op'.at = "off" /\ recent' = <<>> /\ recentFile' = recentFile
  BY <1>6 DEF PowerLoss, QueueGone, NoOp, ghostVars
<1>7. ASSUME NEW id \in RecordIds, MediaDecay(id)
      PROVE  op' = op /\ Decayed(id) /\ UNCHANGED <<recent, recentFile>>
  BY <1>7 DEF MediaDecay, Decayed, ramVars
<1> QED
  BY <1>1, <1>2, <1>3, <1>4, <1>5, <1>6, <1>7

\* Every step of the queue has one of the effects.
LEMMA QueueEffects ==
  ASSUME QInv, FreshInv, [QNext]_qvars
  PROVE  QueueEffect
<1>1. ASSUME NEW k \in Keys, EnqueueBegin(k) PROVE QueueEffect
  BY <1>1, OtherEffects DEF QueueEffect, IndexEffect
<1>2. ASSUME NEW actions, FinishBegin(actions) PROVE QueueEffect
  BY <1>2, OtherEffects DEF QueueEffect, IndexEffect
<1>3. CASE Return
  BY <1>3, OtherEffects DEF QueueEffect, IndexEffect
<1>4. CASE EnqueueStep
  BY <1>4, EnqueueEffects DEF QueueEffect
<1>5. CASE FinishStep
  BY <1>5, FinishEffects DEF QueueEffect
<1>6. CASE BootStep
  BY <1>6, BootEffects
<1>7. CASE CheckpointCounters
  BY <1>7, OtherEffects DEF QueueEffect, IndexEffect, SamePhase
<1>8. CASE PowerLoss
  BY <1>8, OtherEffects DEF QueueEffect
<1>9. ASSUME NEW id \in RecordIds, MediaDecay(id) PROVE QueueEffect
  BY <1>9, OtherEffects DEF QueueEffect, IndexEffect, SamePhase
<1>10. CASE UNCHANGED qvars
  BY <1>10 DEF QueueEffect, IndexEffect, SamePhase, Untouched, Ids, qvars,
               flashVars, ramVars, ghostVars
<1>11. ASSUME NEW k, NEW found, Lookup(k, found) PROVE QueueEffect
  BY <1>11, OtherEffects DEF QueueEffect, IndexEffect, SamePhase
<1> QED
  BY <1>1, <1>2, <1>3, <1>4, <1>5, <1>6, <1>7, <1>8, <1>9, <1>10, <1>11 DEF QNext

-----------------------------------------------------------------------------
(***************************************************************************)
(* The contract of finish(), one action at a time.  While the queue stays  *)
(* up, nothing that happens between a peek and the answer to it makes an   *)
(* action name another record than the one that was peeked.                *)
(***************************************************************************)
Within(a) ==
  /\ a.id \in RecordIds
  /\ a.id < nextRecordId
  /\ a.id \in Ids => flash[a.id] \in {a.key, Damaged}

\* An action within the contract stays within it.
LEMMA WithinKept ==
  ASSUME QInv, IndexEffect, NEW a, Within(a)
  PROVE  Within(a)'
<1>1. /\ a.id \in RecordIds /\ a.id < nextRecordId
      /\ a.id \in Ids => flash[a.id] \in {a.key, Damaged}
      /\ nextRecordId \in Nat /\ a.id # nextRecordId /\ a.id \in Nat
      /\ flash \in [RecordIds -> Content]
  BY DEF Within, QInv, QTypeOK, RecordIds
<1>2. CASE Untouched
  BY <1>1, <1>2 DEF Untouched, Within
<1>3. CASE Committed
  <2>1. /\ a.id < nextRecordId' /\ flash'[a.id] = flash[a.id]
        /\ a.id \in Ids' => a.id \in Ids
    BY <1>1, <1>3 DEF Committed
  <2> QED
    BY <1>1, <2>1 DEF Within
<1>4. CASE Overwritten
  BY <1>1, <1>4 DEF Overwritten, Within
<1>5. CASE TakenBack
  BY <1>1, <1>5 DEF TakenBack, Within
<1>6. ASSUME NEW id \in RecordIds, Dropped(id) PROVE Within(a)'
  BY <1>1, <1>6 DEF Dropped, Within
<1>7. ASSUME NEW id \in RecordIds, Exchanged(id) PROVE Within(a)'
  <2>1. /\ a.id < nextRecordId'
        /\ a.id \in Ids' => a.id \in Ids /\ flash'[a.id] = flash[a.id]
    BY <1>1, <1>7 DEF Exchanged
  <2> QED
    BY <1>1, <2>1 DEF Within
<1>8. ASSUME NEW id \in RecordIds, Decayed(id) PROVE Within(a)'
  BY <1>1, <1>8 DEF Decayed, Within
<1>9. ASSUME NEW b \in op.todo, Removed(b) PROVE Within(a)'
  BY <1>1, <1>9 DEF Removed, Within
<1> QED
  BY <1>2, <1>3, <1>4, <1>5, <1>6, <1>7, <1>8, <1>9 DEF IndexEffect

\* The contract is what Within says of each action.
LEMMA ContractWithin ==
  ASSUME NEW A PROVE FinishContract(A) <=> \A a \in A : Within(a)
  BY DEF FinishContract, Within, Ids

\* A batch that was peeked stays within the contract while it is in flight.
LEMMA BatchKept ==
  ASSUME QInv, BatchInv, IndexEffect, UNCHANGED worker
  PROVE  BatchInv'
<1>1. Batch' = Batch
  BY DEF Batch
<1>2. ASSUME worker.at = "request", NEW a \in Batch PROVE Within(a)'
  <2>1. Within(a)
    BY <1>2, ContractWithin DEF BatchInv
  <2> QED
    BY <2>1, WithinKept
<1> QED
  BY <1>1, <1>2 DEF BatchInv, FinishContract, Within, Ids

\* So does what finish() still has to do.
LEMMA TodoKept ==
  ASSUME QInv, TodoInv, IndexEffect, terminal \subseteq terminal',
         op'.at = "remove" => op.at = "remove" /\ op'.todo \subseteq op.todo
  PROVE  TodoInv'
<1>1. ASSUME op'.at = "remove", NEW a \in op'.todo
      PROVE  Within(a)' /\ a.key \in terminal'
  <2>1. Within(a) /\ a.key \in terminal
    BY <1>1, ContractWithin DEF TodoInv
  <2> QED
    BY <2>1, WithinKept
<1> QED
  BY <1>1 DEF TodoInv, FinishContract, Within, Ids

\* The filesystem is ready before anything is written.
LEMMA FreshStep ==
  ASSUME QInv, FreshInv, [QNext]_qvars
  PROVE  FreshInv'
<1>1. CASE fsReady'
  BY <1>1 DEF FreshInv
<1>2. CASE ~fsReady'
  <2>1. CASE fsReady
    BY <1>2, <2>1
       DEF QNext, qvars, flashVars, EnqueueBegin, FinishBegin, Lookup, Return,
           EnqueueStep, WriteTemp, RenameTemp, EvictForSpace, Evict, Withdraw,
           EnqueueCheckpoint, FinishStep, FinishRemove, PersistRecent, FinishTally,
           BootStep, Begin, RecoverRecord, RecoverSort, RecoverTrim, LoadCounters,
           LoadRecent, BeginCheckpoint, CheckpointCounters, PowerLoss, MediaDecay
  <2>2. CASE ~fsReady
    <3>1. op.at \in {"off", "failed"} /\ flash = [i \in RecordIds |-> NoFile]
      BY <2>2 DEF FreshInv
    <3>2. \A id \in RecordIds : flash[id] \notin Keys
      BY <3>1, QueueAssumption
    <3>3. \A k, found : Lookup(k, found) => UNCHANGED <<flash, op>>
      BY DEF Lookup, flashVars
    <3>4. Begin => op'.at \in {"off", "failed"} /\ UNCHANGED flash
      BY <1>2 DEF Begin, NoOp
    <3>5. PowerLoss => op'.at \in {"off", "failed"} /\ UNCHANGED flash
      BY DEF PowerLoss, NoOp
    <3>6. UNCHANGED qvars => UNCHANGED <<flash, op>>
      BY DEF qvars, flashVars
    <3>7. op'.at \in {"off", "failed"} /\ UNCHANGED flash
      BY <3>1, <3>2, <3>3, <3>4, <3>5, <3>6
         DEF QNext, EnqueueBegin, FinishBegin, Return,
           EnqueueStep, WriteTemp, RenameTemp, EvictForSpace, Evict, Withdraw,
           EnqueueCheckpoint, FinishStep, FinishRemove, PersistRecent, FinishTally,
           BootStep, RecoverRecord, RecoverSort, RecoverTrim, LoadCounters,
           LoadRecent, BeginCheckpoint, CheckpointCounters, MediaDecay
    <3> QED
      BY <3>1, <3>7 DEF FreshInv
  <2> QED
    BY <2>1, <2>2
<1> QED
  BY <1>1, <1>2

-----------------------------------------------------------------------------
(* The two tasks as clients of the queue. *)

\* The records of a batch are actions, and their ids are still the queue's.
LEMMA BatchActions ==
  ASSUME PathInv, worker.at = "request"
  PROVE  /\ Batch \in SUBSET [id : RecordIds, key : Keys]
         /\ \A a \in Batch : Within(a)
<1>1. \A a \in Batch : Within(a)
  BY ContractWithin DEF PathInv, BatchInv
<1>2. Batch \subseteq Action
  BY DEF PathInv, TypeOK, Batch
<1>3. ASSUME NEW a \in Batch PROVE a \in [id : RecordIds, key : Keys]
  <2>1. a \in Action /\ a.id \in RecordIds
    BY <1>1, <1>2 DEF Within
  <2> QED
    BY <2>1 DEF Action
<1> QED
  BY <1>1, <1>3

\* Every step of the composition is a step of the queue, or none of its own.
LEMMA NextIsQueueStep ==
  ASSUME PathInv, [Next]_vars
  PROVE  [QNext]_qvars
<1>1. ASSUME NEW k \in Keys, ReceiveFrame(k) PROVE [QNext]_qvars
  BY <1>1 DEF ReceiveFrame
<1>2. CASE CheckDuplicate
  <2>1. radio.key \in Keys
    BY <1>2 DEF CheckDuplicate, PathInv, OwnerInv
  <2> QED
    BY <1>2, <2>1 DEF CheckDuplicate, QNext
<1>3. CASE StartEnqueue
  <2>1. radio.key \in Keys
    BY <1>3 DEF StartEnqueue, PathInv, OwnerInv
  <2> QED
    BY <1>3, <2>1 DEF StartEnqueue, QNext
<1>4. CASE EnqueueUnavailable \/ TransmitAck \/ PeekBatch \/ RequestFails
  BY <1>4 DEF EnqueueUnavailable, TransmitAck, PeekBatch, RequestFails
<1>5. CASE EnqueueReturns \/ FinishReturns
  BY <1>5 DEF EnqueueReturns, FinishReturns, QNext
<1>6. ASSUME NEW answered \in SUBSET DOMAIN worker.batch, HandleResponse(answered)
      PROVE  [QNext]_qvars
  <2> DEFINE A == {worker.batch[i] : i \in answered}
  <2>1. worker.at = "request" /\ FinishBegin(A)
    BY <1>6 DEF HandleResponse
  <2>2. A \subseteq Batch
    BY DEF Batch
  <2>3. A \in SUBSET [id : RecordIds, key : Keys] /\ \A a \in A : Within(a)
    BY <2>1, <2>2, BatchActions
  <2> HIDE DEF A
  <2>4. FinishContract(A)
    BY <2>3, ContractWithin
  <2> QED
    BY <2>1, <2>3, <2>4 DEF QNext
<1>7. ASSUME NEW i \in DOMAIN worker.batch, BackendDecides(i) PROVE [QNext]_qvars
  BY <1>7 DEF BackendDecides
<1>8. CASE QueueStep \/ Checkpoint \/ Restart \/ Decay
  BY <1>8 DEF QueueStep, Checkpoint, Restart, Decay, QNext
<1>9. CASE UNCHANGED vars
  BY <1>9 DEF vars
<1> QED
  BY <1>1, <1>2, <1>3, <1>4, <1>5, <1>6, <1>7, <1>8, <1>9 DEF Next, RadioStep

\* What peek() returns is a batch of actions within the contract.
LEMMA PeekedBatch ==
  ASSUME QInv, NEW limit \in Nat, PeekReadable(limit)
  PROVE  /\ PeekRecords(limit) \in Seq(Action)
         /\ \A i \in DOMAIN PeekRecords(limit) :
              /\ Within(PeekRecords(limit)[i])
              /\ PeekRecords(limit)[i].id \in Ids
              /\ flash[PeekRecords(limit)[i].id] = PeekRecords(limit)[i].key
<1> DEFINE n == PeekCount(limit)
           rec(i) == [id |-> entries[i].id, key |-> flash[entries[i].id]]
           s == [i \in 1 .. n |-> rec(i)]
<1>1. entries \in Seq(Entry) /\ DOMAIN entries = 1 .. Len(entries) /\ Len(entries) \in Nat
  BY DEF QInv, QTypeOK
<1>2. n \in Nat /\ 1 .. n \subseteq DOMAIN entries
  BY <1>1 DEF PeekCount
<1>3. ASSUME NEW i \in 1 .. n
      PROVE  /\ rec(i) \in Action /\ Within(rec(i)) /\ rec(i).id \in Ids
             /\ flash[rec(i).id] = rec(i).key
  <2>1. /\ i \in DOMAIN entries /\ entries[i].id \in RecordIds
        /\ entries[i].id < nextRecordId /\ entries[i].id \in Nat
    BY <1>2, ListedEntry DEF RecordIds
  <2>2. flash[entries[i].id] \in Keys
    BY DEF PeekReadable
  <2>3. entries[i].id \in Ids
    BY <2>1 DEF Ids, IdsOf
  <2> QED
    BY <2>1, <2>2, <2>3 DEF Within, Action
<1> HIDE DEF n, rec
<1>4. s \in Seq(Action) /\ DOMAIN s = 1 .. n
  BY <1>2, <1>3
<1>5. \A i \in DOMAIN s : Within(s[i]) /\ s[i].id \in Ids /\ flash[s[i].id] = s[i].key
  BY <1>3, <1>4
<1>6. PeekRecords(limit) = s
  BY DEF PeekRecords, s, n, rec
<1> HIDE DEF s
<1> QED
  BY <1>4, <1>5, <1>6

\* A step that leaves the queue alone has no effect on it.
LEMMA StutterEffect ==
  ASSUME UNCHANGED qvars
  PROVE  /\ op' = op /\ Untouched /\ IndexEffect
         /\ UNCHANGED <<recent, recentFile>>
  BY DEF qvars, flashVars, ramVars, ghostVars, Untouched, IndexEffect, Ids

\* The invariant holds at first power-on.
LEMMA PathInvInit == Init => PathInv
<1> SUFFICES ASSUME Init PROVE PathInv
  OBVIOUS
<1>1. QInv /\ op.at = "off"
  BY QInvInit DEF Init, QInit, NoOp
<1>2. TypeOK
  BY <1>1 DEF Init, TypeOK, QInv, Listening, WorkerIdle, RadioSteps
<1>3. OwnerInv
  BY <1>1 DEF Init, OwnerInv, Listening, WorkerIdle, EnqueueSteps, FinishSteps
<1>4. BatchInv /\ TodoInv
  BY <1>1 DEF Init, BatchInv, TodoInv, WorkerIdle
<1>5. FreshInv /\ RingHoldsOnlyTerminal
  BY <1>1 DEF Init, QInit, FreshInv, RingHoldsOnlyTerminal
<1> QED
  BY <1>1, <1>2, <1>3, <1>4, <1>5 DEF PathInv

\* What is left to show of a step once the queue's part is known.
ClientInv == TypeOK /\ OwnerInv /\ BatchInv /\ TodoInv /\ RingHoldsOnlyTerminal

\* The steps of the radio task.
LEMMA RadioTaskInv ==
  ASSUME PathInv, QInv',
         (\E k \in Keys : ReceiveFrame(k)) \/ RadioStep
  PROVE  ClientInv'
<1> USE DEF Healthy, BootSteps, EnqueueSteps, FinishSteps
<1>0. /\ radio \in [at : RadioSteps, key : Keys \cup {NoKey}]
      /\ worker' = worker /\ terminal' = terminal
      /\ QTypeOK' /\ QInv
  BY DEF PathInv, TypeOK, QInv, ReceiveFrame, RadioStep, CheckDuplicate,
         StartEnqueue, EnqueueUnavailable, EnqueueReturns, TransmitAck
<1>a. ASSUME IndexEffect, UNCHANGED <<recent, recentFile>>,
             op'.at = "remove" => op.at = "remove" /\ op'.todo = op.todo
      PROVE  BatchInv' /\ TodoInv' /\ RingHoldsOnlyTerminal'
  <2>1. BatchInv' /\ TodoInv'
    BY <1>0, <1>a, BatchKept, TodoKept DEF PathInv
  <2> QED
    BY <1>0, <1>a, <2>1 DEF PathInv, RingHoldsOnlyTerminal
<1>1. ASSUME NEW k \in Keys, ReceiveFrame(k) PROVE ClientInv'
  <2>1. /\ UNCHANGED <<op, acked>> /\ radio'.at = "check" /\ radio'.key = k
        /\ radio' \in [at : RadioSteps, key : Keys \cup {NoKey}]
        /\ radio.at = "listen"
    BY <1>1 DEF ReceiveFrame, RadioSteps, qvars
  <2>2. BatchInv' /\ TodoInv' /\ RingHoldsOnlyTerminal'
    BY <1>1, <1>a, StutterEffect DEF ReceiveFrame
  <2>3. TypeOK'
    BY <1>0, <2>1 DEF PathInv, TypeOK
  <2>4. OwnerInv'
    BY <1>0, <2>1 DEF PathInv, OwnerInv
  <2> QED
    BY <2>2, <2>3, <2>4 DEF ClientInv
<1>2. CASE CheckDuplicate
  <2>1. /\ op' = op /\ Untouched /\ UNCHANGED <<recent, recentFile, acked>>
        /\ radio.at = "check" /\ op.at \in {"idle", "failed"}
    BY <1>0, <1>2, OtherEffects DEF CheckDuplicate, Lookup
  <2>2. PICK found \in BOOLEAN :
             /\ Lookup(radio.key, found)
             /\ radio' = [radio EXCEPT !.at = IF found THEN "ack" ELSE "enqueue"]
    BY <1>2 DEF CheckDuplicate
  <2>3. /\ radio'.at = (IF found THEN "ack" ELSE "enqueue") /\ radio'.key = radio.key
        /\ radio' \in [at : RadioSteps, key : Keys \cup {NoKey}]
    BY <1>0, <2>2 DEF RadioSteps
  <2>4. found => op.at = "idle"
    BY <2>1, <2>2 DEF Lookup
  <2>5. BatchInv' /\ TodoInv' /\ RingHoldsOnlyTerminal'
    BY <1>a, <2>1 DEF IndexEffect
  <2>6. TypeOK'
    BY <1>0, <2>1, <2>3 DEF PathInv, TypeOK
  <2>7. OwnerInv'
    BY <1>0, <2>1, <2>3, <2>4 DEF PathInv, OwnerInv
  <2> QED
    BY <2>5, <2>6, <2>7 DEF ClientInv
<1>3. CASE StartEnqueue
  <2>1. radio.at = "enqueue" /\ radio.key \in Keys /\ EnqueueBegin(radio.key)
        /\ acked' = acked
    BY <1>3 DEF StartEnqueue, PathInv, OwnerInv
  <2>2. /\ SamePhase /\ Untouched /\ op.at = "idle"
        /\ op'.at \in {"write", "return"} /\ UNCHANGED <<recent, recentFile>>
        /\ op'.at = "write" => op'.key = radio.key
        /\ op'.at = "return" => ~op'.ok
    BY <1>0, <2>1, OtherEffects
  <2>3. /\ radio'.at = "storing" /\ radio'.key = radio.key
        /\ radio' \in [at : RadioSteps, key : Keys \cup {NoKey}]
    BY <1>0, <1>3 DEF StartEnqueue, RadioSteps
  <2>4. BatchInv' /\ TodoInv' /\ RingHoldsOnlyTerminal'
    BY <1>a, <2>2 DEF IndexEffect
  <2>5. TypeOK'
    BY <1>0, <2>1, <2>3 DEF PathInv, TypeOK
  <2>6. OwnerInv'
    BY <1>0, <2>1, <2>2, <2>3 DEF PathInv, OwnerInv
  <2> QED
    BY <2>4, <2>5, <2>6 DEF ClientInv
<1>4. CASE EnqueueUnavailable \/ TransmitAck
  <2>1. /\ op' = op /\ UNCHANGED qvars
        /\ radio.at \in {"enqueue", "ack"} /\ radio' = Listening
    BY <1>4, StutterEffect DEF EnqueueUnavailable, TransmitAck
  <2>2. acked' \subseteq Keys
    BY <1>4 DEF EnqueueUnavailable, TransmitAck, PathInv, TypeOK, OwnerInv
  <2>3. /\ radio'.at = "listen"
        /\ radio' \in [at : RadioSteps, key : Keys \cup {NoKey}]
    BY <2>1 DEF Listening, RadioSteps
  <2>4. BatchInv' /\ TodoInv' /\ RingHoldsOnlyTerminal'
    BY <1>a, <2>1, StutterEffect
  <2>5. TypeOK'
    BY <1>0, <2>2, <2>3 DEF PathInv, TypeOK
  <2>6. OwnerInv'
    BY <1>0, <2>1, <2>3 DEF PathInv, OwnerInv
  <2> QED
    BY <2>4, <2>5, <2>6 DEF ClientInv
<1>5. CASE EnqueueReturns
  <2>1. /\ radio.at = "storing" /\ acked' = acked /\ op.at = "return"
        /\ SamePhase /\ Untouched /\ op'.at = "idle"
        /\ UNCHANGED <<recent, recentFile>>
    BY <1>0, <1>5, OtherEffects DEF EnqueueReturns
  <2>2. /\ radio'.at \in {"ack", "listen"}
        /\ radio'.at = "ack" => radio'.key = radio.key
        /\ radio' \in [at : RadioSteps, key : Keys \cup {NoKey}]
    BY <1>0, <1>5 DEF EnqueueReturns, RadioSteps, Listening
  <2>3. BatchInv' /\ TodoInv' /\ RingHoldsOnlyTerminal'
    BY <1>a, <2>1 DEF IndexEffect
  <2>4. TypeOK'
    BY <1>0, <2>1, <2>2 DEF PathInv, TypeOK
  <2>5. OwnerInv'
    BY <1>0, <2>1, <2>2 DEF PathInv, OwnerInv
  <2> QED
    BY <2>3, <2>4, <2>5 DEF ClientInv
<1> QED
  BY <1>1, <1>2, <1>3, <1>4, <1>5 DEF RadioStep

\* The steps of the worker, and of the Backend.
LEMMA WorkerTaskInv ==
  ASSUME PathInv, QInv',
         \/ PeekBatch \/ RequestFails \/ FinishReturns
         \/ \E answered \in SUBSET DOMAIN worker.batch : HandleResponse(answered)
         \/ \E i \in DOMAIN worker.batch : BackendDecides(i)
  PROVE  ClientInv'
<1> USE DEF Healthy, BootSteps, EnqueueSteps, FinishSteps
<1>0. /\ worker \in [at : {"idle", "request", "finishing"}, batch : Seq(Action)]
      /\ UNCHANGED <<radio, acked>> /\ terminal \subseteq terminal'
      /\ QTypeOK' /\ QInv
  BY DEF PathInv, TypeOK, QInv, PeekBatch, RequestFails, FinishReturns,
         HandleResponse, BackendDecides
<1>a. ASSUME UNCHANGED <<recent, recentFile>> PROVE RingHoldsOnlyTerminal'
  BY <1>0, <1>a DEF PathInv, RingHoldsOnlyTerminal
<1>b. ASSUME worker' = WorkerIdle
      PROVE  /\ worker'.at = "idle"
             /\ worker' \in [at : {"idle", "request", "finishing"}, batch : Seq(Action)]
  BY <1>b DEF WorkerIdle
<1>1. CASE PeekBatch
  <2>1. /\ UNCHANGED qvars /\ op' = op /\ Untouched /\ IndexEffect
        /\ UNCHANGED <<recent, recentFile, terminal>>
        /\ worker.at = "idle" /\ op.at = "idle" /\ PeekReadable(BatchSize)
        /\ worker' = [at |-> "request", batch |-> PeekRecords(BatchSize)]
    BY <1>1, StutterEffect DEF PeekBatch
  <2>2. /\ PeekRecords(BatchSize) \in Seq(Action)
        /\ \A i \in DOMAIN PeekRecords(BatchSize) : Within(PeekRecords(BatchSize)[i])
    BY <1>0, <2>1, PeekedBatch, BatchAssumption
  <2>3. /\ worker'.at = "request" /\ worker'.batch = PeekRecords(BatchSize)
        /\ worker' \in [at : {"idle", "request", "finishing"}, batch : Seq(Action)]
    BY <2>1, <2>2
  <2>4. ASSUME NEW a \in Batch' PROVE Within(a)'
    <3>1. Within(a)
      BY <2>2, <2>3 DEF Batch
    <3> QED
      BY <1>0, <2>1, <3>1, WithinKept
  <2>5. BatchInv'
    BY <2>4 DEF BatchInv, FinishContract, Within, Ids
  <2>6. TodoInv'
    BY <2>1 DEF TodoInv
  <2>7. TypeOK'
    BY <1>0, <2>1, <2>3 DEF PathInv, TypeOK
  <2>8. OwnerInv'
    BY <1>0, <2>1, <2>3 DEF PathInv, OwnerInv
  <2> QED
    BY <1>a, <2>1, <2>5, <2>6, <2>7, <2>8 DEF ClientInv
<1>2. CASE RequestFails
  <2>1. /\ op' = op /\ Untouched /\ IndexEffect
        /\ UNCHANGED <<recent, recentFile, terminal>>
        /\ worker.at = "request" /\ worker' = WorkerIdle
    BY <1>2, StutterEffect DEF RequestFails
  <2>2. BatchInv'
    BY <1>b, <2>1 DEF BatchInv
  <2>3. TodoInv'
    BY <1>0, <2>1, TodoKept DEF PathInv
  <2>4. TypeOK'
    BY <1>0, <1>b, <2>1 DEF PathInv, TypeOK
  <2>5. OwnerInv'
    BY <1>0, <1>b, <2>1 DEF PathInv, OwnerInv
  <2> QED
    BY <1>a, <2>1, <2>2, <2>3, <2>4, <2>5 DEF ClientInv
<1>3. CASE FinishReturns
  <2>1. /\ worker.at = "finishing" /\ worker' = WorkerIdle /\ terminal' = terminal
        /\ op.at = "return" /\ op'.at = "idle"
        /\ UNCHANGED <<recent, recentFile>>
    BY <1>0, <1>3, OtherEffects DEF FinishReturns
  <2>2. BatchInv' /\ TodoInv'
    BY <1>b, <2>1 DEF BatchInv, TodoInv
  <2>3. TypeOK'
    BY <1>0, <1>b, <2>1 DEF PathInv, TypeOK
  <2>4. OwnerInv'
    BY <1>0, <1>b, <2>1 DEF PathInv, OwnerInv
  <2> QED
    BY <1>a, <2>1, <2>2, <2>3, <2>4 DEF ClientInv
<1>4. ASSUME NEW answered \in SUBSET DOMAIN worker.batch, HandleResponse(answered)
      PROVE  ClientInv'
  <2>1. /\ worker.at = "request" /\ terminal' = terminal
        /\ \A i \in answered : worker.batch[i].key \in terminal
        /\ FinishBegin({worker.batch[i] : i \in answered})
    BY <1>4 DEF HandleResponse
  <2>2. /\ op.at = "idle" /\ op'.at = "remove" /\ Untouched
        /\ op'.todo = {worker.batch[i] : i \in answered}
        /\ UNCHANGED <<recent, recentFile>>
    BY <1>0, <2>1, OtherEffects
  <2>3. /\ worker'.at = "finishing"
        /\ worker' \in [at : {"idle", "request", "finishing"}, batch : Seq(Action)]
    BY <1>0, <1>4 DEF HandleResponse
  <2>4. ASSUME NEW a \in op'.todo PROVE Within(a)' /\ a.key \in terminal'
    <3>1. a \in Batch /\ a.key \in terminal
      BY <2>1, <2>2 DEF Batch
    <3>2. Within(a)
      BY <2>1, <3>1, BatchActions
    <3> QED
      BY <1>0, <2>1, <2>2, <3>1, <3>2, WithinKept DEF IndexEffect
  <2>5. TodoInv'
    BY <2>4 DEF TodoInv, FinishContract, Within, Ids
  <2>6. BatchInv'
    BY <2>3 DEF BatchInv
  <2>7. TypeOK'
    BY <1>0, <2>1, <2>3 DEF PathInv, TypeOK
  <2>8. OwnerInv'
    BY <1>0, <2>1, <2>2, <2>3 DEF PathInv, OwnerInv
  <2> QED
    BY <1>a, <2>2, <2>5, <2>6, <2>7, <2>8 DEF ClientInv
<1>5. ASSUME NEW i \in DOMAIN worker.batch, BackendDecides(i)
      PROVE  ClientInv'
  <2>1. /\ op' = op /\ Untouched /\ IndexEffect
        /\ UNCHANGED <<recent, recentFile, worker>>
    BY <1>5, StutterEffect DEF BackendDecides
  <2>2. terminal' \subseteq Keys
    <3>1. worker.batch[i] \in Action
      BY <1>0
    <3> QED
      BY <1>5, <3>1 DEF BackendDecides, Action, PathInv, TypeOK
  <2>3. BatchInv' /\ TodoInv'
    BY <1>0, <2>1, BatchKept, TodoKept DEF PathInv
  <2>4. TypeOK'
    BY <1>0, <2>1, <2>2 DEF PathInv, TypeOK
  <2>5. OwnerInv'
    BY <1>0, <2>1 DEF PathInv, OwnerInv
  <2> QED
    BY <1>a, <2>1, <2>3, <2>4, <2>5 DEF ClientInv
<1> QED
  BY <1>1, <1>2, <1>3, <1>4, <1>5

\* The steps of the queue, of the power and of the flash.
LEMMA QueueTaskInv ==
  ASSUME PathInv, QInv', QueueStep \/ Checkpoint \/ Restart \/ Decay
  PROVE  ClientInv'
<1> USE DEF Healthy, BootSteps, EnqueueSteps, FinishSteps
<1>0. /\ QTypeOK' /\ QInv /\ UNCHANGED <<acked, terminal>>
  BY DEF PathInv, QInv, QueueStep, Checkpoint, Restart, Decay, pathVars
<1>a. ASSUME UNCHANGED pathVars PROVE TypeOK' /\ UNCHANGED <<radio, worker>>
  BY <1>0, <1>a DEF PathInv, TypeOK, pathVars
<1>1. CASE EnqueueStep /\ UNCHANGED pathVars
  <2>1. /\ IndexEffect
        /\ op.at \in EnqueueSteps /\ op'.at \in EnqueueSteps \cup {"return"}
        /\ op'.key = op.key
    BY <1>0, <1>1, EnqueueEffects
  <2>2. UNCHANGED <<recent, recentFile>>
    BY <1>1 DEF EnqueueStep, WriteTemp, RenameTemp, EvictForSpace, Evict,
                Withdraw, EnqueueCheckpoint, ramVars
  <2>3. BatchInv' /\ TodoInv'
    BY <1>0, <1>1, <1>a, <2>1, BatchKept, TodoKept DEF PathInv
  <2>4. OwnerInv'
    BY <1>1, <1>a, <2>1 DEF PathInv, OwnerInv
  <2> QED
    BY <1>0, <1>1, <1>a, <2>2, <2>3, <2>4 DEF ClientInv, PathInv, RingHoldsOnlyTerminal
<1>2. CASE FinishStep /\ UNCHANGED pathVars
  <2>1. /\ IndexEffect
        /\ op.at \in FinishSteps /\ op'.at \in FinishSteps \cup {"return"}
        /\ op'.at = "remove" => op.at = "remove" /\ op'.todo \subseteq op.todo
        /\ \A i \in DOMAIN recent' :
             \/ \E j \in DOMAIN recent : recent'[i] = recent[j]
             \/ op.at = "remove" /\ \E a \in op.todo : recent'[i] = a.key
        /\ recentFile' \in {recentFile, recent}
    BY <1>0, <1>2, FinishEffects
  <2>2. RingHoldsOnlyTerminal'
    BY <1>0, <2>1 DEF PathInv, TodoInv, RingHoldsOnlyTerminal
  <2>3. BatchInv' /\ TodoInv'
    BY <1>0, <1>2, <1>a, <2>1, BatchKept, TodoKept DEF PathInv
  <2>4. OwnerInv'
    BY <1>2, <1>a, <2>1 DEF PathInv, OwnerInv
  <2> QED
    BY <1>2, <1>a, <2>2, <2>3, <2>4 DEF ClientInv
<1>3. CASE BootStep /\ UNCHANGED pathVars
  <2>1. /\ op.at \in {"off"} \cup BootSteps
        /\ op'.at \in {"failed", "idle"} \cup BootSteps
        /\ \A i \in DOMAIN recent' :
              \/ \E j \in DOMAIN recent : recent'[i] = recent[j]
              \/ \E j \in DOMAIN recentFile : recent'[i] = recentFile[j]
        /\ recentFile' \in {recentFile, <<>>}
    BY <1>0, <1>3, BootEffects DEF PathInv
  <2>2. RingHoldsOnlyTerminal'
    BY <1>0, <2>1 DEF PathInv, RingHoldsOnlyTerminal
  <2>3. worker.at = "idle" /\ radio.at \notin {"storing", "ack"}
    BY <2>1 DEF PathInv, TypeOK, OwnerInv
  <2>4. BatchInv' /\ TodoInv'
    BY <1>3, <1>a, <2>1, <2>3 DEF BatchInv, TodoInv
  <2>5. OwnerInv'
    BY <1>3, <1>a, <2>1, <2>3 DEF PathInv, OwnerInv
  <2> QED
    BY <1>3, <1>a, <2>2, <2>4, <2>5 DEF ClientInv
<1>4. CASE Checkpoint \/ Decay
  <2>1. /\ op' = op /\ IndexEffect /\ UNCHANGED <<recent, recentFile>>
        /\ UNCHANGED pathVars
    BY <1>0, <1>4, OtherEffects DEF Checkpoint, Decay, IndexEffect
  <2>2. BatchInv' /\ TodoInv'
    BY <1>0, <1>a, <2>1, BatchKept, TodoKept DEF PathInv
  <2>3. OwnerInv'
    BY <1>a, <2>1 DEF PathInv, OwnerInv
  <2> QED
    BY <1>0, <1>a, <2>1, <2>2, <2>3 DEF ClientInv, PathInv, RingHoldsOnlyTerminal
<1>5. CASE Restart
  <2>1. /\ op'.at = "off" /\ recent' = <<>> /\ recentFile' = recentFile
        /\ radio' = Listening /\ worker' = WorkerIdle
    BY <1>0, <1>5, OtherEffects DEF Restart
  <2>2. TypeOK'
    BY <1>0, <2>1 DEF PathInv, TypeOK, Listening, WorkerIdle, RadioSteps
  <2>3. OwnerInv' /\ BatchInv' /\ TodoInv'
    BY <2>1 DEF OwnerInv, BatchInv, TodoInv, Listening, WorkerIdle
  <2>4. RingHoldsOnlyTerminal'
    BY <1>0, <2>1 DEF PathInv, RingHoldsOnlyTerminal
  <2> QED
    BY <2>2, <2>3, <2>4 DEF ClientInv
<1> QED
  BY <1>1, <1>2, <1>3, <1>4, <1>5 DEF QueueStep

\* The invariant of the composition is inductive.
LEMMA PathInvStep ==
  ASSUME PathInv, [Next]_vars
  PROVE  PathInv'
<1>1. [QNext]_qvars
  BY NextIsQueueStep
<1>2. QInv' /\ FreshInv'
  BY <1>1, QInvStep, FreshStep DEF PathInv
<1>3. CASE Next
  <2>1. ClientInv'
    BY <1>2, <1>3, RadioTaskInv, WorkerTaskInv, QueueTaskInv DEF Next
  <2> QED
    BY <1>2, <2>1 DEF PathInv, ClientInv
<1>4. CASE UNCHANGED vars
  <2>1. /\ op' = op /\ IndexEffect /\ UNCHANGED <<recent, recentFile>>
        /\ UNCHANGED <<radio, worker, acked, terminal>>
    BY <1>4, StutterEffect DEF vars, pathVars
  <2>2. BatchInv' /\ TodoInv'
    BY <2>1, BatchKept, TodoKept DEF PathInv
  <2>3. TypeOK' /\ RingHoldsOnlyTerminal'
    BY <1>2, <2>1 DEF PathInv, TypeOK, QInv, RingHoldsOnlyTerminal
  <2>4. OwnerInv'
    BY <2>1 DEF PathInv, OwnerInv, Healthy
  <2> QED
    BY <1>2, <2>2, <2>3, <2>4 DEF PathInv
<1> QED
  BY <1>3, <1>4

(***************************************************************************)
(* The invariant of the composition: the types, the index, who waits for   *)
(* the queue, and that what the worker holds and what finish() has left to *)
(* do stay within the contract across everything the radio task does.      *)
(***************************************************************************)
THEOREM PathInvInvariant == Spec => []PathInv
<1>1. Init => PathInv
  BY PathInvInit
<1>2. PathInv /\ [Next]_vars => PathInv'
  BY PathInvStep
<1> QED
  BY <1>1, <1>2, PTL DEF Spec

\* Type correctness of the two tasks and the queue together.
THEOREM TypeCorrect == Spec => []TypeOK
<1>1. PathInv => TypeOK
  BY DEF PathInv
<1> QED
  BY <1>1, PathInvInvariant, PTL

(***************************************************************************)
(* The recent ring, in RAM and on flash, holds only keys that the Backend  *)
(* has settled: for every number of keys and every interleaving of a       *)
(* response with enqueues, drops, faults and restarts.                     *)
(***************************************************************************)
THEOREM RingAlwaysTerminal == Spec => []RingHoldsOnlyTerminal
<1>1. PathInv => RingHoldsOnlyTerminal
  BY DEF PathInv
<1> QED
  BY <1>1, PathInvInvariant, PTL

(***************************************************************************)
(* The radio task and the worker use the queue within its contract: the    *)
(* composition implements the queue with some client, and everything       *)
(* proved of QSpec holds of it.                                            *)
(***************************************************************************)
THEOREM UsesQueueByContract == Spec => QueueUsedByContract
<1>1. Init => QInit
  BY DEF Init
<1>2. PathInv /\ [Next]_vars => [QNext]_qvars
  BY NextIsQueueStep
<1> QED
  BY <1>1, <1>2, PathInvInvariant, PTL DEF Spec, QSpec, QueueUsedByContract

\* In the composition the index agrees with the files and drops are counted.
THEOREM QueueCorrectInPath == Spec => [](IndexMatchesFlash /\ DropsCounted)
  BY UsesQueueByContract, IndexAlwaysMatchesFlash, DropsAlwaysCounted, PTL
     DEF QueueUsedByContract

-----------------------------------------------------------------------------
(* Custody: the keys the Gateway answers for. *)

\* What is within reach is a record, and nothing waits under the next id.
LEMMA ReachIds ==
  ASSUME QInv
  PROVE  /\ Reach \subseteq RecordIds
         /\ op.at \notin {"off", "failed", "scan"} => Reach = Ids
         /\ nextRecordId \notin Ids
<1>1. op.scan \subseteq RecordIds
  BY DEF QInv, QTypeOK, OpRecord
<1> QED
  BY <1>1, ListedIds DEF Reach, Ids

\* A key in reach is still in reach after a step of the queue, or it has been
\* given up or settled.
LEMMA RecordKept ==
  ASSUME PathInv, QueueEffect, NEW k \in Keys, NEW i \in Reach, flash[i] = k
  PROVE  \/ k \in terminal \cup discarded'
         \/ \E j \in Reach' : flash'[j] = k
<1>0. /\ QInv /\ i \in RecordIds /\ flash \in [RecordIds -> Content]
      /\ NoFile \notin Keys /\ Damaged \notin Keys
  BY ReachIds, QueueAssumption DEF PathInv, QInv, QTypeOK
<1>1. CASE SamePhase /\ IndexEffect
  <2>0. ASSUME i \in Ids => i \in Ids' PROVE i \in Reach'
    BY <1>1, <2>0 DEF SamePhase, Reach, Ids
  <2>a. op.at \notin {"off", "failed", "scan"} => i \in Ids /\ i # nextRecordId
    BY <1>0, ReachIds
  <2>1. CASE Untouched
    BY <2>0, <2>1 DEF Untouched
  <2>2. CASE Committed
    <3>1. flash'[i] = k
      BY <1>0, <2>a, <2>2 DEF Committed
    <3>2. Ids' = Ids \cup {nextRecordId}
      BY <2>2 DEF Committed
    <3> QED
      BY <2>0, <3>1, <3>2
  <2>3. CASE Overwritten
    <3>1. flash'[i] = k
      BY <1>0, <2>a, <2>3 DEF Overwritten
    <3> QED
      BY <2>0, <2>3, <3>1 DEF Overwritten
  <2>4. CASE TakenBack
    <3>1. flash'[i] = k
      BY <1>0, <2>a, <2>4 DEF TakenBack
    <3> QED
      BY <2>0, <2>4, <3>1 DEF TakenBack
  <2>5. ASSUME NEW id \in RecordIds, Dropped(id)
        PROVE  k \in discarded' \/ (i \in Reach' /\ flash'[i] = k)
    BY <1>0, <2>0, <2>5 DEF Dropped
  <2>6. ASSUME NEW id \in RecordIds, Exchanged(id)
        PROVE  k \in discarded' \/ \E j \in Reach' : flash'[j] = k
    <3>1. /\ op.at = "evict" /\ id \in Ids /\ nextRecordId \in RecordIds
          /\ flash' = [flash EXCEPT ![id] = NoFile]
          /\ Ids' = (Ids \ {id}) \cup {nextRecordId}
          /\ discarded' = (discarded \cup {flash[id]}) \ {flash[nextRecordId]}
      BY <2>6 DEF Exchanged
    <3>2. Reach' = Ids' /\ id # nextRecordId
      BY <1>0, <1>1, <3>1, ReachIds DEF SamePhase, Reach, Ids
    <3>3. flash'[nextRecordId] = flash[nextRecordId] /\ nextRecordId \in Reach'
      BY <1>0, <3>1, <3>2
    <3>4. CASE i = id
      BY <3>1, <3>3, <3>4
    <3>5. CASE i # id
      BY <1>0, <2>0, <3>1, <3>5
    <3> QED
      BY <3>4, <3>5
  <2>7. ASSUME NEW id \in RecordIds, Decayed(id)
        PROVE  k \in discarded' \/ (i \in Reach' /\ flash'[i] = k)
    BY <1>0, <2>0, <2>7 DEF Decayed
  <2>8. ASSUME NEW a \in op.todo, Removed(a)
        PROVE  k \in terminal \/ (i \in Reach' /\ flash'[i] = k)
    <3>1. /\ op.at = "remove" /\ a.id \in Ids
          /\ flash' = [flash EXCEPT ![a.id] = NoFile] /\ Ids' = Ids \ {a.id}
      BY <2>8 DEF Removed
    <3>2. flash[a.id] \in {a.key, Damaged} /\ a.key \in terminal
      BY <3>1 DEF PathInv, TodoInv, FinishContract, Ids
    <3>3. CASE i = a.id
      BY <1>0, <3>2, <3>3
    <3>4. CASE i # a.id
      BY <1>0, <2>0, <3>1, <3>4
    <3> QED
      BY <3>3, <3>4
  <2> QED
    BY <1>1, <2>1, <2>2, <2>3, <2>4, <2>5, <2>6, <2>7, <2>8 DEF IndexEffect
<1>2. CASE QueueGone
  BY <1>0, <1>2 DEF QueueGone, Reach
<1>3. CASE Rescanned
  <2>1. i \in op'.scan /\ op'.at = "scan" /\ flash' = flash
    BY <1>0, <1>3 DEF Rescanned
  <2> QED
    BY <2>1 DEF Reach
<1>4. CASE Sorted
  <2>1. i \in Ids' /\ op'.at = "trim" /\ flash' = flash
    BY <1>4 DEF Sorted, Reach, Ids
  <2> QED
    BY <2>1 DEF Reach, Ids
<1>5. ASSUME NEW id \in RecordIds, Found(id)
      PROVE  i \in Reach' /\ flash'[i] = k
  BY <1>5 DEF Found, Reach, Ids
<1>6. ASSUME NEW id \in RecordIds, Abandoned(id)
      PROVE  k \in discarded' \/ (i \in Reach' /\ flash'[i] = k)
  <2>1. CASE i = id
    BY <1>6, <2>1 DEF Abandoned
  <2>2. CASE i # id
    <3>1. i \in Reach'
      BY <1>6, <2>2 DEF Abandoned, Reach, Ids
    <3>2. flash'[i] = k
      BY <1>0, <1>6, <2>2 DEF Abandoned
    <3> QED
      BY <3>1, <3>2
  <2> QED
    BY <2>1, <2>2
<1> QED
  BY <1>1, <1>2, <1>3, <1>4, <1>5, <1>6 DEF QueueEffect

\* A key that was given up stays so until it is stored or found again.
LEMMA DiscardedKept ==
  ASSUME PathInv, QueueEffect, NEW k \in discarded
  PROVE  k \in discarded' \/ \E j \in Reach' : flash'[j] = k
<1>0. QInv /\ flash \in [RecordIds -> Content]
  BY DEF PathInv, QInv, QTypeOK
<1>1. CASE SamePhase /\ Committed
  <2>1. Reach' = Ids' /\ nextRecordId \in Ids' /\ flash'[nextRecordId] = op.key
    BY <1>0, <1>1 DEF SamePhase, Committed, Reach, Ids
  <2> QED
    BY <1>1, <2>1 DEF Committed
<1>2. ASSUME NEW id \in RecordIds, SamePhase, Exchanged(id)
      PROVE  k \in discarded' \/ \E j \in Reach' : flash'[j] = k
  <2>1. Reach' = Ids' /\ nextRecordId \in Ids' /\ id # nextRecordId
    BY <1>0, <1>2, ReachIds DEF SamePhase, Exchanged, Reach, Ids
  <2>2. flash'[nextRecordId] = flash[nextRecordId]
    BY <1>0, <1>2, <2>1 DEF Exchanged
  <2> QED
    BY <1>2, <2>1, <2>2 DEF Exchanged
<1>3. ASSUME NEW id \in RecordIds, Found(id)
      PROVE  k \in discarded' \/ \E j \in Reach' : flash'[j] = k
  BY <1>3 DEF Found, Reach, Ids
<1> QED
  BY <1>1, <1>2, <1>3
     DEF QueueEffect, IndexEffect, Untouched, Overwritten, TakenBack, Dropped,
         Decayed, Removed, QueueGone, Rescanned, Sorted, Abandoned

\* So whatever the queue does, the Gateway keeps answering for a key.
LEMMA AnsweredKept ==
  ASSUME PathInv, QueueEffect, terminal \subseteq terminal',
         NEW k \in Keys, k \in Answered
  PROVE  k \in Answered'
<1>1. CASE k \in terminal
  BY <1>1 DEF Answered
<1>2. CASE k \in discarded
  BY <1>2, DiscardedKept DEF Answered
<1>3. ASSUME NEW i \in Reach, flash[i] = k PROVE k \in Answered'
  BY <1>3, RecordKept DEF Answered
<1> QED
  BY <1>1, <1>2, <1>3 DEF Answered

\* What an enqueue wrote is on flash, or is known to have decayed, when the
\* index makes room for it.
LEMMA EvictedKnown ==
  ASSUME PathInv, CustodyInv, [QNext]_qvars
  PROVE  (op.at = "evict" => op.key \in discarded \cup {flash[nextRecordId]})'
<1> SUFFICES ASSUME op'.at = "evict"
             PROVE  op'.key \in discarded' \cup {flash'[nextRecordId']}
  OBVIOUS
<1>0. /\ QInv /\ FreshInv /\ op \in OpRecord /\ op.dropped \in BOOLEAN
      /\ flash \in [RecordIds -> Content]
  BY DEF PathInv, QInv, QTypeOK, OpRecord
<1>1. CASE EnqueueStep
  <2>1. CASE RenameTemp
    <3>1. op.at = "rename" /\ temp = op.key /\ nextRecordId \in RecordIds
      BY <1>0, <2>1, QueueAssumption DEF RenameTemp, QInv, QTypeOK, OpInv, RecordIds
    <3>2. op' \notin {EnqueueDone(TRUE, op.dropped), WriteFailed}
      BY <1>0, EnqueueDoneType, WriteFailedType
    <3>3. /\ flash' = [flash EXCEPT ![nextRecordId] = temp]
          /\ op' = [op EXCEPT !.at = "evict"]
          /\ UNCHANGED nextRecordId
      BY <2>1, <3>2 DEF RenameTemp
    <3>4. op'.key = op.key
      BY <1>0, <3>3, AtType, OpStepNames
    <3> QED
      BY <1>0, <3>1, <3>3, <3>4
  <2>2. CASE ~RenameTemp
    <3>1. WriteTemp => op'.at # "evict"
      BY <1>0, WriteFailedType, AtType, OpStepNames DEF WriteTemp
    <3>2. EvictForSpace => op'.at # "evict"
      BY <1>0, EnqueueDoneType DEF EvictForSpace, OpRecord
    <3>3. Evict => op'.at # "evict"
      BY <1>0, EnqueueDoneType, AtType, OpStepNames DEF Evict
    <3>4. Withdraw => op'.at # "evict"
      BY <1>0, EnqueueDoneType DEF Withdraw
    <3>5. EnqueueCheckpoint => op'.at # "evict"
      BY <1>0, AtType, OpStepNames DEF EnqueueCheckpoint
    <3> QED
      BY <1>1, <2>2, <3>1, <3>2, <3>3, <3>4, <3>5 DEF EnqueueStep
  <2> QED
    BY <2>1, <2>2
<1>2. ASSUME NEW id \in RecordIds, MediaDecay(id)
      PROVE  op'.key \in discarded' \cup {flash'[nextRecordId']}
  <2>1. /\ op' = op /\ nextRecordId' = nextRecordId
        /\ flash' = [flash EXCEPT ![id] = Damaged]
        /\ discarded' = discarded \cup {flash[id]}
    BY <1>2 DEF MediaDecay, ramVars
  <2> QED
    BY <1>0, <2>1 DEF CustodyInv
<1>3. CASE FinishStep
  BY <1>0, <1>3, FinishEffects DEF FinishSteps
<1>4. CASE BootStep
  BY <1>0, <1>4, BootEffects DEF BootSteps
<1>5. ASSUME NEW k \in Keys, EnqueueBegin(k) PROVE FALSE
  BY <1>0, <1>5, OtherEffects
<1>6. ASSUME NEW actions, FinishBegin(actions) PROVE FALSE
  BY <1>0, <1>6, OtherEffects
<1>7. Return => FALSE
  BY <1>0, OtherEffects
<1>8. PowerLoss => FALSE
  BY <1>0, OtherEffects
<1>9. ASSUME UNCHANGED <<op, flash, discarded, nextRecordId>>
      PROVE  op'.key \in discarded' \cup {flash'[nextRecordId']}
  BY <1>9 DEF CustodyInv
<1>10. ASSUME NEW k, NEW found, Lookup(k, found)
       PROVE  op'.key \in discarded' \cup {flash'[nextRecordId']}
  BY <1>9, <1>10 DEF Lookup, flashVars, ramVars, ghostVars
<1>11. CASE CheckpointCounters
  BY <1>9, <1>11 DEF CheckpointCounters, ramVars, ghostVars
<1>12. CASE UNCHANGED qvars
  BY <1>9, <1>12 DEF qvars, flashVars, ramVars, ghostVars
<1> QED
  BY <1>1, <1>2, <1>3, <1>4, <1>5, <1>6, <1>7, <1>8, <1>10, <1>11, <1>12 DEF QNext

\* The Gateway answers for the keys listed in a queue that is up.
LEMMA ListedAnswered ==
  ASSUME QInv, Healthy, NEW i \in Ids
  PROVE  flash[i] \in Answered
  BY ReachIds DEF Healthy, BootSteps, Answered

\* A successful enqueue ends with the key within reach, or known to be lost.
LEMMA StoredAnswered ==
  ASSUME PathInv, CustodyInv, EnqueueStep, UNCHANGED pathVars,
         op'.at \in {"checkpoint", "return"}, op'.ok
  PROVE  radio.key \in Answered'
<1>0. /\ QInv /\ flash \in [RecordIds -> Content] /\ op'.at \in {"checkpoint", "return"}
  BY DEF PathInv, QInv, QTypeOK
<1>1. /\ op.at \in EnqueueSteps
      /\ \/ Committed
         \/ \E id \in RecordIds : Exchanged(id)
         \/ op.at = "checkpoint" /\ op.ok
      /\ SamePhase /\ IndexEffect
  BY <1>0, EnqueueEffects
<1>2. /\ radio.at = "storing" /\ op.key = radio.key /\ radio.key \in Keys
      /\ terminal' = terminal
  BY <1>1 DEF PathInv, OwnerInv, pathVars, EnqueueSteps
<1>3. Reach' = Ids'
  BY <1>0 DEF Reach, Ids
<1>4. CASE Committed
  BY <1>0, <1>2, <1>3, <1>4 DEF Committed, Answered
<1>5. ASSUME NEW id \in RecordIds, Exchanged(id) PROVE radio.key \in Answered'
  <2>1. /\ op.at = "evict" /\ nextRecordId \in RecordIds /\ id # nextRecordId
        /\ flash' = [flash EXCEPT ![id] = NoFile]
        /\ nextRecordId \in Ids'
        /\ discarded' = (discarded \cup {flash[id]}) \ {flash[nextRecordId]}
    BY <1>0, <1>5, ReachIds DEF Exchanged
  <2>2. flash'[nextRecordId] = flash[nextRecordId]
    BY <1>0, <2>1
  <2>3. op.key \in discarded \cup {flash[nextRecordId]}
    BY <2>1 DEF CustodyInv
  <2> QED
    BY <1>2, <1>3, <2>1, <2>2, <2>3 DEF Answered
<1>6. CASE op.at = "checkpoint" /\ op.ok
  <2>1. radio.key \in Answered
    BY <1>2, <1>6 DEF CustodyInv
  <2> QED
    BY <1>1, <1>2, <2>1, AnsweredKept DEF QueueEffect
<1> QED
  BY <1>1, <1>4, <1>5, <1>6

\* A key found by contains() is settled or listed.
LEMMA FoundAnswered ==
  ASSUME PathInv, NEW k \in Keys, Lookup(k, TRUE)
  PROVE  k \in Answered
<1>1. PICK unreadable \in SUBSET IdsOf(entries) : Healthy /\ ContainsKey(k, unreadable)
  BY DEF Lookup
<1>2. CASE Contains(recent, k)
  <2>1. \E i \in DOMAIN recent : recent[i] = k
    BY <1>2 DEF Contains, PathInv, QInv, QTypeOK
  <2> QED
    BY <2>1 DEF PathInv, RingHoldsOnlyTerminal, Answered
<1>3. ASSUME NEW i \in DOMAIN entries, flash[entries[i].id] = k
      PROVE  k \in Answered
  <2>1. entries[i].id \in Ids
    BY DEF Ids, IdsOf
  <2> QED
    BY <1>1, <1>3, <2>1, ListedAnswered DEF PathInv
<1> QED
  BY <1>1, <1>2, <1>3 DEF ContainsKey

\* Nothing is acknowledged at first power-on.
LEMMA CustodyInvInit == Init => CustodyInv
  BY DEF Init, QInit, CustodyInv, Listening, WorkerIdle, NoOp

\* The keys of a request belong to records that were peeked.
LEMMA PeekAnswered ==
  ASSUME PathInv, PeekBatch, NEW b \in Batch'
  PROVE  b.key \in Answered /\ b.key \in Keys
<1>1. /\ QInv /\ op.at = "idle" /\ PeekReadable(BatchSize)
      /\ worker' = [at |-> "request", batch |-> PeekRecords(BatchSize)]
  BY DEF PathInv, PeekBatch
<1>2. PICK i \in DOMAIN PeekRecords(BatchSize) : b = PeekRecords(BatchSize)[i]
  BY <1>1 DEF Batch
<1>3. b \in Action /\ b.id \in Ids /\ flash[b.id] = b.key
  BY <1>1, <1>2, PeekedBatch, BatchAssumption
<1> QED
  BY <1>1, <1>3, ListedAnswered DEF Healthy, BootSteps, Action

\* The custody invariant is inductive on top of the invariant of the path.
LEMMA CustodyInvStep ==
  ASSUME PathInv, CustodyInv, [Next]_vars
  PROVE  CustodyInv'
<1>1. [QNext]_qvars /\ QueueEffect
  BY NextIsQueueStep, QueueEffects DEF PathInv
<1>2. terminal \subseteq terminal'
  BY DEF Next, RadioStep, ReceiveFrame, CheckDuplicate, StartEnqueue,
         EnqueueUnavailable, EnqueueReturns, TransmitAck, PeekBatch, RequestFails,
         HandleResponse, FinishReturns, BackendDecides, QueueStep, Checkpoint,
         Restart, Decay, pathVars, vars
<1>3. ASSUME NEW k \in Keys, k \in Answered PROVE k \in Answered'
  BY <1>1, <1>2, <1>3, AnsweredKept
<1>4. (op.at = "evict" => op.key \in discarded \cup {flash[nextRecordId]})'
  BY <1>1, EvictedKnown
<1>5. acked' \subseteq Answered'
  <2>1. acked' \subseteq acked \cup (IF radio.at = "ack" THEN {radio.key} ELSE {})
    BY DEF Next, RadioStep, ReceiveFrame, CheckDuplicate, StartEnqueue,
           EnqueueUnavailable, EnqueueReturns, TransmitAck, PeekBatch, RequestFails,
           HandleResponse, FinishReturns, BackendDecides, QueueStep, Checkpoint,
           Restart, Decay, pathVars, vars
  <2>2. acked \subseteq Answered /\ acked \subseteq Keys
    BY DEF CustodyInv, PathInv, TypeOK
  <2>3. radio.at = "ack" => radio.key \in Answered /\ radio.key \in Keys
    BY DEF CustodyInv, PathInv, OwnerInv
  <2> QED
    BY <1>3, <2>1, <2>2, <2>3
<1>6. ASSUME radio'.at = "ack" PROVE radio'.key \in Answered'
  <2>1. CASE CheckDuplicate
    <3>1. radio.key \in Keys /\ radio \in [at : RadioSteps, key : Keys \cup {NoKey}]
      BY <2>1 DEF CheckDuplicate, PathInv, OwnerInv, TypeOK
    <3>2. Lookup(radio.key, TRUE) /\ radio'.key = radio.key
      BY <1>6, <2>1, <3>1 DEF CheckDuplicate
    <3> QED
      BY <1>3, <3>1, <3>2, FoundAnswered
  <2>2. CASE EnqueueReturns
    <3>1. /\ radio.at = "storing" /\ radio.key \in Keys /\ op.at = "return"
          /\ radio \in [at : RadioSteps, key : Keys \cup {NoKey}]
      BY <2>2 DEF EnqueueReturns, Return, PathInv, OwnerInv, TypeOK
    <3>2. op.ok /\ radio'.key = radio.key
      BY <1>6, <2>2, <3>1 DEF EnqueueReturns, Listening
    <3> QED
      BY <1>3, <3>1, <3>2 DEF CustodyInv
  <2>3. CASE radio' = radio
    BY <1>3, <1>6, <2>3 DEF CustodyInv, PathInv, OwnerInv
  <2>4. CASE StartEnqueue
    BY <1>6, <2>4 DEF StartEnqueue, PathInv, TypeOK
  <2>5. (\E k \in Keys : ReceiveFrame(k)) => radio'.at # "ack"
    BY DEF ReceiveFrame
  <2>6. radio' = Listening => radio'.at # "ack"
    BY DEF Listening
  <2> QED
    BY <1>6, <2>1, <2>2, <2>3, <2>4, <2>5, <2>6
       DEF Next, RadioStep, EnqueueUnavailable, TransmitAck, PeekBatch, RequestFails,
           HandleResponse, FinishReturns, BackendDecides, QueueStep, Checkpoint,
           Restart, Decay, pathVars, vars
<1>7. ASSUME radio'.at = "storing", op'.at \in {"checkpoint", "return"}, op'.ok
      PROVE  radio'.key \in Answered'
  <2>1. CASE UNCHANGED radio /\ UNCHANGED op
    BY <1>3, <1>7, <2>1 DEF CustodyInv, PathInv, OwnerInv
  <2>2. CASE EnqueueStep /\ UNCHANGED pathVars
    BY <1>7, <2>2, StoredAnswered DEF pathVars
  <2>3. CASE FinishStep /\ UNCHANGED pathVars
    <3>1. op.at \in FinishSteps
      BY <2>3, FinishEffects DEF PathInv
    <3> QED
      BY <1>7, <2>3, <3>1 DEF PathInv, OwnerInv, pathVars
  <2>4. CASE BootStep /\ UNCHANGED pathVars
    <3>1. op'.at \in {"failed", "idle"} \cup BootSteps
      BY <2>4, BootEffects DEF PathInv
    <3> QED
      BY <1>7, <3>1 DEF BootSteps
  <2>5. CASE StartEnqueue
    <3>1. radio.key \in Keys
      BY <2>5 DEF StartEnqueue, PathInv, OwnerInv
    <3> QED
      BY <1>7, <2>5, <3>1, OtherEffects DEF StartEnqueue, PathInv
  <2>6. Return => op'.at = "idle"
    BY OtherEffects DEF PathInv
  <2>7. \A A : FinishBegin(A) => op'.at = "remove"
    BY OtherEffects DEF PathInv
  <2>8. (\E k \in Keys : ReceiveFrame(k)) => radio'.at # "storing"
    BY DEF ReceiveFrame
  <2>9. radio' = Listening => radio'.at # "storing"
    BY DEF Listening
  <2>10. UNCHANGED qvars => UNCHANGED op
    BY DEF qvars
  <2>11. CheckDuplicate => radio'.at # "storing"
    BY DEF CheckDuplicate, PathInv, TypeOK
  <2>12. CASE Checkpoint \/ Decay
    BY <2>1, <2>12, OtherEffects DEF Checkpoint, Decay, PathInv, pathVars
  <2> QED
    BY <1>7, <2>1, <2>2, <2>3, <2>4, <2>5, <2>6, <2>7, <2>8, <2>9, <2>10, <2>11, <2>12
       DEF Next, RadioStep, EnqueueUnavailable, EnqueueReturns, TransmitAck, PeekBatch,
           RequestFails, HandleResponse, FinishReturns, BackendDecides, QueueStep,
           Restart, pathVars, vars
<1>8. ASSUME worker'.at = "request", NEW b \in Batch' PROVE b.key \in Answered'
  <2>1. CASE PeekBatch
    BY <1>3, <2>1, PeekAnswered
  <2>2. CASE UNCHANGED worker
    <3>1. b \in Batch /\ worker.at = "request"
      BY <1>8, <2>2 DEF Batch
    <3>2. b.key \in Answered /\ b.key \in Keys
      BY <3>1, BatchActions DEF CustodyInv
    <3> QED
      BY <1>3, <3>2
  <2>3. worker' = WorkerIdle => worker'.at # "request"
    BY DEF WorkerIdle
  <2>4. \A A : HandleResponse(A) => worker'.at # "request"
    BY DEF HandleResponse, PathInv, TypeOK
  <2> QED
    BY <1>8, <2>1, <2>2, <2>3, <2>4
       DEF Next, RadioStep, ReceiveFrame, CheckDuplicate, StartEnqueue,
           EnqueueUnavailable, EnqueueReturns, TransmitAck, RequestFails, FinishReturns,
           BackendDecides, QueueStep, Checkpoint, Restart, Decay, pathVars, vars
<1> QED
  BY <1>4, <1>5, <1>6, <1>7, <1>8 DEF CustodyInv

\* Both invariants together, for the theorems below.
LEMMA CustodyInvInvariant == Spec => [](PathInv /\ CustodyInv)
<1>1. Init => CustodyInv
  BY CustodyInvInit
<1>2. PathInv /\ CustodyInv /\ [Next]_vars => CustodyInv'
  BY CustodyInvStep
<1> QED
  BY <1>1, <1>2, PathInvInvariant, PTL DEF Spec

(***************************************************************************)
(* Custody.  A key that was acknowledged and is neither settled nor given  *)
(* up is on flash, and in the index once the queue is up: for every number *)
(* of keys, records, storage faults and power losses, wherever they hit.   *)
(***************************************************************************)
THEOREM AckedNeverLost == Spec => []AckedNotLost
<1>1. ASSUME PathInv, CustodyInv PROVE AckedNotLost
  <2>1. Reach \subseteq RecordIds /\ (Healthy => Reach = Ids)
    BY <1>1, ReachIds DEF PathInv, Healthy, BootSteps
  <2>2. Owed \subseteq {flash[i] : i \in Reach}
    BY <1>1 DEF CustodyInv, Owed, Answered
  <2> QED
    BY <2>1, <2>2 DEF AckedNotLost, StoredKeys, IndexedKeys, Ids
<1> QED
  BY <1>1, CustodyInvInvariant, PTL

\* A key that is owed has a listed record once the queue takes operations.
LEMMA OwedListed ==
  ASSUME PathInv, CustodyInv, op.at \notin {"off", "failed", "scan"}, NEW k \in Owed
  PROVE  \E j \in Ids : flash[j] = k
  BY ReachIds DEF PathInv, CustodyInv, Owed, Answered

(***************************************************************************)
(* The record of a key that is owed goes away only as the oldest of a full *)
(* queue, by decay, by a read that failed during recovery, or because the  *)
(* key has another record; never by an answer to an earlier batch, and     *)
(* never because a failed enqueue left its file under the next id.         *)
(***************************************************************************)
THEOREM OwedRecordAlwaysKept == Spec => OwedRecordKept
<1> DEFINE Kept(i) == flash[i] \in Owed /\ flash'[i] # flash[i] =>
                        \/ \E j \in RecordIds : flash'[j] = flash[i]
                        \/ OldestOfFullQueue(i)
                        \/ flash'[i] = Damaged
                        \/ op.at = "scan" /\ faults' > faults
<1>1. ASSUME PathInv, CustodyInv, [Next]_vars, NEW i \in RecordIds
      PROVE  Kept(i)
  <2> SUFFICES ASSUME flash[i] \in Owed, flash'[i] # flash[i]
               PROVE  \/ \E j \in RecordIds : flash'[j] = flash[i]
                      \/ OldestOfFullQueue(i)
                      \/ flash'[i] = Damaged
                      \/ op.at = "scan" /\ faults' > faults
    OBVIOUS
  <2>0. /\ QInv /\ flash \in [RecordIds -> Content]
        /\ flash[i] \in Keys /\ flash[i] \notin terminal
        /\ Damaged \notin Keys
    BY <1>1, QueueAssumption DEF PathInv, QInv, QTypeOK, Owed, TypeOK
  <2>1. QueueEffect
    BY <1>1, NextIsQueueStep, QueueEffects DEF PathInv
  <2>2. ASSUME op.at \in EnqueueSteps, NEW v,
               flash' = [flash EXCEPT ![nextRecordId] = v]
        PROVE  \E j \in RecordIds : flash'[j] = flash[i]
    <3>1. PICK j \in Ids : flash[j] = flash[i]
      BY <1>1, <2>2, OwedListed DEF EnqueueSteps
    <3>2. j \in RecordIds /\ j # nextRecordId
      BY <2>0, ListedIds
    <3> QED
      BY <2>0, <2>2, <3>1, <3>2
  <2>3. CASE Committed \/ Overwritten \/ TakenBack
    BY <2>2, <2>3 DEF Committed, Overwritten, TakenBack, EnqueueSteps
  <2>4. ASSUME NEW o \in RecordIds, Dropped(o) \/ Exchanged(o)
        PROVE  OldestOfFullQueue(i)
    <3>1. i = o
      BY <2>0, <2>4 DEF Dropped, Exchanged
    <3> QED
      BY <2>4, <3>1 DEF Dropped, Exchanged
  <2>5. ASSUME NEW id \in RecordIds, Decayed(id) PROVE flash'[i] = Damaged
    BY <2>0, <2>5 DEF Decayed
  <2>6. ASSUME NEW a \in op.todo, Removed(a) PROVE FALSE
    <3>1. i = a.id /\ op.at = "remove" /\ a.id \in Ids
      BY <2>0, <2>6 DEF Removed
    <3>2. flash[a.id] \in {a.key, Damaged} /\ a.key \in terminal
      BY <1>1, <3>1 DEF PathInv, TodoInv, FinishContract, Ids
    <3> QED
      BY <2>0, <3>1, <3>2
  <2>7. ASSUME NEW id \in RecordIds, Abandoned(id)
        PROVE  op.at = "scan" /\ faults' > faults
    <3>1. i = id
      BY <2>0, <2>7 DEF Abandoned
    <3> QED
      BY <2>0, <2>7, <3>1 DEF Abandoned
  <2> QED
    BY <2>1, <2>3, <2>4, <2>5, <2>6, <2>7
       DEF QueueEffect, IndexEffect, Untouched, QueueGone, Rescanned, Sorted, Found
<1>2. PathInv /\ CustodyInv /\ [Next]_vars => [\A i \in RecordIds : Kept(i)]_vars
  BY <1>1
<1> QED
  BY <1>2, CustodyInvInvariant, PTL DEF Spec, OwedRecordKept

-----------------------------------------------------------------------------
(***************************************************************************)
(* The refinement of Custody.  Its variables are the following sets; each  *)
(* effect of the queue is one step of the promise on them, or none.        *)
(***************************************************************************)
HeldKeys == (StoredKeys \cap Keys) \ (discarded \cup terminal)
GivenUpKeys == (discarded \cap Keys) \ terminal
Promise == C!CustodyNext \/ UNCHANGED <<HeldKeys, acked, terminal, GivenUpKeys>>

\* Rewriting one file changes one element of what is stored.
LEMMA RewrittenFile ==
  ASSUME flash \in [RecordIds -> Content], NEW i \in RecordIds, NEW v,
         flash' = [flash EXCEPT ![i] = v]
  PROVE  \E others : /\ others = {flash[j] : j \in RecordIds \ {i}}
                     /\ StoredKeys = others \cup {flash[i]}
                     /\ StoredKeys' = others \cup {v}
<1> DEFINE others == {flash[j] : j \in RecordIds \ {i}}
<1>1. StoredKeys = others \cup {flash[i]}
  BY DEF StoredKeys
<1>2. flash'[i] = v /\ \A j \in RecordIds \ {i} : flash'[j] = flash[j]
  OBVIOUS
<1>3. StoredKeys' = others \cup {v}
  BY <1>2 DEF StoredKeys
<1> QED
  BY <1>1, <1>3

\* Neither stored nor given-up keys change.
LEMMA PromiseQuiet ==
  ASSUME UNCHANGED <<flash, acked, terminal, discarded>>
  PROVE  Promise
  BY DEF Promise, HeldKeys, GivenUpKeys, StoredKeys

\* A record is given up: dropped, decayed or unreadable.
LEMMA PromiseGiveUp ==
  ASSUME PathInv, UNCHANGED <<acked, terminal>>, NEW i \in RecordIds,
         flash' = flash \/ \E v : v \notin Keys /\ flash' = [flash EXCEPT ![i] = v],
         discarded' \cap Keys = (discarded \cup {flash[i]}) \cap Keys
  PROVE  Promise
<1>0. flash \in [RecordIds -> Content] /\ flash[i] \in StoredKeys
  BY DEF PathInv, QInv, QTypeOK, StoredKeys
<1>1. StoredKeys' \cap Keys \subseteq StoredKeys
      /\ (StoredKeys \cap Keys) \ {flash[i]} \subseteq StoredKeys'
  <2>1. CASE flash' = flash
    BY <2>1 DEF StoredKeys
  <2>2. ASSUME NEW v, v \notin Keys, flash' = [flash EXCEPT ![i] = v]
        PROVE  /\ StoredKeys' \cap Keys \subseteq StoredKeys
               /\ (StoredKeys \cap Keys) \ {flash[i]} \subseteq StoredKeys'
    <3>1. PICK others : /\ StoredKeys = others \cup {flash[i]}
                        /\ StoredKeys' = others \cup {v}
      BY <1>0, <2>2, RewrittenFile
    <3> QED
      BY <2>2, <3>1
  <2> QED
    BY <2>1, <2>2
<1>2. HeldKeys' = HeldKeys \ {flash[i]}
  BY <1>1 DEF HeldKeys
<1>3. GivenUpKeys' = GivenUpKeys \cup (({flash[i]} \cap Keys) \ terminal)
  BY DEF GivenUpKeys
<1>4. CASE flash[i] \in HeldKeys
  <2>1. C!GiveUp(flash[i]) /\ flash[i] \in Keys
    BY <1>2, <1>3, <1>4 DEF C!GiveUp, HeldKeys, GivenUpKeys
  <2> QED
    BY <2>1 DEF Promise, C!CustodyNext
<1>5. CASE flash[i] \notin HeldKeys
  <2>1. GivenUpKeys' = GivenUpKeys /\ HeldKeys' = HeldKeys
    BY <1>0, <1>2, <1>3, <1>5 DEF GivenUpKeys, HeldKeys
  <2> QED
    BY <2>1 DEF Promise
<1> QED
  BY <1>4, <1>5

\* A file under the next id holds no key that is owed and has no other file.
LEMMA OrphanNotAcked ==
  ASSUME PathInv, CustodyInv, op.at \in EnqueueSteps, nextRecordId \in RecordIds,
         flash[nextRecordId] \in HeldKeys,
         flash[nextRecordId] \notin {flash[j] : j \in RecordIds \ {nextRecordId}}
  PROVE  flash[nextRecordId] \notin acked
<1>1. ASSUME flash[nextRecordId] \in acked PROVE FALSE
  <2>1. flash[nextRecordId] \in Owed
    BY <1>1 DEF Owed, HeldKeys
  <2>2. PICK j \in Ids : flash[j] = flash[nextRecordId]
    BY <2>1, OwedListed DEF EnqueueSteps
  <2>3. j \in RecordIds /\ j # nextRecordId
    BY ListedIds DEF PathInv
  <2> QED
    BY <2>2, <2>3
<1> QED
  BY <1>1

\* A record is written under the next id, over a file that may be there.
LEMMA PromiseWrite ==
  ASSUME PathInv, CustodyInv, UNCHANGED <<acked, terminal>>,
         op.at = "rename", op.key \in Keys, nextRecordId \in RecordIds,
         flash' = [flash EXCEPT ![nextRecordId] = op.key],
         discarded' \in {discarded, discarded \ {op.key}}
  PROVE  Promise
<1> DEFINE k == op.key
           c == flash[nextRecordId]
<1>0. flash \in [RecordIds -> Content] /\ k \in Keys
  BY DEF PathInv, QInv, QTypeOK
<1>1. PICK others : /\ others = {flash[j] : j \in RecordIds \ {nextRecordId}}
                    /\ StoredKeys = others \cup {c}
                    /\ StoredKeys' = others \cup {k}
  BY <1>0, RewrittenFile
<1>2. c \in HeldKeys /\ c \notin others => c \notin acked
  BY <1>1, OrphanNotAcked DEF EnqueueSteps
<1>3. discarded' = discarded \/ discarded' = discarded \ {k}
  OBVIOUS
<1> HIDE DEF k, c
<1>4. CASE k \in discarded' \cup terminal
  <2>1. GivenUpKeys' = GivenUpKeys
    BY <1>3, <1>4 DEF GivenUpKeys
  <2>2. HeldKeys' = HeldKeys \/ (c \in HeldKeys /\ c \notin others /\ HeldKeys' = HeldKeys \ {c})
    BY <1>1, <1>3, <1>4 DEF HeldKeys
  <2>3. ASSUME c \in HeldKeys, c \notin others, HeldKeys' = HeldKeys \ {c}
        PROVE  C!Withdraw(c) /\ c \in Keys
    BY <1>2, <2>1, <2>3 DEF C!Withdraw, HeldKeys, GivenUpKeys
  <2> QED
    BY <2>1, <2>2, <2>3 DEF Promise, C!CustodyNext
<1>5. CASE k \notin discarded' \cup terminal
  <2>1. GivenUpKeys' = GivenUpKeys \ {k}
    BY <1>3, <1>5 DEF GivenUpKeys
  <2>2. CASE c \in HeldKeys /\ c \notin others
    <3>1. HeldKeys' = (HeldKeys \ {c}) \cup {k}
      BY <1>0, <1>1, <1>3, <1>5, <2>2 DEF HeldKeys
    <3>2. C!Replace(c, k) /\ c \in Keys
      BY <1>2, <1>5, <2>1, <2>2, <3>1 DEF C!Replace, HeldKeys, GivenUpKeys
    <3> QED
      BY <1>0, <3>2 DEF Promise, C!CustodyNext
  <2>3. CASE ~(c \in HeldKeys /\ c \notin others)
    <3>1. HeldKeys' = HeldKeys \cup {k}
      BY <1>0, <1>1, <1>3, <1>5, <2>3 DEF HeldKeys
    <3>2. C!Store(k)
      BY <1>5, <2>1, <3>1 DEF C!Store, HeldKeys, GivenUpKeys
    <3> QED
      BY <1>0, <3>2 DEF Promise, C!CustodyNext
  <2> QED
    BY <2>2, <2>3
<1> QED
  BY <1>4, <1>5

\* The record of an enqueue that fails is taken back.
LEMMA PromiseTakeBack ==
  ASSUME PathInv, CustodyInv, UNCHANGED <<acked, terminal>>, TakenBack
  PROVE  Promise
<1> DEFINE c == flash[nextRecordId]
<1>0. /\ flash \in [RecordIds -> Content] /\ nextRecordId \in RecordIds
      /\ NoFile \notin Keys /\ discarded' = discarded /\ op.at = "withdraw"
      /\ flash' = [flash EXCEPT ![nextRecordId] = NoFile]
  BY QueueAssumption DEF PathInv, QInv, QTypeOK, TakenBack
<1>1. PICK others : /\ others = {flash[j] : j \in RecordIds \ {nextRecordId}}
                    /\ StoredKeys = others \cup {c}
                    /\ StoredKeys' = others \cup {NoFile}
  BY <1>0, RewrittenFile
<1>2. c \in HeldKeys /\ c \notin others => c \notin acked
  BY <1>0, <1>1, OrphanNotAcked DEF EnqueueSteps
<1> HIDE DEF c
<1>3. GivenUpKeys' = GivenUpKeys
  BY <1>0 DEF GivenUpKeys
<1>4. HeldKeys' = HeldKeys \/ (c \in HeldKeys /\ c \notin others /\ HeldKeys' = HeldKeys \ {c})
  BY <1>0, <1>1 DEF HeldKeys
<1>5. ASSUME c \in HeldKeys, c \notin others, HeldKeys' = HeldKeys \ {c}
      PROVE  C!Withdraw(c) /\ c \in Keys
  BY <1>2, <1>3, <1>5 DEF C!Withdraw, HeldKeys, GivenUpKeys
<1> QED
  BY <1>3, <1>4, <1>5 DEF Promise, C!CustodyNext

\* A full queue takes the new record for its oldest.
LEMMA PromiseExchange ==
  ASSUME PathInv, UNCHANGED <<acked, terminal>>, NEW o \in RecordIds, Exchanged(o)
  PROVE  Promise
<1> DEFINE k == op.key
           x == flash[o]
           y == flash[nextRecordId]
<1>0. /\ flash \in [RecordIds -> Content] /\ k \in Keys /\ nextRecordId \in RecordIds
      /\ NoFile \notin Keys /\ Damaged \notin Keys
      /\ y \in {k, Damaged} /\ o # nextRecordId
      /\ flash' = [flash EXCEPT ![o] = NoFile]
      /\ discarded' = (discarded \cup {x}) \ {y}
  BY QueueAssumption, ListedIds DEF PathInv, QInv, QTypeOK, Exchanged
<1>1. CASE y = Damaged
  <2>1. discarded' \cap Keys = (discarded \cup {flash[o]}) \cap Keys
    BY <1>0, <1>1
  <2> QED
    BY <1>0, <2>1, PromiseGiveUp
<1>2. CASE y = k
  <2>1. PICK others : /\ others = {flash[j] : j \in RecordIds \ {o}}
                      /\ StoredKeys = others \cup {x}
                      /\ StoredKeys' = others \cup {NoFile}
    BY <1>0, RewrittenFile
  <2>2. k \in others
    BY <1>0, <1>2, <2>1
  <2> HIDE DEF k, x, y
  <2>3. CASE k \in terminal
    <3>1. HeldKeys' = HeldKeys \ {x}
      BY <1>0, <1>2, <2>1, <2>3 DEF HeldKeys
    <3>2. GivenUpKeys' = GivenUpKeys \cup (({x} \cap Keys) \ terminal)
      BY <1>0, <1>2, <2>3 DEF GivenUpKeys
    <3>3. CASE x \in HeldKeys
      <4>1. C!GiveUp(x) /\ x \in Keys
        BY <3>1, <3>2, <3>3 DEF C!GiveUp, HeldKeys, GivenUpKeys
      <4> QED
        BY <4>1 DEF Promise, C!CustodyNext
    <3>4. CASE x \notin HeldKeys
      <4>1. GivenUpKeys' = GivenUpKeys /\ HeldKeys' = HeldKeys
        BY <2>1, <3>1, <3>2, <3>4 DEF GivenUpKeys, HeldKeys
      <4> QED
        BY <4>1 DEF Promise
    <3> QED
      BY <3>3, <3>4
  <2>4. CASE k \notin terminal /\ x \in HeldKeys
    <3>1. HeldKeys' = (HeldKeys \ {x}) \cup {k}
      BY <1>0, <1>2, <2>1, <2>2, <2>4 DEF HeldKeys
    <3>2. GivenUpKeys' = (GivenUpKeys \cup {x}) \ {k}
      BY <1>0, <1>2, <2>4 DEF GivenUpKeys, HeldKeys
    <3>3. C!Exchange(x, k) /\ x \in Keys
      BY <2>4, <3>1, <3>2 DEF C!Exchange, HeldKeys, GivenUpKeys
    <3> QED
      BY <1>0, <3>3 DEF Promise, C!CustodyNext
  <2>5. CASE k \notin terminal /\ x \notin HeldKeys
    <3>1. HeldKeys' = HeldKeys \cup {k}
      BY <1>0, <1>2, <2>1, <2>2, <2>5 DEF HeldKeys
    <3>2. GivenUpKeys' = GivenUpKeys \ {k}
      BY <1>0, <1>2, <2>1, <2>5 DEF GivenUpKeys, HeldKeys
    <3>3. C!Store(k)
      BY <2>5, <3>1, <3>2 DEF C!Store, HeldKeys, GivenUpKeys
    <3> QED
      BY <1>0, <3>3 DEF Promise, C!CustodyNext
  <2> QED
    BY <2>3, <2>4, <2>5
<1> QED
  BY <1>0, <1>1, <1>2

\* A record of a settled key is removed: nothing the promise is about.
LEMMA PromiseRemove ==
  ASSUME PathInv, UNCHANGED <<acked, terminal>>, NEW a \in op.todo, Removed(a)
  PROVE  Promise
<1>0. /\ flash \in [RecordIds -> Content] /\ NoFile \notin Keys /\ Damaged \notin Keys
      /\ a.id \in Ids /\ op.at = "remove" /\ discarded' = discarded
      /\ flash' = [flash EXCEPT ![a.id] = NoFile]
  BY QueueAssumption DEF PathInv, QInv, QTypeOK, Removed
<1>1. /\ flash[a.id] \in {a.key, Damaged} /\ a.key \in terminal /\ a.id \in RecordIds
  BY <1>0, ListedIds DEF PathInv, TodoInv, FinishContract, Ids
<1>2. PICK others : /\ StoredKeys = others \cup {flash[a.id]}
                    /\ StoredKeys' = others \cup {NoFile}
  BY <1>0, <1>1, RewrittenFile
<1>3. HeldKeys' = HeldKeys
  BY <1>0, <1>1, <1>2 DEF HeldKeys
<1>4. GivenUpKeys' = GivenUpKeys
  BY <1>0 DEF GivenUpKeys
<1> QED
  BY <1>3, <1>4 DEF Promise

\* recover() finds a record again.
LEMMA PromiseFound ==
  ASSUME PathInv, UNCHANGED <<acked, terminal>>, NEW id \in RecordIds, Found(id)
  PROVE  Promise
<1> DEFINE k == flash[id]
<1>0. /\ k \in Keys /\ StoredKeys' = StoredKeys /\ k \in StoredKeys
      /\ discarded' = discarded \ {k}
  BY DEF Found, StoredKeys
<1> HIDE DEF k
<1>1. GivenUpKeys' = GivenUpKeys \ {k}
  BY <1>0 DEF GivenUpKeys
<1>2. CASE k \notin terminal
  <2>1. HeldKeys' = HeldKeys \cup {k}
    BY <1>0, <1>2 DEF HeldKeys
  <2>2. C!Store(k)
    BY <1>1, <1>2, <2>1 DEF C!Store, HeldKeys, GivenUpKeys
  <2> QED
    BY <1>0, <2>2 DEF Promise, C!CustodyNext
<1>3. CASE k \in terminal
  <2>1. HeldKeys' = HeldKeys /\ GivenUpKeys' = GivenUpKeys
    BY <1>0, <1>1, <1>3 DEF HeldKeys, GivenUpKeys
  <2> QED
    BY <2>1 DEF Promise
<1> QED
  BY <1>2, <1>3

\* Whatever the queue does is a step of the promise.
LEMMA PromiseQueueEffect ==
  ASSUME PathInv, CustodyInv, QueueEffect, UNCHANGED <<acked, terminal>>
  PROVE  Promise
<1>0. NoFile \notin Keys /\ Damaged \notin Keys
  BY QueueAssumption
<1>1. CASE Untouched \/ QueueGone \/ Rescanned \/ Sorted
  BY <1>1, PromiseQuiet DEF Untouched, QueueGone, Rescanned, Sorted
<1>2. CASE Committed \/ Overwritten
  BY <1>2, PromiseWrite DEF Committed, Overwritten
<1>3. CASE TakenBack
  BY <1>3, PromiseTakeBack
<1>4. ASSUME NEW id \in RecordIds, Dropped(id) \/ Decayed(id) \/ Abandoned(id)
      PROVE  Promise
  <2>1. flash' = flash \/ \E v : v \notin Keys /\ flash' = [flash EXCEPT ![id] = v]
    BY <1>0, <1>4 DEF Dropped, Decayed, Abandoned
  <2>2. discarded' = discarded \cup {flash[id]}
    BY <1>4 DEF Dropped, Decayed, Abandoned
  <2> QED
    BY <2>1, <2>2, PromiseGiveUp
<1>5. ASSUME NEW id \in RecordIds, Exchanged(id) PROVE Promise
  BY <1>5, PromiseExchange
<1>6. ASSUME NEW a \in op.todo, Removed(a) PROVE Promise
  BY <1>6, PromiseRemove
<1>7. ASSUME NEW id \in RecordIds, Found(id) PROVE Promise
  BY <1>7, PromiseFound
<1> QED
  BY <1>1, <1>2, <1>3, <1>4, <1>5, <1>6, <1>7 DEF QueueEffect, IndexEffect

\* A key the Gateway answers for is held, settled or given up.
LEMMA AnsweredForms ==
  ASSUME PathInv, NEW k \in Keys, k \in Answered
  PROVE  k \in HeldKeys \cup terminal \cup GivenUpKeys
<1>1. {flash[i] : i \in Reach} \subseteq StoredKeys
  BY ReachIds DEF PathInv, StoredKeys
<1> QED
  BY <1>1 DEF Answered, HeldKeys, GivenUpKeys

\* Every step of the composition is a step of the promise or none.
LEMMA PromiseStep ==
  ASSUME PathInv, CustodyInv, [Next]_vars
  PROVE  Promise
<1>1. QueueEffect
  BY NextIsQueueStep, QueueEffects DEF PathInv
<1>2. CASE TransmitAck
  <2>1. /\ radio.key \in Keys /\ radio.key \in Answered
        /\ acked' \in {acked, acked \cup {radio.key}}
        /\ UNCHANGED <<flash, discarded, terminal>>
    BY <1>2 DEF TransmitAck, PathInv, OwnerInv, CustodyInv, qvars, flashVars, ghostVars
  <2>2. HeldKeys' = HeldKeys /\ GivenUpKeys' = GivenUpKeys
    BY <2>1 DEF HeldKeys, GivenUpKeys, StoredKeys
  <2>3. CASE acked' = acked
    BY <2>1, <2>2, <2>3 DEF Promise
  <2>4. CASE acked' = acked \cup {radio.key}
    <3>1. C!Acknowledge(radio.key)
      BY <2>1, <2>2, <2>4, AnsweredForms DEF C!Acknowledge, HeldKeys, GivenUpKeys
    <3> QED
      BY <2>1, <3>1 DEF Promise, C!CustodyNext
  <2> QED
    BY <2>1, <2>3, <2>4
<1>3. ASSUME NEW i \in DOMAIN worker.batch, BackendDecides(i) PROVE Promise
  <2> DEFINE k == worker.batch[i].key
  <2>1. /\ worker.at = "request" /\ k \notin terminal
        /\ terminal' = terminal \cup {k} /\ UNCHANGED <<flash, discarded, acked>>
    BY <1>3 DEF BackendDecides, qvars, flashVars, ghostVars
  <2>2. worker.batch[i] \in Batch
    BY DEF Batch
  <2>3. k \in Keys /\ k \in Answered
    BY <2>1, <2>2, BatchActions DEF CustodyInv
  <2>4. k \in HeldKeys \cup GivenUpKeys
    BY <2>1, <2>3, AnsweredForms
  <2> HIDE DEF k
  <2>5. HeldKeys' = HeldKeys \ {k} /\ GivenUpKeys' = GivenUpKeys \ {k}
    BY <2>1 DEF HeldKeys, GivenUpKeys, StoredKeys
  <2>6. C!Settle(k)
    BY <2>1, <2>4, <2>5 DEF C!Settle, HeldKeys, GivenUpKeys
  <2> QED
    BY <2>3, <2>6 DEF Promise, C!CustodyNext
<1>4. CASE UNCHANGED <<acked, terminal>>
  BY <1>1, <1>4, PromiseQueueEffect
<1> QED
  BY <1>2, <1>3, <1>4
     DEF Next, RadioStep, ReceiveFrame, CheckDuplicate, StartEnqueue,
         EnqueueUnavailable, EnqueueReturns, PeekBatch, RequestFails,
         HandleResponse, FinishReturns, QueueStep, Checkpoint,
         Restart, Decay, pathVars, vars

(***************************************************************************)
(* The tasks, the queue and its recovery implement Custody: an             *)
(* acknowledged key is let go only once the Backend has settled it or it   *)
(* was given up on record, whatever fails, in whichever order, and however *)
(* often.  The run checks this for three keys; with more than one failing  *)
(* removal it needs the step Replace, which the run never takes.           *)
(***************************************************************************)
THEOREM ImplementsCustody == Spec => CustodyKept
<1>1. Init => C!CustodyInit
  <2>1. ASSUME Init PROVE StoredKeys \cap Keys = {}
    BY <2>1, QueueAssumption DEF Init, QInit, StoredKeys
  <2> QED
    BY <2>1 DEF Init, QInit, C!CustodyInit
<1>2. PathInv /\ CustodyInv /\ [Next]_vars => [C!CustodyNext]_(C!custodyVars)
  BY PromiseStep DEF Promise, C!custodyVars, HeldKeys, GivenUpKeys
<1> QED
  BY <1>1, <1>2, CustodyInvInvariant, PTL DEF Spec, CustodyKept, C!CustodySpec

-----------------------------------------------------------------------------
(* One record per key, as long as reads work. *)

\* A lookup that reads every candidate and finds nothing: the key is not listed.
LEMMA NotFoundNotListed ==
  ASSUME PathInv, "read" \notin Faults, NEW k \in Keys, Lookup(k, FALSE), Healthy
  PROVE  k \notin IndexedKeys
<1>1. ~ContainsKey(k, {})
  BY DEF Lookup, Fails
<1>2. ASSUME NEW i \in DOMAIN entries, flash[entries[i].id] = k PROVE FALSE
  <2>1. entries[i].hash = Hash[k]
    BY <1>2, ListedEntry DEF PathInv, IndexedRecord
  <2> QED
    BY <1>1, <1>2, <2>1 DEF ContainsKey
<1> QED
  BY <1>2 DEF IndexedKeys, IdsOf

\* A step lists a key that was not listed only by storing or finding it.
LEMMA ListedKeysShrink ==
  ASSUME PathInv, IndexEffect, op.at \notin {"rename", "evict"}, NEW k \in Keys,
         k \notin IndexedKeys
  PROVE  k \notin IndexedKeys'
<1>0. /\ flash \in [RecordIds -> Content] /\ Ids \subseteq RecordIds
      /\ nextRecordId \notin Ids /\ NoFile \notin Keys /\ Damaged \notin Keys
      /\ IndexedKeys = {flash[i] : i \in Ids}
  BY ListedIds, QueueAssumption DEF PathInv, QInv, QTypeOK, IndexedKeys, Ids
<1>1. ASSUME NEW i \in Ids' PROVE flash'[i] # k
  <2>1. i \in Ids /\ flash[i] # k /\ i \in RecordIds /\ i # nextRecordId
    BY <1>0, <1>1 DEF IndexEffect, Untouched, Committed, Overwritten, TakenBack,
                Dropped, Exchanged, Decayed, Removed
  <2>2. flash'[i] \in {flash[i], NoFile, Damaged}
    BY <1>0, <2>1 DEF IndexEffect, Untouched, Committed, Overwritten, TakenBack,
                Dropped, Exchanged, Decayed, Removed
  <2> QED
    BY <1>0, <2>1, <2>2
<1> QED
  BY <1>1 DEF IndexedKeys, Ids

\* The same while an enqueue makes room.
LEMMA EnqueuedKeyUnlisted ==
  ASSUME PathInv, EnqueueStep, op.key \in Keys, op.key \notin IndexedKeys,
         op'.at \in {"write", "rename", "evictForSpace"}
  PROVE  op'.key \notin IndexedKeys'
<1>0. /\ flash \in [RecordIds -> Content] /\ Ids \subseteq RecordIds
      /\ NoFile \notin Keys /\ IndexedKeys = {flash[i] : i \in Ids}
  BY ListedIds, QueueAssumption DEF PathInv, QInv, QTypeOK, IndexedKeys, Ids
<1>1. op'.key = op.key /\ (Untouched \/ \E id \in RecordIds : Dropped(id))
  BY EnqueueEffects DEF PathInv
<1>2. ASSUME NEW i \in Ids' PROVE flash'[i] # op.key
  BY <1>0, <1>1, <1>2 DEF Untouched, Dropped
<1> QED
  BY <1>1, <1>2 DEF IndexedKeys, Ids

\* Every file with a key stays in reach, or is the one the next enqueue replaces.
LEMMA AccountedStep ==
  ASSUME PathInv, UniqueInv, QueueEffect, "read" \notin Faults,
         NEW i \in RecordIds, flash'[i] \in Keys
  PROVE  i \in Reach' \/ (i = nextRecordId' /\ op'.at # "scan")
<1>0. /\ QInv /\ flash \in [RecordIds -> Content]
      /\ NoFile \notin Keys /\ Damaged \notin Keys
      /\ flash[i] \in Keys => i \in Reach \/ (i = nextRecordId /\ op.at # "scan")
  BY QueueAssumption DEF PathInv, QInv, QTypeOK, UniqueInv
<1>1. CASE SamePhase /\ IndexEffect
  <2>0. ASSUME flash'[i] = flash[i], i \in Ids => i \in Ids',
               i = nextRecordId => i \in Ids' \/ nextRecordId' = nextRecordId
        PROVE  i \in Reach' \/ (i = nextRecordId' /\ op'.at # "scan")
    BY <1>0, <1>1, <2>0 DEF SamePhase, Reach, Ids
  <2>1. CASE Untouched
    BY <2>0, <2>1 DEF Untouched
  <2>2. CASE Committed
    <3>1. i = nextRecordId => i \in Reach'
      BY <1>1, <2>2 DEF SamePhase, Committed, Reach, Ids
    <3>2. i # nextRecordId => flash'[i] = flash[i] /\ (i \in Ids => i \in Ids')
      BY <1>0, <2>2 DEF Committed
    <3> QED
      BY <2>0, <3>1, <3>2
  <2>3. CASE Overwritten
    <3>1. i = nextRecordId => i = nextRecordId' /\ op'.at # "scan"
      BY <1>1, <2>3 DEF SamePhase, Overwritten
    <3>2. i # nextRecordId => flash'[i] = flash[i] /\ (i \in Ids => i \in Ids')
      BY <1>0, <2>3 DEF Overwritten
    <3> QED
      BY <2>0, <3>1, <3>2
  <2>4. CASE TakenBack
    <3>1. flash'[i] = flash[i] /\ (i \in Ids => i \in Ids') /\ nextRecordId' = nextRecordId
      BY <1>0, <2>4 DEF TakenBack
    <3> QED
      BY <2>0, <3>1
  <2>5. ASSUME NEW o \in RecordIds, Dropped(o) \/ Decayed(o)
        PROVE  i \in Reach' \/ (i = nextRecordId' /\ op'.at # "scan")
    <3>1. flash'[i] = flash[i] /\ (i \in Ids => i \in Ids') /\ nextRecordId' = nextRecordId
      BY <1>0, <2>5 DEF Dropped, Decayed
    <3> QED
      BY <2>0, <3>1
  <2>6. ASSUME NEW o \in RecordIds, Exchanged(o)
        PROVE  i \in Reach' \/ (i = nextRecordId' /\ op'.at # "scan")
    <3>1. /\ flash'[i] = flash[i] /\ (i \in Ids => i \in Ids')
          /\ i = nextRecordId => i \in Ids'
      BY <1>0, <2>6 DEF Exchanged
    <3> QED
      BY <2>0, <3>1
  <2>7. ASSUME NEW a \in op.todo, Removed(a)
        PROVE  i \in Reach' \/ (i = nextRecordId' /\ op'.at # "scan")
    <3>1. /\ a.id \in RecordIds /\ flash' = [flash EXCEPT ![a.id] = NoFile]
          /\ Ids' = Ids \ {a.id} /\ nextRecordId' = nextRecordId
      BY <1>0, <2>7, ListedIds DEF Removed
    <3>2. flash'[i] = flash[i] /\ (i \in Ids => i \in Ids') /\ nextRecordId' = nextRecordId
      BY <1>0, <3>1
    <3> QED
      BY <2>0, <3>2
  <2> QED
    BY <1>1, <2>1, <2>2, <2>3, <2>4, <2>5, <2>6, <2>7 DEF IndexEffect
<1>2. CASE QueueGone
  BY <1>2 DEF QueueGone, Reach
<1>3. CASE Rescanned
  <2>1. i \in op'.scan /\ op'.at = "scan"
    BY <1>0, <1>3 DEF Rescanned
  <2> QED
    BY <2>1 DEF Reach
<1>4. CASE Sorted
  <2>1. /\ flash'[i] = flash[i] /\ op.at = "scan" /\ op.scan = {}
        /\ op'.at = "trim" /\ Ids' = Ids
    BY <1>4 DEF Sorted
  <2> QED
    BY <1>0, <2>1 DEF Reach, Ids
<1>5. ASSUME NEW id \in RecordIds, Found(id)
      PROVE  i \in Reach'
  BY <1>0, <1>5 DEF Found, Reach, Ids
<1>6. ASSUME NEW id \in RecordIds, Abandoned(id)
      PROVE  i \in Reach'
  <2>1. flash[id] \notin Keys
    BY <1>6 DEF Abandoned
  <2>2. i # id /\ flash'[i] = flash[i]
    BY <1>0, <1>6, <2>1 DEF Abandoned
  <2> QED
    BY <1>0, <1>6, <2>2 DEF Abandoned, Reach, Ids
<1> QED
  BY <1>1, <1>2, <1>3, <1>4, <1>5, <1>6 DEF QueueEffect

\* A record is written only for a key that no other file holds.
LEMMA DuplicateStep ==
  ASSUME PathInv, UniqueInv, QueueEffect
  PROVE  NoDuplicateRecords'
<1>0. /\ QInv /\ flash \in [RecordIds -> Content]
      /\ NoFile \notin Keys /\ Damaged \notin Keys /\ Ids \subseteq RecordIds
      /\ \A i, j \in RecordIds : flash[i] = flash[j] /\ flash[i] \in Keys => i = j
  BY QueueAssumption, ListedIds DEF PathInv, QInv, QTypeOK, UniqueInv, NoDuplicateRecords
<1>1. CASE op.at = "rename" /\ flash' = [flash EXCEPT ![nextRecordId] = op.key]
  <2>1. ASSUME NEW i \in RecordIds, i # nextRecordId, flash[i] \in Keys
        PROVE  flash[i] # op.key
    <3>1. i \in Ids
      BY <1>1, <2>1 DEF UniqueInv, Reach, Ids
    <3>2. op.key \notin {flash[j] : j \in Ids}
      BY <1>1 DEF UniqueInv, IndexedKeys, Ids
    <3> QED
      BY <3>1, <3>2
  <2> QED
    BY <1>0, <1>1, <2>1 DEF NoDuplicateRecords
<1>2. ASSUME NEW i \in RecordIds, NEW v, v \notin Keys, flash' = [flash EXCEPT ![i] = v]
      PROVE  NoDuplicateRecords'
  BY <1>0, <1>2 DEF NoDuplicateRecords
<1>3. CASE flash' = flash
  BY <1>0, <1>3 DEF NoDuplicateRecords
<1> QED
  BY <1>0, <1>1, <1>2, <1>3
     DEF QueueEffect, IndexEffect, Untouched, Committed, Overwritten, TakenBack,
         Dropped, Exchanged, Decayed, Removed, QueueGone, Rescanned, Sorted, Found,
         Abandoned

\* UniqueInv is inductive as long as no read can fail.
LEMMA UniqueInvStep ==
  ASSUME PathInv, UniqueInv, "read" \notin Faults, [Next]_vars
  PROVE  UniqueInv'
<1> USE DEF Healthy, BootSteps
<1>0. /\ QInv /\ FreshInv /\ OwnerInv
      /\ radio \in [at : RadioSteps, key : Keys \cup {NoKey}]
  BY DEF PathInv, TypeOK
<1>1. [QNext]_qvars /\ QueueEffect
  BY <1>0, NextIsQueueStep, QueueEffects
<1>2. NoDuplicateRecords'
  BY <1>1, DuplicateStep
<1>3. \A i \in RecordIds :
        flash'[i] \in Keys => i \in Reach' \/ (i = nextRecordId' /\ op'.at # "scan")
  BY <1>1, AccountedStep
<1>4. QueueStep =>
        \/ EnqueueStep /\ UNCHANGED pathVars
        \/ FinishStep /\ UNCHANGED pathVars
        \/ BootStep /\ UNCHANGED pathVars
  BY DEF QueueStep
<1>5. ASSUME radio'.at # "listen" PROVE Healthy' \/ op'.at = "failed"
  <2>0. radio.at # "listen" \/ \E k \in Keys : ReceiveFrame(k)
    <3>1. radio' = Listening => radio'.at = "listen"
      BY DEF Listening
    <3> QED
      BY <1>5, <3>1
         DEF Next, RadioStep, CheckDuplicate, StartEnqueue, EnqueueUnavailable,
             EnqueueReturns, TransmitAck, PeekBatch, RequestFails, HandleResponse,
             FinishReturns, BackendDecides, QueueStep, Checkpoint, Restart, Decay,
             pathVars, vars
  <2>1. CASE UNCHANGED op
    BY <2>0, <2>1 DEF UniqueInv, ReceiveFrame
  <2>2. CASE EnqueueStep /\ UNCHANGED pathVars
    BY <1>0, <2>2, EnqueueEffects DEF EnqueueSteps
  <2>3. CASE FinishStep /\ UNCHANGED pathVars
    BY <1>0, <2>3, FinishEffects DEF FinishSteps
  <2>4. CASE BootStep /\ UNCHANGED pathVars
    BY <1>0, <1>5, <2>4, BootEffects DEF UniqueInv, pathVars
  <2>5. Return \/ (\E k \in Keys : EnqueueBegin(k)) \/ (\E A : FinishBegin(A))
          => Healthy'
    BY <1>0, OtherEffects
  <2>6. CASE Return \/ (\E k \in Keys : EnqueueBegin(k)) \/ (\E A : FinishBegin(A))
    BY <2>5, <2>6
  <2>7. StartEnqueue => \E k \in Keys : EnqueueBegin(k)
    BY <1>0 DEF StartEnqueue, OwnerInv
  <2>8. Restart => radio'.at = "listen"
    BY DEF Restart, Listening
  <2>9. UNCHANGED qvars => UNCHANGED op
    BY DEF qvars
  <2>10. CheckDuplicate \/ Checkpoint \/ Decay => UNCHANGED op
    BY <1>0, OtherEffects DEF CheckDuplicate, Checkpoint, Decay
  <2> QED
    BY <1>4, <1>5, <2>1, <2>2, <2>3, <2>4, <2>6, <2>7, <2>8, <2>9, <2>10
       DEF Next, RadioStep, ReceiveFrame, EnqueueUnavailable, EnqueueReturns,
           TransmitAck, PeekBatch, RequestFails, HandleResponse, FinishReturns,
           BackendDecides, vars
<1>6. ASSUME radio'.at = "enqueue", Healthy' PROVE radio'.key \notin IndexedKeys'
  <2>1. CASE CheckDuplicate
    <3>1. radio.at = "check" /\ radio.key \in Keys
      BY <1>0, <2>1 DEF CheckDuplicate, OwnerInv
    <3>2. Lookup(radio.key, FALSE) /\ radio'.key = radio.key
      BY <1>0, <1>6, <2>1 DEF CheckDuplicate
    <3>3. op' = op /\ Untouched
      BY <1>0, <3>2, OtherEffects
    <3>4. radio.key \notin IndexedKeys
      BY <1>6, <3>1, <3>2, <3>3, NotFoundNotListed
    <3>5. IndexedKeys' = IndexedKeys
      BY <3>3 DEF Untouched, IndexedKeys, Ids
    <3> QED
      BY <3>2, <3>4, <3>5
  <2>2. CASE UNCHANGED radio
    <3>1. /\ radio.at = "enqueue" /\ radio.key \in Keys
          /\ op.at \notin EnqueueSteps /\ (Healthy \/ op.at = "failed")
      BY <1>0, <1>6, <2>2 DEF OwnerInv, UniqueInv
    <3>2. CASE Healthy
      <4>1. radio.key \notin IndexedKeys
        BY <3>1, <3>2 DEF UniqueInv
      <4>2. IndexEffect
        BY <1>1, <1>6, <3>2
           DEF QueueEffect, QueueGone, Rescanned, Sorted, Found, Abandoned
      <4> QED
        BY <2>2, <3>1, <4>1, <4>2, ListedKeysShrink DEF EnqueueSteps
    <3>3. CASE op.at = "failed"
      BY <1>1, <1>6, <3>3
         DEF QueueEffect, SamePhase, QueueGone, Rescanned, Sorted, Found, Abandoned
    <3> QED
      BY <3>1, <3>2, <3>3
  <2>3. radio' = Listening => radio'.at # "enqueue"
    BY DEF Listening
  <2>4. (\E k \in Keys : ReceiveFrame(k)) => radio'.at # "enqueue"
    BY DEF ReceiveFrame
  <2>5. StartEnqueue \/ EnqueueReturns => radio'.at # "enqueue"
    BY <1>0 DEF StartEnqueue, EnqueueReturns, Listening
  <2> QED
    BY <1>6, <2>1, <2>2, <2>3, <2>4, <2>5
       DEF Next, RadioStep, EnqueueUnavailable, TransmitAck, PeekBatch, RequestFails,
           HandleResponse, FinishReturns, BackendDecides, QueueStep, Checkpoint,
           Restart, Decay, pathVars, vars
<1>7. ASSUME op'.at \in {"write", "rename", "evictForSpace"}
      PROVE  op'.key \notin IndexedKeys'
  <2>1. CASE EnqueueStep
    <3>1. op.at \in {"write", "rename", "evictForSpace"}
      BY <1>0, <1>7, <2>1, EnqueueEffects
    <3>2. op.key \in Keys /\ op.key \notin IndexedKeys
      BY <1>0, <3>1 DEF QInv, OpInv, UniqueInv
    <3> QED
      BY <1>7, <2>1, <3>2, EnqueuedKeyUnlisted
  <2>2. ASSUME UNCHANGED op, Untouched \/ \E id \in RecordIds : Decayed(id)
        PROVE  op'.key \notin IndexedKeys'
    <3>1. /\ op.key \in Keys /\ op.key \notin {flash[i] : i \in Ids} /\ op'.key = op.key
          /\ flash \in [RecordIds -> Content] /\ Ids \subseteq RecordIds /\ Ids' = Ids
          /\ Damaged \notin Keys
      BY <1>0, <1>7, <2>2, ListedIds, QueueAssumption
         DEF QInv, QTypeOK, OpInv, UniqueInv, IndexedKeys, Ids, Untouched, Decayed
    <3>2. \A i \in Ids : flash'[i] \in {flash[i], Damaged}
      BY <2>2, <3>1 DEF Untouched, Decayed
    <3> QED
      BY <3>1, <3>2 DEF IndexedKeys, Ids
  <2>3. CASE StartEnqueue
    <3>1. radio.at = "enqueue" /\ radio.key \in Keys /\ EnqueueBegin(radio.key)
      BY <1>0, <2>3 DEF StartEnqueue, OwnerInv
    <3>2. op.at = "idle" /\ Untouched /\ op'.key = radio.key
      BY <1>0, <1>7, <3>1, OtherEffects
    <3>3. radio.key \notin IndexedKeys
      BY <3>1, <3>2 DEF UniqueInv
    <3> QED
      BY <3>2, <3>3 DEF Untouched, IndexedKeys, Ids
  <2>4. CASE FinishStep
    BY <1>0, <1>7, <2>4, FinishEffects DEF FinishSteps
  <2>5. CASE BootStep
    BY <1>0, <1>7, <2>5, BootEffects
  <2>6. Return => op'.at = "idle"
    BY <1>0, OtherEffects
  <2>7. PowerLoss => op'.at = "off"
    BY <1>0, OtherEffects
  <2>8. \A A : FinishBegin(A) => op'.at = "remove"
    BY <1>0, OtherEffects
  <2>9. CASE CheckDuplicate \/ Checkpoint \/ Decay
    BY <1>0, <2>2, <2>9, OtherEffects DEF CheckDuplicate, Checkpoint, Decay
  <2>10. CASE UNCHANGED qvars
    BY <2>2, <2>10, StutterEffect
  <2> QED
    BY <1>4, <1>7, <2>1, <2>3, <2>4, <2>5, <2>6, <2>7, <2>8, <2>9, <2>10
       DEF Next, RadioStep, ReceiveFrame, EnqueueUnavailable, EnqueueReturns,
           TransmitAck, PeekBatch, RequestFails, HandleResponse, FinishReturns,
           BackendDecides, Restart, vars
<1> QED
  BY <1>2, <1>3, <1>5, <1>6, <1>7 DEF UniqueInv

(***************************************************************************)
(* One record per key.  As long as every read works, a key occupies at     *)
(* most one record, whatever writes and removals fail, however often the   *)
(* power goes, and although contains() and enqueue() take the mutex        *)
(* separately.                                                             *)
(***************************************************************************)
THEOREM NeverDuplicateRecords ==
  ASSUME "read" \notin Faults
  PROVE  Spec => []NoDuplicateRecords
<1>1. Init => UniqueInv
  BY QueueAssumption
     DEF Init, QInit, UniqueInv, NoDuplicateRecords, Listening, NoOp, Reach
<1>2. PathInv /\ UniqueInv /\ [Next]_vars => UniqueInv'
  BY UniqueInvStep
<1>3. UniqueInv => NoDuplicateRecords
  BY DEF UniqueInv
<1> QED
  BY <1>1, <1>2, <1>3, PathInvInvariant, PTL DEF Spec
=============================================================================
