------------------------- MODULE DurableQueueProofs -------------------------
(***************************************************************************)
(* Proofs about DurableQueue: the queue with any client that keeps to the  *)
(* contract of finish(), any number of storage faults and power losses.    *)
(***************************************************************************)
EXTENDS DurableQueue, SequenceTheorems, TLAPS

\* Removing a position of a sequence shifts the rest down by one.
LEMMA RemoveAtProperties ==
  ASSUME NEW S, NEW s \in Seq(S), NEW i \in 1 .. Len(s)
  PROVE  /\ RemoveAt(s, i) \in Seq(S)
         /\ Len(RemoveAt(s, i)) = Len(s) - 1
         /\ \A j \in 1 .. Len(s) - 1 :
              RemoveAt(s, i)[j] = IF j < i THEN s[j] ELSE s[j + 1]
<1> DEFINE a == SubSeq(s, 1, i - 1)
          b == SubSeq(s, i + 1, Len(s))
<1>1. /\ a \in Seq(S)
      /\ Len(a) = i - 1
      /\ \A j \in 1 .. i - 1 : a[j] = s[j]
  OBVIOUS
<1>2. /\ b \in Seq(S)
      /\ Len(b) = Len(s) - i
      /\ \A j \in 1 .. Len(s) - i : b[j] = s[j + i]
  OBVIOUS
<1> HIDE DEF a, b
<1> DEFINE c == a \o b
<1>3. RemoveAt(s, i) = c
  BY DEF RemoveAt, a, b
<1>4. /\ c \in Seq(S)
      /\ Len(c) = Len(a) + Len(b)
      /\ \A j \in 1 .. Len(a) + Len(b) :
           c[j] = IF j <= Len(a) THEN a[j] ELSE b[j - Len(a)]
  BY <1>1, <1>2, ConcatProperties
<1> HIDE DEF c
<1>5. ASSUME NEW j \in 1 .. Len(s) - 1
      PROVE  c[j] = IF j < i THEN s[j] ELSE s[j + 1]
  <2>0. j \in 1 .. Len(a) + Len(b)
    BY <1>1, <1>2
  <2>1. CASE j < i
    <3>1. j \in 1 .. i - 1 /\ j <= Len(a)
      BY <1>1, <2>1
    <3>2. c[j] = a[j]
      BY <1>4, <2>0, <3>1
    <3>3. a[j] = s[j]
      BY <1>1, <3>1
    <3> QED
      BY <3>2, <3>3, <2>1
  <2>2. CASE ~(j < i)
    <3>1. j - (i - 1) \in 1 .. Len(s) - i /\ ~(j <= Len(a))
      BY <1>1, <2>2
    <3>2. b[j - (i - 1)] = s[(j - (i - 1)) + i]
      BY <1>2, <3>1
    <3>3. c[j] = b[j - (i - 1)]
      BY <1>1, <1>4, <2>0, <3>1
    <3> QED
      BY <3>2, <3>3, <2>2
  <2> QED
    BY <2>1, <2>2
<1> QED
  BY <1>1, <1>2, <1>3, <1>4, <1>5

\* The operations on the ring keep it a sequence of keys.
LEMMA RememberProperties ==
  ASSUME NEW ring \in Seq(Keys), NEW k \in Keys
  PROVE  /\ Remember(ring, k) \in Seq(Keys)
         /\ \A j \in DOMAIN Remember(ring, k) :
              \/ Remember(ring, k)[j] = k
              \/ \E i \in DOMAIN ring : Remember(ring, k)[j] = ring[i]
  BY QueueAssumption DEF Remember

-----------------------------------------------------------------------------
(* Facts about operation records. *)

\* The steps of an operation, spelled out.
LEMMA OpStepNames ==
  {"off", "failed", "idle", "return", "scan", "trim", "loadRecent", "bootCheckpoint",
   "write", "rename", "evictForSpace", "evict", "withdraw", "checkpoint",
   "remove", "persistRecent", "tally"} \subseteq OpSteps
  BY DEF OpSteps, BootSteps, EnqueueSteps, FinishSteps

\* The empty operation has the type of an operation.
LEMMA NoOpType ==
  ASSUME NEW at \in OpSteps
  PROVE  NoOp(at) \in OpRecord /\ NoOp(at).at = at
  BY DEF NoOp, OpRecord

\* Moving an operation to another storage call keeps its type and key.
LEMMA AtType ==
  ASSUME op \in OpRecord, NEW at \in OpSteps
  PROVE  /\ [op EXCEPT !.at = at] \in OpRecord
         /\ [op EXCEPT !.at = at].at = at
         /\ [op EXCEPT !.at = at].key = op.key
         /\ [op EXCEPT !.at = at].ok = op.ok
         /\ [op EXCEPT !.at = at].todo = op.todo
         /\ [op EXCEPT !.at = at].scan = op.scan
  BY DEF OpRecord

\* Where an enqueue goes when it is done, and that it keeps its key.
LEMMA EnqueueDoneType ==
  ASSUME op \in OpRecord, NEW ok \in BOOLEAN, NEW dropped \in BOOLEAN
  PROVE  /\ EnqueueDone(ok, dropped) \in OpRecord
         /\ EnqueueDone(ok, dropped).at \in {"checkpoint", "return"}
         /\ EnqueueDone(ok, dropped).key = op.key
         /\ EnqueueDone(ok, dropped).ok = ok
<1>1. (IF dropped THEN "checkpoint" ELSE "return") \in OpSteps
  BY OpStepNames
<1> QED
  BY <1>1 DEF OpRecord, EnqueueDone

\* The same for a failed write, which may also go on to make room.
LEMMA WriteFailedType ==
  ASSUME op \in OpRecord
  PROVE  /\ WriteFailed \in OpRecord
         /\ WriteFailed.at \in {"evictForSpace", "checkpoint", "return"}
         /\ WriteFailed.at = "evictForSpace" => Len(entries) >= Capacity
         /\ WriteFailed.key = op.key
         /\ WriteFailed.at # "evictForSpace" => WriteFailed.ok = FALSE
<1>1. op.dropped \in BOOLEAN
  BY DEF OpRecord
<1>2. CASE ~op.retried /\ Len(entries) >= Capacity
  <2>1. WriteFailed = [op EXCEPT !.at = "evictForSpace"]
    BY <1>2 DEF WriteFailed
  <2> QED
    BY <2>1, <1>2, OpStepNames, AtType
<1>3. CASE ~(~op.retried /\ Len(entries) >= Capacity)
  <2>1. WriteFailed = EnqueueDone(FALSE, op.dropped)
    BY <1>3 DEF WriteFailed
  <2> QED
    BY <2>1, EnqueueDoneType, <1>1
<1> QED
  BY <1>2, <1>3

\* Whether a storage call works or fails, the fault count is a number.
LEMMA FaultsType ==
  ASSUME faults \in Nat, NEW kind, Works \/ Fails(kind)
  PROVE  faults' \in Nat
  BY DEF Works, Fails

-----------------------------------------------------------------------------
(* Facts about the index. *)

\* Appending an entry keeps all others in place.
LEMMA AppendEntry ==
  ASSUME NEW s \in Seq(Entry), NEW e \in Entry
  PROVE  /\ Append(s, e) \in Seq(Entry)
         /\ \A i \in DOMAIN Append(s, e) :
              Append(s, e)[i] = e \/ \E j \in DOMAIN s : Append(s, e)[i] = s[j]
<1> DEFINE t == Append(s, e)
<1>1. /\ t \in Seq(Entry)
      /\ DOMAIN t = 1 .. Len(s) + 1
      /\ DOMAIN s = 1 .. Len(s)
      /\ \A i \in 1 .. Len(s) : t[i] = s[i]
      /\ t[Len(s) + 1] = e
      /\ Len(s) \in Nat
  BY AppendProperties
<1> HIDE DEF t
<1>2. ASSUME NEW i \in DOMAIN t
      PROVE  t[i] = e \/ \E j \in DOMAIN s : t[i] = s[j]
  <2>1. i \in DOMAIN s \/ i = Len(s) + 1
    BY <1>1
  <2> QED
    BY <1>1, <2>1
<1> QED
  BY <1>1, <1>2 DEF t

\* Appending the new record, under an id above all others, keeps the index.
LEMMA AppendIndex ==
  ASSUME NEW s \in Seq(Entry), NEW e \in Entry, Ascending(s),
         \A i \in DOMAIN s : s[i].id < e.id
  PROVE  /\ Append(s, e) \in Seq(Entry)
         /\ Len(Append(s, e)) = Len(s) + 1
         /\ Ascending(Append(s, e))
         /\ \A i \in DOMAIN Append(s, e) :
              Append(s, e)[i] = e \/ \E j \in DOMAIN s : Append(s, e)[i] = s[j]
         /\ \A j \in DOMAIN s : j \in DOMAIN Append(s, e) /\ Append(s, e)[j] = s[j]
         /\ Append(s, e)[Len(s) + 1] = e
<1> DEFINE t == Append(s, e)
<1>1. /\ t \in Seq(Entry)
      /\ Len(t) = Len(s) + 1
      /\ DOMAIN t = 1 .. Len(s) + 1
      /\ DOMAIN s = 1 .. Len(s)
      /\ \A i \in 1 .. Len(s) : t[i] = s[i]
      /\ t[Len(s) + 1] = e
      /\ Len(s) \in Nat
  BY AppendProperties
<1> HIDE DEF t
<1>2. ASSUME NEW i \in DOMAIN t, NEW j \in DOMAIN t, i < j
      PROVE  t[i].id < t[j].id
  <2>1. i \in DOMAIN s
    BY <1>1, <1>2
  <2>2. CASE j \in DOMAIN s
    BY <1>1, <1>2, <2>1, <2>2 DEF Ascending
  <2>3. CASE j = Len(s) + 1
    BY <1>1, <1>2, <2>1, <2>3
  <2> QED
    BY <1>1, <2>2, <2>3
<1>3. ASSUME NEW i \in DOMAIN t
      PROVE  t[i] = e \/ \E j \in DOMAIN s : t[i] = s[j]
  <2>1. i \in DOMAIN s \/ i = Len(s) + 1
    BY <1>1
  <2> QED
    BY <1>1, <2>1
<1>4. \A j \in DOMAIN s : j \in DOMAIN t /\ t[j] = s[j]
  BY <1>1
<1>5. Ascending(t)
  BY <1>2 DEF Ascending
<1> QED
  BY <1>1, <1>3, <1>4, <1>5 DEF t

\* Dropping the front of the index keeps it ascending and removes that id.
LEMMA TailIndex ==
  ASSUME NEW s \in Seq(Entry), s # <<>>, Ascending(s)
  PROVE  /\ Tail(s) \in Seq(Entry)
         /\ Len(Tail(s)) = Len(s) - 1
         /\ Ascending(Tail(s))
         /\ \A i \in DOMAIN Tail(s) :
              /\ \E j \in DOMAIN s : Tail(s)[i] = s[j]
              /\ Tail(s)[i].id # s[1].id
         /\ \A j \in DOMAIN s \ {1} : \E i \in DOMAIN Tail(s) : Tail(s)[i] = s[j]
<1> DEFINE t == Tail(s)
<1>1. /\ t \in Seq(Entry)
      /\ Len(t) = Len(s) - 1
      /\ DOMAIN t = 1 .. Len(s) - 1
      /\ DOMAIN s = 1 .. Len(s)
      /\ \A i \in 1 .. Len(s) - 1 : t[i] = s[i + 1]
      /\ Len(s) \in Nat \ {0}
  <2>1. /\ t \in Seq(Entry)
        /\ Len(t) = Len(s) - 1
        /\ \A i \in 1 .. Len(t) : t[i] = s[i + 1]
    BY HeadTailProperties
  <2>2. Len(s) \in Nat \ {0}
    OBVIOUS
  <2> HIDE DEF t
  <2> QED
    BY <2>1, <2>2
<1> HIDE DEF t
<1>2. ASSUME NEW i \in DOMAIN s
      PROVE  s[i].id \in Nat
  <2>1. s[i] \in Entry
    OBVIOUS
  <2> QED
    BY <2>1 DEF Entry
<1>3. ASSUME NEW i \in DOMAIN t, NEW j \in DOMAIN t, i < j
      PROVE  t[i].id < t[j].id
  <2>1. i + 1 \in DOMAIN s /\ j + 1 \in DOMAIN s /\ i + 1 < j + 1
    BY <1>1, <1>3
  <2> QED
    BY <1>1, <2>1 DEF Ascending
<1>4. ASSUME NEW i \in DOMAIN t
      PROVE  (\E j \in DOMAIN s : t[i] = s[j]) /\ t[i].id # s[1].id
  <2>1. i + 1 \in DOMAIN s /\ 1 \in DOMAIN s /\ 1 < i + 1 /\ t[i] = s[i + 1]
    BY <1>1
  <2>2. s[1].id < s[i + 1].id
    BY <2>1 DEF Ascending
  <2> QED
    BY <2>1, <2>2, <1>2
<1>5. ASSUME NEW j \in DOMAIN s \ {1}
      PROVE  \E i \in DOMAIN t : t[i] = s[j]
  <2>1. j - 1 \in 1 .. Len(s) - 1 /\ (j - 1) + 1 = j
    BY <1>1
  <2>2. t[j - 1] = s[(j - 1) + 1]
    BY <1>1, <2>1
  <2> QED
    BY <1>1, <2>1, <2>2
<1>6. Ascending(t)
  BY <1>3 DEF Ascending
<1> QED
  BY <1>1, <1>4, <1>5, <1>6 DEF t

\* Erasing one position of the index keeps it ascending and removes that id.
LEMMA RemoveAtIndex ==
  ASSUME NEW s \in Seq(Entry), Ascending(s), NEW i \in DOMAIN s
  PROVE  /\ RemoveAt(s, i) \in Seq(Entry)
         /\ Len(RemoveAt(s, i)) = Len(s) - 1
         /\ Ascending(RemoveAt(s, i))
         /\ \A k \in DOMAIN RemoveAt(s, i) :
              /\ \E j \in DOMAIN s : RemoveAt(s, i)[k] = s[j]
              /\ RemoveAt(s, i)[k].id # s[i].id
         /\ \A j \in DOMAIN s \ {i} :
              \E k \in DOMAIN RemoveAt(s, i) : RemoveAt(s, i)[k] = s[j]
<1> DEFINE r == RemoveAt(s, i)
<1>1. /\ r \in Seq(Entry)
      /\ Len(r) = Len(s) - 1
      /\ \A j \in 1 .. Len(s) - 1 : r[j] = IF j < i THEN s[j] ELSE s[j + 1]
      /\ i \in 1 .. Len(s)
  <2>1. i \in 1 .. Len(s)
    OBVIOUS
  <2> QED
    BY <2>1, RemoveAtProperties
<1> HIDE DEF r
<1>2. /\ DOMAIN r = 1 .. Len(s) - 1
      /\ DOMAIN s = 1 .. Len(s)
      /\ Len(s) \in Nat \ {0}
  BY <1>1
<1>8. ASSUME NEW j \in DOMAIN s
      PROVE  s[j].id \in Nat
  <2>1. s[j] \in Entry
    OBVIOUS
  <2> QED
    BY <2>1 DEF Entry
<1> DEFINE old(k) == IF k < i THEN k ELSE k + 1
<1>3. ASSUME NEW k \in DOMAIN r
      PROVE  old(k) \in DOMAIN s /\ old(k) # i /\ r[k] = s[old(k)]
  <2>1. k \in 1 .. Len(s) - 1 /\ k \in Int /\ Len(s) \in Int /\ i \in Int
    BY <1>1, <1>2
  <2>2. old(k) \in 1 .. Len(s) /\ old(k) # i
    BY <2>1
  <2>3. r[k] = s[old(k)]
    BY <1>1, <2>1
  <2> QED
    BY <1>2, <2>2, <2>3
<1>4. ASSUME NEW k \in DOMAIN r, NEW j \in DOMAIN r, k < j
      PROVE  r[k].id < r[j].id
  <2>1. old(k) < old(j)
    BY <1>2, <1>4
  <2>2. /\ old(k) \in DOMAIN s /\ r[k] = s[old(k)]
        /\ old(j) \in DOMAIN s /\ r[j] = s[old(j)]
    BY <1>3
  <2> HIDE DEF old
  <2> QED
    BY <2>1, <2>2 DEF Ascending
<1>5. ASSUME NEW k \in DOMAIN r
      PROVE  (\E j \in DOMAIN s : r[k] = s[j]) /\ r[k].id # s[i].id
  <2>1. old(k) \in DOMAIN s /\ old(k) # i /\ r[k] = s[old(k)]
    BY <1>3
  <2> HIDE DEF old
  <2>2. old(k) < i \/ i < old(k)
    BY <2>1, <1>1, <1>2
  <2>3. s[old(k)].id < s[i].id \/ s[i].id < s[old(k)].id
    BY <2>1, <2>2 DEF Ascending
  <2>4. s[old(k)].id \in Nat /\ s[i].id \in Nat
    BY <1>8, <2>1
  <2>5. s[old(k)].id # s[i].id
    BY <2>3, <2>4
  <2> QED
    BY <2>1, <2>5
<1>6. ASSUME NEW j \in DOMAIN s \ {i}
      PROVE  \E k \in DOMAIN r : r[k] = s[j]
  <2>1. CASE j < i
    <3>1. j \in DOMAIN r /\ old(j) = j
      BY <1>1, <1>2, <2>1
    <3> QED
      BY <1>3, <3>1
  <2>2. CASE j > i
    <3>1. j - 1 \in DOMAIN r /\ old(j - 1) = j
      BY <1>1, <1>2, <2>2
    <3> QED
      BY <1>3, <3>1
  <2> QED
    BY <1>1, <1>2, <2>1, <2>2
<1>7. Ascending(r)
  BY <1>4 DEF Ascending
<1> QED
  BY <1>1, <1>5, <1>6, <1>7 DEF r

\* What holds of the oldest record when the queue is full.
LEMMA OldestRecord ==
  ASSUME QInv, Len(entries) >= Capacity
  PROVE  /\ entries # <<>>
         /\ 1 \in DOMAIN entries
         /\ OldestId \in RecordIds
         /\ OldestId < nextRecordId
         /\ flash[OldestId] \in Content
<1>1. Len(entries) >= 1 /\ entries \in Seq(Entry)
  BY QueueAssumption DEF QInv, QTypeOK
<1>2. 1 \in DOMAIN entries /\ entries # <<>>
  BY <1>1
<1>3. IndexedRecord(entries[1])
  BY <1>2 DEF QInv, IndexInv
<1> QED
  BY <1>2, <1>3 DEF IndexedRecord, OldestId, QInv, QTypeOK

-----------------------------------------------------------------------------
(* The invariant holds initially, and every action preserves it. *)

\* At first power-on the index is empty and no file exists.
LEMMA QInvInit == QInit => QInv
<1> SUFFICES ASSUME QInit PROVE QInv
  OBVIOUS
<1>1. op \in OpRecord /\ op.at = "off"
  BY NoOpType, OpStepNames DEF QInit
<1>2. /\ flash \in [RecordIds -> Content]
      /\ temp \in Content
      /\ discarded \subseteq Content
  BY DEF QInit, Content
<1>3. nextRecordId \in 1 .. MaxRecordId + 1
  BY QueueAssumption DEF QInit
<1>4. entries \in Seq(Entry) /\ recent \in Seq(Keys) /\ recentFile \in Seq(Keys)
  BY DEF QInit
<1>5. fsReady \in BOOLEAN
  BY DEF QInit
<1>6. /\ nvsDropped \in Nat /\ statDropped \in Nat /\ drops \in Nat
      /\ faults \in Nat /\ crashes \in Nat
  BY DEF QInit
<1>7. QTypeOK
  BY <1>1, <1>2, <1>3, <1>4, <1>5, <1>6 DEF QTypeOK
<1>8. OpInv
  BY <1>1 DEF QInit, OpInv
<1>9. IndexInv
  BY <1>1 DEF QInit, IndexInv, Ascending
<1> QED
  BY <1>7, <1>8, <1>9 DEF QInv

(***************************************************************************)
(* The actions that leave the files, the index and the .tmp alone.  All    *)
(* that matters is which storage call the operation makes next.            *)
(***************************************************************************)
QuietSteps == {"write", "idle", "return", "remove", "tally"}

\* A step that leaves flash, index and the next id alone, and ends at a
\* step for which OpInv asks nothing new, preserves the invariant.
LEMMA QuietInv ==
  ASSUME QInv, QTypeOK',
         UNCHANGED <<flash, temp, entries, nextRecordId>>,
         Healthy \/ op.at = "bootCheckpoint",
         op'.at \in QuietSteps,
         op'.at = "write" => op'.key \in Keys /\ nextRecordId <= MaxRecordId
  PROVE  QInv'
<1>1. op.at \notin {"off", "failed", "scan", "trim"}
  BY DEF Healthy, BootSteps
<1>2. OpInv'
  BY DEF OpInv, QuietSteps
<1>3. IndexInv'
  BY <1>1 DEF QInv, IndexInv, IndexedRecord, Ascending, QuietSteps
<1> QED
  BY <1>2, <1>3 DEF QInv

\* enqueue() starts only while an id is left.
LEMMA EnqueueBeginInv ==
  ASSUME QInv, NEW k \in Keys, EnqueueBegin(k)
  PROVE  QInv'
<1>1. CASE nextRecordId > MaxRecordId
  <2>1. op' = NoOp("return")
    BY <1>1 DEF EnqueueBegin
  <2>2. op' \in OpRecord /\ op'.at = "return"
    BY <2>1, NoOpType, OpStepNames
  <2>3. QTypeOK'
    BY <2>2 DEF QInv, QTypeOK, EnqueueBegin, flashVars, ramVars, ghostVars
  <2> QED
    BY <2>2, <2>3, QuietInv
       DEF EnqueueBegin, flashVars, ramVars, QuietSteps, Healthy, BootSteps
<1>2. CASE ~(nextRecordId > MaxRecordId)
  <2>1. op' = [NoOp("write") EXCEPT !.key = k]
    BY <1>2 DEF EnqueueBegin
  <2>2. op' \in OpRecord /\ op'.at = "write" /\ op'.key = k
    BY <2>1, NoOpType, OpStepNames DEF OpRecord
  <2>3. QTypeOK'
    BY <2>2 DEF QInv, QTypeOK, EnqueueBegin, flashVars, ramVars, ghostVars
  <2>4. nextRecordId <= MaxRecordId
    BY <1>2, QueueAssumption DEF QInv, QTypeOK
  <2> QED
    BY <2>2, <2>3, <2>4, QuietInv
       DEF EnqueueBegin, flashVars, ramVars, QuietSteps, Healthy, BootSteps
<1> QED
  BY <1>1, <1>2

\* finish() takes the mutex and touches nothing else.
LEMMA FinishBeginInv ==
  ASSUME QInv, NEW actions \in SUBSET Action, FinishBegin(actions)
  PROVE  QInv'
<1>1. op' = [NoOp("remove") EXCEPT !.todo = actions, !.ok = TRUE]
  BY DEF FinishBegin
<1>2. NoOp("remove") \in OpRecord /\ NoOp("remove").at = "remove"
  BY NoOpType, OpStepNames
<1>4. op' \in OpRecord /\ op'.at = "remove"
  <2> DEFINE o == NoOp("remove")
  <2>1. o \in OpRecord /\ o.at = "remove" /\ op' = [o EXCEPT !.todo = actions, !.ok = TRUE]
    BY <1>1, <1>2
  <2> HIDE DEF o
  <2> QED
    BY <2>1 DEF OpRecord
<1>3. QTypeOK'
  BY <1>4 DEF QInv, QTypeOK, FinishBegin, flashVars, ramVars, ghostVars
<1> QED
  BY <1>4, <1>3, QuietInv
     DEF FinishBegin, flashVars, ramVars, QuietSteps, Healthy, BootSteps

\* The mutex is released with the index within its bound.
LEMMA ReturnInv ==
  ASSUME QInv, Return
  PROVE  QInv'
<1>1. op' \in OpRecord /\ op'.at = "idle"
  BY NoOpType, OpStepNames DEF Return
<1>2. QTypeOK'
  BY <1>1 DEF QInv, QTypeOK, Return, flashVars, ramVars, ghostVars
<1> QED
  BY <1>1, <1>2, QuietInv
     DEF Return, flashVars, ramVars, QuietSteps, Healthy, BootSteps

\* persistCounters() writes the counter it has or leaves the old one.
LEMMA PersistCountersType ==
  ASSUME QInv, PersistCounters
  PROVE  nvsDropped' \in Nat /\ faults' \in Nat
  BY FaultsType DEF QInv, QTypeOK, PersistCounters, Works, Fails

\* The checkpoint after a drop writes only a counter.
LEMMA EnqueueCheckpointInv ==
  ASSUME QInv, EnqueueCheckpoint
  PROVE  QInv'
<1>1. op' \in OpRecord /\ op'.at = "return"
  BY AtType, OpStepNames DEF QInv, QTypeOK, EnqueueCheckpoint
<1>2. QTypeOK'
  BY <1>1, PersistCountersType
     DEF QInv, QTypeOK, EnqueueCheckpoint, ramVars, ghostVars
<1> QED
  BY <1>1, <1>2, QuietInv
     DEF EnqueueCheckpoint, ramVars, QuietSteps, Healthy, BootSteps

\* Writing the ring leaves records and index alone.
LEMMA PersistRecentInv ==
  ASSUME QInv, PersistRecent
  PROVE  QInv'
<1>1. op' \in OpRecord /\ op'.at = "tally"
  BY OpStepNames DEF QInv, QTypeOK, PersistRecent, OpRecord
<1>2. recentFile' \in Seq(Keys) /\ faults' \in Nat
  BY DEF QInv, QTypeOK, PersistRecent, Works, Fails
<1>3. QTypeOK'
  BY <1>1, <1>2 DEF QInv, QTypeOK, PersistRecent, ramVars, ghostVars
<1> QED
  BY <1>1, <1>3, QuietInv
     DEF PersistRecent, ramVars, QuietSteps, Healthy, BootSteps

\* The counter checkpoint of finish() leaves records and index alone.
LEMMA FinishTallyInv ==
  ASSUME QInv, FinishTally
  PROVE  QInv'
<1>1. op' \in OpRecord /\ op'.at = "return"
  BY AtType, OpStepNames DEF QInv, QTypeOK, FinishTally
<1>2. nvsDropped' \in Nat /\ faults' \in Nat
  BY PersistCountersType DEF QInv, QTypeOK, FinishTally, Works
<1>3. QTypeOK'
  BY <1>1, <1>2 DEF QInv, QTypeOK, FinishTally, ramVars, ghostVars
<1> QED
  BY <1>1, <1>3, QuietInv
     DEF FinishTally, ramVars, QuietSteps, Healthy, BootSteps

\* So does the checkpoint asked for by the dashboard.
LEMMA CheckpointCountersInv ==
  ASSUME QInv, CheckpointCounters
  PROVE  QInv'
<1>1. QTypeOK'
  BY PersistCountersType
     DEF QInv, QTypeOK, CheckpointCounters, ramVars, ghostVars
<1> QED
  BY <1>1, QuietInv
     DEF CheckpointCounters, ramVars, QuietSteps, Healthy, BootSteps

\* The checkpoint that ends begin() hands over a bounded, sorted index.
LEMMA BeginCheckpointInv ==
  ASSUME QInv, BeginCheckpoint
  PROVE  QInv'
<1>1. op' \in OpRecord /\ op'.at = "idle"
  BY NoOpType, OpStepNames DEF BeginCheckpoint
<1>2. QTypeOK'
  BY <1>1, PersistCountersType
     DEF QInv, QTypeOK, BeginCheckpoint, ramVars, ghostVars
<1> QED
  BY <1>1, <1>2, QuietInv DEF BeginCheckpoint, ramVars, QuietSteps

-----------------------------------------------------------------------------
(* The actions of enqueue(). *)

\* Every entry of the index is an entry of the right type, listed rightly.
LEMMA ListedEntry ==
  ASSUME QInv, NEW i \in DOMAIN entries
  PROVE  /\ entries[i] \in Entry
         /\ IndexedRecord(entries[i])
         /\ entries[i].id \in RecordIds
         /\ entries[i].id < nextRecordId
<1>1. entries[i] \in Entry
  BY DEF QInv, QTypeOK
<1>2. IndexedRecord(entries[i])
  BY DEF QInv, IndexInv
<1> QED
  BY <1>1, <1>2 DEF IndexedRecord

\* The .tmp is no record; a write that fails on a full queue leads to
\* an eviction of an entry that exists.
LEMMA WriteTempInv ==
  ASSUME QInv, WriteTemp
  PROVE  QInv'
<1>1. op \in OpRecord /\ op.at = "write" /\ op.key \in Keys /\ nextRecordId <= MaxRecordId
  BY DEF QInv, QTypeOK, OpInv, WriteTemp
<1>2. faults' \in Nat
  BY FaultsType DEF QInv, QTypeOK, WriteTemp
<1>3. temp' \in Content
  BY <1>1 DEF QInv, QTypeOK, WriteTemp, Content
<1>4. op' \in OpRecord
  BY <1>1, AtType, WriteFailedType, OpStepNames DEF WriteTemp
<1>5. QTypeOK'
  BY <1>2, <1>3, <1>4 DEF QInv, QTypeOK, WriteTemp, ramVars, ghostVars
<1>6. UNCHANGED <<flash, entries, nextRecordId>>
  BY DEF WriteTemp, ramVars
<1>7. OpInv' /\ op'.at \in {"rename", "evictForSpace", "checkpoint", "return"}
  <2>1. CASE temp' = op.key /\ op' = [op EXCEPT !.at = "rename"]
    <3>1. op'.at = "rename" /\ op'.key = op.key
      BY <2>1, <1>1, AtType, OpStepNames
    <3> QED
      BY <3>1, <2>1, <1>1, <1>6 DEF OpInv
  <2>2. CASE op' = WriteFailed
    <3>1. /\ op'.at \in {"evictForSpace", "checkpoint", "return"}
          /\ op'.at = "evictForSpace" => Len(entries) >= Capacity
          /\ op'.key = op.key
      BY <2>2, <1>1, WriteFailedType
    <3> QED
      BY <3>1, <1>1, <1>6 DEF OpInv
  <2> QED
    BY <2>1, <2>2 DEF WriteTemp
<1>8. IndexInv'
  BY <1>1, <1>6, <1>7 DEF QInv, IndexInv, IndexedRecord, Ascending
<1> QED
  BY <1>5, <1>7, <1>8 DEF QInv

\* The new record, once its file is committed, may be listed.
LEMMA NewEntryType ==
  ASSUME QInv, op.key \in Keys
  PROVE  /\ NewEntry \in Entry
         /\ NewEntry.id = nextRecordId
         /\ NewEntry.hash = Hash[op.key]
<1>1. nextRecordId \in Nat /\ Hash[op.key] \in Nat
  BY QueueAssumption DEF QInv, QTypeOK
<1> QED
  BY <1>1 DEF NewEntry, Entry

\* The rename creates the file of the next id, which no entry names, and
\* the entry appended for it keeps the order.
LEMMA RenameTempInv ==
  ASSUME QInv, RenameTemp
  PROVE  QInv'
<1>1. /\ op \in OpRecord /\ op.at = "rename" /\ op.key \in Keys
      /\ nextRecordId <= MaxRecordId /\ temp = op.key
      /\ op.dropped \in BOOLEAN
  BY DEF QInv, QTypeOK, OpInv, RenameTemp, OpRecord
<1>2. nextRecordId \in RecordIds /\ nextRecordId \in Nat
  BY <1>1, QueueAssumption DEF QInv, QTypeOK, RecordIds
<1>3. CASE /\ Works
           /\ flash' = [flash EXCEPT ![nextRecordId] = temp]
           /\ temp' = NoFile
           /\ Len(entries) >= Capacity
           /\ op' = [op EXCEPT !.at = "evict"]
           /\ UNCHANGED <<entries, nextRecordId, discarded>>
  <2>1. op' = [op EXCEPT !.at = "evict"] /\ UNCHANGED <<entries, nextRecordId, discarded>>
    BY <1>3
  <2>2. op' \in OpRecord /\ op'.at = "evict" /\ op'.key = op.key
    BY <2>1, <1>1, AtType, OpStepNames
  <2>3. temp' \in Content /\ flash' \in [RecordIds -> Content] /\ faults' \in Nat
    BY <1>1, <1>3 DEF QInv, QTypeOK, Content, Works
  <2>4. QTypeOK'
    BY <2>1, <2>2, <2>3 DEF QInv, QTypeOK, RenameTemp
  <2>5. flash'[nextRecordId] = op.key
    BY <1>1, <1>2, <1>3 DEF QInv, QTypeOK
  <2>6. OpInv'
    BY <1>1, <1>3, <2>1, <2>2, <2>5 DEF OpInv
  <2>7. ASSUME NEW i \in DOMAIN entries
        PROVE  IndexedRecord(entries[i])'
    <3>1. flash'[entries[i].id] = flash[entries[i].id]
      BY <1>2, <1>3, ListedEntry DEF QInv, QTypeOK
    <3>2. entries'[i] = entries[i]
      BY <2>1
    <3> QED
      BY <3>1, <3>2, <2>1, <1>2, ListedEntry DEF IndexedRecord
  <2>8. IndexInv'
    BY <1>1, <2>1, <2>2, <2>7 DEF QInv, IndexInv, Ascending
  <2> QED
    BY <2>4, <2>6, <2>8 DEF QInv
<1>4. CASE /\ Works
           /\ flash' = [flash EXCEPT ![nextRecordId] = temp]
           /\ temp' = NoFile
           /\ ~(Len(entries) >= Capacity)
           /\ IndexRecord(entries)
           /\ discarded' = discarded \ {temp}
           /\ op' = EnqueueDone(TRUE, op.dropped)
  <2>1. /\ entries' = Append(entries, NewEntry)
        /\ nextRecordId' = nextRecordId + 1
        /\ discarded' = discarded \ {temp}
        /\ op' = EnqueueDone(TRUE, op.dropped)
    BY <1>4 DEF IndexRecord
  <2>2. op' \in OpRecord /\ op'.at \in {"checkpoint", "return"}
    BY <2>1, <1>1, EnqueueDoneType
  <2>3. temp' \in Content /\ flash' \in [RecordIds -> Content] /\ faults' \in Nat
    BY <1>1, <1>4 DEF QInv, QTypeOK, Content, Works
  <2>4. /\ entries \in Seq(Entry) /\ Ascending(entries)
        /\ NewEntry \in Entry
        /\ \A i \in DOMAIN entries : entries[i].id < NewEntry.id
    BY <1>1, NewEntryType, ListedEntry DEF QInv, QTypeOK, IndexInv
  <2>5. /\ entries' \in Seq(Entry)
        /\ Len(entries') = Len(entries) + 1
        /\ Ascending(entries')
        /\ \A i \in DOMAIN entries' :
             entries'[i] = NewEntry \/ \E j \in DOMAIN entries : entries'[i] = entries[j]
    BY <2>1, <2>4, AppendIndex
  <2>6. nextRecordId' \in 1 .. MaxRecordId + 1
    BY <1>1, <1>2, <2>1, QueueAssumption
  <2>7. discarded' \subseteq Content
    BY <2>1 DEF QInv, QTypeOK
  <2>8. QTypeOK'
    BY <2>2, <2>3, <2>5, <2>6, <2>7 DEF QInv, QTypeOK, RenameTemp
  <2>9. OpInv'
    BY <2>2 DEF OpInv
  <2>10. ASSUME NEW i \in DOMAIN entries'
         PROVE  IndexedRecord(entries[i])'
    <3>1. CASE entries'[i] = NewEntry
      <4>1. /\ NewEntry.id = nextRecordId /\ NewEntry.hash = Hash[op.key]
            /\ flash'[nextRecordId] = op.key
            /\ nextRecordId < nextRecordId'
            /\ op.key # NoFile
        BY <1>1, <1>2, <1>4, <2>1, NewEntryType, QueueAssumption DEF QInv, QTypeOK
      <4> QED
        BY <3>1, <4>1, <1>2 DEF IndexedRecord
    <3>2. ASSUME NEW j \in DOMAIN entries, entries'[i] = entries[j]
          PROVE  IndexedRecord(entries[i])'
      <4>1. /\ entries[j] \in Entry /\ IndexedRecord(entries[j])
            /\ flash'[entries[j].id] = flash[entries[j].id]
        BY <1>2, <1>4, ListedEntry DEF QInv, QTypeOK
      <4>2. nextRecordId' \in Nat /\ nextRecordId' >= nextRecordId
        BY <1>2, <2>1
      <4>3. IndexedRecord(entries[j]) /\ entries[j].id \in Nat
        BY <4>1 DEF Entry
      <4> QED
        BY <3>2, <4>1, <4>2, <4>3, <1>2 DEF IndexedRecord
    <3> QED
      BY <2>5, <3>1, <3>2
  <2>11. Len(entries') <= Capacity
    BY <1>4, <2>4, <2>5, QueueAssumption
  <2>12. IndexInv'
    BY <2>5, <2>10, <2>11 DEF IndexInv
  <2> QED
    BY <2>8, <2>9, <2>12 DEF QInv
<1>5. CASE /\ Fails("write")
           /\ temp' \in {NoFile, temp}
           /\ op' = WriteFailed
           /\ UNCHANGED <<flash, entries, nextRecordId, discarded>>
  <2>1. /\ op' \in OpRecord
        /\ op'.at \in {"evictForSpace", "checkpoint", "return"}
        /\ op'.at = "evictForSpace" => Len(entries) >= Capacity
        /\ op'.key = op.key
    BY <1>5, <1>1, WriteFailedType
  <2>2. temp' \in Content /\ faults' \in Nat
    BY <1>5 DEF QInv, QTypeOK, Content, Fails
  <2>3. QTypeOK'
    BY <1>5, <2>1, <2>2 DEF QInv, QTypeOK, RenameTemp
  <2>4. OpInv'
    BY <1>1, <1>5, <2>1 DEF OpInv
  <2>5. IndexInv'
    BY <1>1, <1>5, <2>1 DEF QInv, IndexInv, IndexedRecord, Ascending
  <2> QED
    BY <2>3, <2>4, <2>5 DEF QInv
<1> QED
  BY <1>3, <1>4, <1>5 DEF RenameTemp

\* Dropping the oldest record leaves the files of all other records alone.
LEMMA DropFrontFlash ==
  ASSUME QInv, DropFront, 1 \in DOMAIN entries
  PROVE  /\ flash' \in [RecordIds -> Content]
         /\ \A id \in RecordIds : id # OldestId => flash'[id] = flash[id]
         /\ statDropped' \in Nat /\ drops' \in Nat
         /\ OldestId \in RecordIds /\ OldestId < nextRecordId
         /\ OldestId \in Nat
         /\ flash[OldestId] \in Content
<1>1. OldestId \in RecordIds /\ OldestId < nextRecordId
  BY ListedEntry DEF OldestId
<1>2. NoFile \in Content
  BY DEF Content
<1>3. OldestId \in Nat
  BY <1>1 DEF RecordIds
<1>4. flash \in [RecordIds -> Content] /\ flash' = [flash EXCEPT ![OldestId] = NoFile]
  BY DEF QInv, QTypeOK, DropFront
<1>5. statDropped' \in Nat /\ drops' \in Nat
  BY DEF QInv, QTypeOK, DropFront
<1> QED
  BY <1>1, <1>2, <1>3, <1>4, <1>5

\* What is left of the index after the oldest record has been dropped.
LEMMA DropFrontIndex ==
  ASSUME QInv, DropFront, 1 \in DOMAIN entries, Ascending(entries),
         nextRecordId' \in Nat, nextRecordId' >= nextRecordId
  PROVE  /\ Tail(entries) \in Seq(Entry)
         /\ Len(Tail(entries)) = Len(entries) - 1
         /\ Ascending(Tail(entries))
         /\ \A i \in DOMAIN Tail(entries) :
              /\ Tail(entries)[i].id < nextRecordId
              /\ Tail(entries)[i] \in Entry
              /\ Tail(entries)[i].id \in RecordIds
              /\ flash[Tail(entries)[i].id] = flash'[Tail(entries)[i].id]
              /\ IndexedRecord(Tail(entries)[i])
<1> DEFINE t == Tail(entries)
<1>1. entries \in Seq(Entry) /\ entries # <<>>
  BY DEF QInv, QTypeOK
<1>2. /\ t \in Seq(Entry)
      /\ Len(t) = Len(entries) - 1
      /\ Ascending(t)
      /\ \A i \in DOMAIN t :
           /\ \E j \in DOMAIN entries : t[i] = entries[j]
           /\ t[i].id # entries[1].id
  BY <1>1, TailIndex
<1> HIDE DEF t
<1>3. ASSUME NEW i \in DOMAIN t
      PROVE  /\ t[i].id < nextRecordId
             /\ t[i] \in Entry
             /\ t[i].id \in RecordIds
             /\ flash[t[i].id] = flash'[t[i].id]
             /\ IndexedRecord(t[i])
  <2>1. PICK j \in DOMAIN entries : t[i] = entries[j]
    BY <1>2
  <2>2. /\ t[i] \in Entry /\ IndexedRecord(t[i])
        /\ t[i].id \in RecordIds /\ t[i].id < nextRecordId
    BY <2>1, ListedEntry
  <2>3. t[i].id # OldestId
    BY <1>2 DEF OldestId
  <2> QED
    BY <2>2, <2>3, DropFrontFlash
<1> QED
  BY <1>2, <1>3 DEF t

\* The steps that drop the oldest record and list no other one.
LEMMA DropFrontInv ==
  ASSUME QInv, DropFront, 1 \in DOMAIN entries, Ascending(entries),
         entries' = Tail(entries), nextRecordId' = nextRecordId
  PROVE  /\ entries' \in Seq(Entry)
         /\ Len(entries') = Len(entries) - 1
         /\ Ascending(entries')
         /\ \A i \in DOMAIN entries' : IndexedRecord(entries[i])'
<1>1. nextRecordId \in Nat /\ nextRecordId' \in Nat /\ nextRecordId' >= nextRecordId
  BY DEF QInv, QTypeOK
<1>2. /\ entries' \in Seq(Entry)
      /\ Len(entries') = Len(entries) - 1
      /\ Ascending(entries')
      /\ \A i \in DOMAIN entries' :
           /\ IndexedRecord(entries'[i])
           /\ flash[entries'[i].id] = flash'[entries'[i].id]
  BY <1>1, DropFrontIndex
<1>3. ASSUME NEW i \in DOMAIN entries'
      PROVE  IndexedRecord(entries[i])'
  BY <1>2 DEF IndexedRecord
<1> QED
  BY <1>2, <1>3

\* Dropping the front for space removes its file and its entry together.
LEMMA EvictForSpaceInv ==
  ASSUME QInv, EvictForSpace
  PROVE  QInv'
<1>1. /\ op \in OpRecord /\ op.at = "evictForSpace" /\ op.key \in Keys
      /\ nextRecordId <= MaxRecordId
      /\ Len(entries) >= Capacity /\ Ascending(entries)
      /\ Len(entries) <= Capacity
  BY DEF QInv, QTypeOK, OpInv, IndexInv, EvictForSpace
<1>2. nextRecordId' = nextRecordId
  BY DEF EvictForSpace
<1>3. CASE /\ Works
           /\ DropFront
           /\ entries' = Tail(entries)
           /\ discarded' = discarded \cup {flash[OldestId]}
           /\ op' = [op EXCEPT !.at = "write", !.retried = TRUE, !.dropped = TRUE]
  <2>1. op' \in OpRecord /\ op'.at = "write" /\ op'.key = op.key
    BY <1>1, <1>3, OpStepNames DEF OpRecord
  <2>2. 1 \in DOMAIN entries
    BY <1>1, OldestRecord
  <2>3. /\ flash' \in [RecordIds -> Content]
        /\ statDropped' \in Nat /\ drops' \in Nat
        /\ flash[OldestId] \in Content
    BY <1>3, <2>2, DropFrontFlash
  <2>4. faults' \in Nat /\ discarded' \subseteq Content
    BY <1>3, <2>3 DEF QInv, QTypeOK, Works
  <2>5. /\ entries' \in Seq(Entry)
        /\ Len(entries') = Len(entries) - 1
        /\ Ascending(entries')
        /\ \A i \in DOMAIN entries' : IndexedRecord(entries[i])'
    BY <1>1, <1>2, <1>3, <2>2, DropFrontInv
  <2>6. QTypeOK'
    BY <2>1, <2>3, <2>4, <2>5 DEF QInv, QTypeOK, EvictForSpace
  <2>7. OpInv'
    BY <1>1, <1>2, <2>1 DEF OpInv
  <2>8. Len(entries') <= Capacity
    BY <1>1, <2>5, QueueAssumption DEF QInv, QTypeOK
  <2>9. IndexInv'
    BY <2>5, <2>8 DEF IndexInv
  <2> QED
    BY <2>6, <2>7, <2>9 DEF QInv
<1>4. CASE /\ Fails("remove")
           /\ op' = EnqueueDone(FALSE, FALSE)
           /\ UNCHANGED <<flash, entries, statDropped, discarded, drops>>
  <2>1. op' \in OpRecord /\ op'.at \in {"checkpoint", "return"}
    BY <1>1, <1>4, EnqueueDoneType
  <2>2. faults' \in Nat
    BY <1>4 DEF QInv, QTypeOK, Fails
  <2>3. QTypeOK'
    BY <1>4, <2>1, <2>2 DEF QInv, QTypeOK, EvictForSpace
  <2>4. OpInv'
    BY <2>1 DEF OpInv
  <2>5. IndexInv'
    BY <1>1, <1>2, <1>4 DEF QInv, IndexInv, IndexedRecord, Ascending
  <2> QED
    BY <2>3, <2>4, <2>5 DEF QInv
<1> QED
  BY <1>3, <1>4 DEF EvictForSpace

\* Dropping the front for the bound, and indexing the new record.
LEMMA EvictInv ==
  ASSUME QInv, Evict
  PROVE  QInv'
<1>1. /\ op \in OpRecord /\ op.at = "evict" /\ op.key \in Keys
      /\ nextRecordId <= MaxRecordId
      /\ Len(entries) >= Capacity /\ Ascending(entries)
      /\ Len(entries) <= Capacity
      /\ flash[nextRecordId] \in {op.key, Damaged}
  BY DEF QInv, QTypeOK, OpInv, IndexInv, Evict
<1>2. nextRecordId \in RecordIds /\ nextRecordId \in Nat
  BY <1>1, QueueAssumption DEF QInv, QTypeOK, RecordIds
<1>3. CASE /\ Works
           /\ DropFront
           /\ IndexRecord(Tail(entries))
           /\ discarded' = (discarded \cup {flash[OldestId]}) \ {flash[nextRecordId]}
           /\ op' = EnqueueDone(TRUE, TRUE)
  <2> DEFINE t == Tail(entries)
  <2>1. op' \in OpRecord /\ op'.at \in {"checkpoint", "return"}
    BY <1>1, <1>3, EnqueueDoneType
  <2>2. 1 \in DOMAIN entries
    BY <1>1, OldestRecord
  <2>3. /\ flash' \in [RecordIds -> Content]
        /\ statDropped' \in Nat /\ drops' \in Nat
        /\ flash[OldestId] \in Content
        /\ flash'[nextRecordId] = flash[nextRecordId]
    BY <1>2, <1>3, <2>2, DropFrontFlash
  <2>4. faults' \in Nat /\ discarded' \subseteq Content
    BY <1>3, <2>3 DEF QInv, QTypeOK, Works
  <2>5. /\ entries' = Append(t, NewEntry)
        /\ nextRecordId' = nextRecordId + 1
        /\ nextRecordId' \in Nat /\ nextRecordId' >= nextRecordId
    BY <1>2, <1>3 DEF IndexRecord
  <2>6. nextRecordId' \in 1 .. MaxRecordId + 1
    BY <1>1, <1>2, <2>5, QueueAssumption
  <2>7. /\ t \in Seq(Entry)
        /\ Len(t) = Len(entries) - 1
        /\ Ascending(t)
        /\ \A i \in DOMAIN t :
             /\ t[i].id < nextRecordId
             /\ t[i] \in Entry
             /\ t[i].id \in RecordIds
             /\ flash[t[i].id] = flash'[t[i].id]
             /\ IndexedRecord(t[i])
    BY <1>1, <1>3, <2>2, <2>5, DropFrontIndex
  <2> HIDE DEF t
  <2>8. /\ NewEntry \in Entry /\ NewEntry.id = nextRecordId
        /\ NewEntry.hash = Hash[op.key]
    BY <1>1, NewEntryType
  <2>9. /\ entries' \in Seq(Entry)
        /\ Len(entries') = Len(t) + 1
        /\ Ascending(entries')
        /\ \A i \in DOMAIN entries' :
             entries'[i] = NewEntry \/ \E j \in DOMAIN t : entries'[i] = t[j]
    BY <2>5, <2>7, <2>8, AppendIndex
  <2>10. QTypeOK'
    BY <2>1, <2>3, <2>4, <2>6, <2>9 DEF QInv, QTypeOK, Evict
  <2>11. OpInv'
    BY <2>1 DEF OpInv
  <2>12. ASSUME NEW i \in DOMAIN entries'
         PROVE  IndexedRecord(entries[i])'
    <3>1. CASE entries'[i] = NewEntry
      <4>1. /\ nextRecordId < nextRecordId'
            /\ flash'[nextRecordId] # NoFile
            /\ flash'[nextRecordId] \in Keys => flash'[nextRecordId] = op.key
        BY <1>1, <1>2, <2>3, <2>5, QueueAssumption
      <4> QED
        BY <3>1, <4>1, <1>2, <2>8 DEF IndexedRecord
    <3>2. ASSUME NEW j \in DOMAIN t, entries'[i] = t[j]
          PROVE  IndexedRecord(entries[i])'
      <4>1. t[j].id \in Nat /\ t[j].id < nextRecordId'
        BY <1>2, <2>5, <2>7 DEF RecordIds
      <4> QED
        BY <3>2, <4>1, <2>7 DEF IndexedRecord
    <3> QED
      BY <2>9, <3>1, <3>2
  <2>13. Len(entries') <= Capacity
    BY <1>1, <2>7, <2>9, QueueAssumption DEF QInv, QTypeOK
  <2>14. IndexInv'
    BY <2>9, <2>12, <2>13 DEF IndexInv
  <2> QED
    BY <2>10, <2>11, <2>14 DEF QInv
<1>4. CASE /\ Fails("remove")
           /\ op' = [op EXCEPT !.at = "withdraw"]
           /\ UNCHANGED <<flash, entries, nextRecordId, statDropped, discarded,
                          drops>>
  <2>1. op' \in OpRecord /\ op'.at = "withdraw" /\ op'.key = op.key
    BY <1>1, <1>4, AtType, OpStepNames
  <2>2. faults' \in Nat
    BY <1>4 DEF QInv, QTypeOK, Fails
  <2>3. QTypeOK'
    BY <1>4, <2>1, <2>2 DEF QInv, QTypeOK, Evict
  <2>4. OpInv'
    BY <1>1, <1>4, <2>1 DEF OpInv
  <2>5. IndexInv'
    BY <1>1, <1>4, <2>1 DEF QInv, IndexInv, IndexedRecord, Ascending
  <2> QED
    BY <2>3, <2>4, <2>5 DEF QInv
<1> QED
  BY <1>3, <1>4 DEF Evict

\* The file that is taken back was never indexed.
LEMMA WithdrawInv ==
  ASSUME QInv, Withdraw
  PROVE  QInv'
<1>1. /\ op \in OpRecord /\ op.at = "withdraw"
      /\ op.dropped \in BOOLEAN
      /\ nextRecordId <= MaxRecordId
  BY DEF QInv, QTypeOK, OpInv, OpRecord, Withdraw
<1>2. nextRecordId \in RecordIds /\ nextRecordId \in Nat
  BY <1>1, QueueAssumption DEF QInv, QTypeOK, RecordIds
<1>3. op' \in OpRecord /\ op'.at \in {"checkpoint", "return"}
  BY <1>1, EnqueueDoneType DEF Withdraw
<1>4. faults' \in Nat
  BY DEF QInv, QTypeOK, Works, Fails, Withdraw
<1>5. /\ flash' \in [RecordIds -> Content]
      /\ \A id \in RecordIds : id # nextRecordId => flash'[id] = flash[id]
  BY <1>2 DEF QInv, QTypeOK, Content, Withdraw
<1>6. UNCHANGED <<entries, nextRecordId>>
  BY DEF Withdraw, ramVars
<1>7. QTypeOK'
  BY <1>3, <1>4, <1>5 DEF QInv, QTypeOK, Withdraw, ramVars, ghostVars
<1>8. OpInv'
  BY <1>3 DEF OpInv
<1>9. ASSUME NEW i \in DOMAIN entries
      PROVE  IndexedRecord(entries[i])'
  <2>1. entries[i].id \in RecordIds /\ entries[i].id # nextRecordId
    BY <1>2, ListedEntry
  <2>2. flash'[entries[i].id] = flash[entries[i].id] /\ IndexedRecord(entries[i])
    BY <1>5, <2>1, ListedEntry
  <2> QED
    BY <1>6, <2>2 DEF IndexedRecord
<1>10. IndexInv'
  BY <1>1, <1>6, <1>9 DEF QInv, IndexInv, Ascending
<1> QED
  BY <1>7, <1>8, <1>10 DEF QInv

-----------------------------------------------------------------------------
(* The action of finish() that removes a record. *)

\* Where the loop of finish() goes next, and that it keeps its type.
LEMMA FinishNextType ==
  ASSUME op \in OpRecord, NEW a, NEW ok \in BOOLEAN, NEW changed \in BOOLEAN
  PROVE  /\ FinishNext(a, ok, changed) \in OpRecord
         /\ FinishNext(a, ok, changed).at \in {"remove", "persistRecent", "tally"}
<1>1. (IF op.todo # {a} THEN "remove"
       ELSE IF changed THEN "persistRecent" ELSE "tally") \in OpSteps
  BY OpStepNames
<1>2. op.todo \ {a} \in SUBSET Action
  BY DEF OpRecord
<1> QED
  BY <1>1, <1>2 DEF OpRecord, FinishNext

\* A removed record leaves the index with its file; the others stay.
LEMMA FinishRemoveInv ==
  ASSUME QInv, NEW a \in op.todo, FinishRemove(a)
  PROVE  QInv'
<1>1. /\ op \in OpRecord /\ op.at = "remove"
      /\ op.ok \in BOOLEAN /\ op.changed \in BOOLEAN
      /\ a.key \in Keys
  BY DEF QInv, QTypeOK, OpRecord, Action, FinishRemove
<1>2. nextRecordId' = nextRecordId
  BY DEF FinishRemove
<1>3. ASSUME NEW i \in DOMAIN entries,
             entries[i].id = a.id,
             Works,
             flash' = [flash EXCEPT ![a.id] = NoFile],
             entries' = RemoveAt(entries, i),
             recent' = Remember(recent, a.key),
             op' = FinishNext(a, op.ok, op.changed \/ ~Contains(recent, a.key))
      PROVE  QInv'
  <2>1. op' \in OpRecord /\ op'.at \in {"remove", "persistRecent", "tally"}
    BY <1>1, <1>3, FinishNextType
  <2>2. recent' \in Seq(Keys)
    BY <1>1, <1>3, RememberProperties DEF QInv, QTypeOK
  <2>3. /\ flash' \in [RecordIds -> Content]
        /\ \A id \in RecordIds : id # a.id => flash'[id] = flash[id]
    BY <1>3 DEF QInv, QTypeOK, Content
  <2>4. faults' \in Nat
    BY <1>3 DEF QInv, QTypeOK, Works
  <2>5. entries \in Seq(Entry) /\ Ascending(entries) /\ Len(entries) <= Capacity
    BY <1>1 DEF QInv, QTypeOK, IndexInv
  <2>6. /\ entries' \in Seq(Entry)
        /\ Len(entries') = Len(entries) - 1
        /\ Ascending(entries')
        /\ \A k \in DOMAIN entries' :
             /\ \E j \in DOMAIN entries : entries'[k] = entries[j]
             /\ entries'[k].id # entries[i].id
    BY <1>3, <2>5, RemoveAtIndex
  <2>7. QTypeOK'
    BY <1>2, <2>1, <2>2, <2>3, <2>4, <2>6
       DEF QInv, QTypeOK, FinishRemove, ghostVars
  <2>8. OpInv'
    BY <2>1 DEF OpInv
  <2>9. ASSUME NEW k \in DOMAIN entries'
        PROVE  IndexedRecord(entries[k])'
    <3>1. PICK j \in DOMAIN entries : entries'[k] = entries[j]
      BY <2>6
    <3>2. entries[j].id \in RecordIds /\ entries[j].id # a.id /\ IndexedRecord(entries[j])
      BY <1>3, <2>6, <3>1, ListedEntry
    <3>3. flash'[entries[j].id] = flash[entries[j].id]
      BY <2>3, <3>2
    <3> QED
      BY <1>2, <3>1, <3>2, <3>3 DEF IndexedRecord
  <2>10. Len(entries') <= Capacity
    BY <2>5, <2>6, QueueAssumption
  <2>11. IndexInv'
    BY <2>6, <2>9, <2>10 DEF IndexInv
  <2> QED
    BY <2>7, <2>8, <2>11 DEF QInv
<1>4. CASE /\ \/ a.id \notin IdsOf(entries) /\ Works
              \/ a.id \in IdsOf(entries) /\ Fails("remove")
           /\ op' = FinishNext(a, FALSE, op.changed)
           /\ UNCHANGED <<flash, entries, recent>>
  <2>1. op' \in OpRecord /\ op'.at \in {"remove", "persistRecent", "tally"}
    BY <1>1, <1>4, FinishNextType
  <2>2. faults' \in Nat
    BY <1>4, FaultsType DEF QInv, QTypeOK
  <2>3. QTypeOK'
    BY <1>2, <1>4, <2>1, <2>2 DEF QInv, QTypeOK, FinishRemove, ghostVars
  <2>4. OpInv'
    BY <2>1 DEF OpInv
  <2>5. IndexInv'
    BY <1>1, <1>2, <1>4 DEF QInv, IndexInv, IndexedRecord, Ascending
  <2> QED
    BY <2>3, <2>4, <2>5 DEF QInv
<1> QED
  BY <1>3, <1>4 DEF FinishRemove

-----------------------------------------------------------------------------
(* The actions of begin(). *)

\* A mount, or a format, starts the scan with an empty index.
LEMMA BeginInv ==
  ASSUME QInv, Begin
  PROVE  QInv'
<1>1. op.at = "off" /\ entries = <<>> /\ UNCHANGED <<entries, nextRecordId>>
  BY DEF QInv, OpInv, Begin, ramVars
<1>2. QTypeOK' /\ op'.at \in {"scan", "failed"}
  <2>1. CASE /\ MountFilesystem
             /\ fsReady' = TRUE
             /\ temp' \in {NoFile, temp}
             /\ op' = [NoOp("scan") EXCEPT
                         !.scan = {i \in RecordIds : flash'[i] # NoFile}]
    <3>1. NoOp("scan") \in OpRecord /\ NoOp("scan").at = "scan"
      BY NoOpType, OpStepNames
    <3>2. op' \in OpRecord /\ op'.at = "scan"
      <4> DEFINE o == NoOp("scan")
                 sc == {i \in RecordIds : flash'[i] # NoFile}
      <4>1. /\ o \in OpRecord /\ o.at = "scan" /\ sc \in SUBSET RecordIds
            /\ op' = [o EXCEPT !.scan = sc]
        BY <2>1, <3>1
      <4> HIDE DEF o, sc
      <4> QED
        BY <4>1 DEF OpRecord
    <3>3. flash' \in [RecordIds -> Content] /\ temp' \in Content
      BY <2>1 DEF QInv, QTypeOK, MountFilesystem, Content
    <3>4. recentFile' \in Seq(Keys) /\ faults' \in Nat
      <4>1. recentFile' = recentFile \/ recentFile' = <<>>
        BY <2>1 DEF MountFilesystem
      <4>2. <<>> \in Seq(Keys)
        OBVIOUS
      <4>3. recentFile' \in Seq(Keys)
        BY <4>1, <4>2 DEF QInv, QTypeOK
      <4>4. faults' \in Nat
        BY <2>1 DEF QInv, QTypeOK, MountFilesystem, Works, Fails
      <4> QED
        BY <4>3, <4>4
    <3>5. fsReady' \in BOOLEAN
      BY <2>1
    <3>6. QTypeOK'
      BY <3>2, <3>3, <3>4, <3>5 DEF QInv, QTypeOK, Begin, ramVars, ghostVars
    <3> QED
      BY <3>2, <3>6
  <2>2. CASE /\ Fails("mount") \/ Fails("nvs") \/ Fails("read")
             /\ temp' \in {NoFile, temp}
             /\ op' = NoOp("failed")
             /\ UNCHANGED <<flash, recentFile, fsReady>>
    <3>1. op' \in OpRecord /\ op'.at = "failed"
      BY <2>2, NoOpType, OpStepNames
    <3>2. faults' \in Nat /\ temp' \in Content
      BY <2>2 DEF QInv, QTypeOK, Fails, Content
    <3>3. QTypeOK'
      BY <2>2, <3>1, <3>2 DEF QInv, QTypeOK, Begin, ramVars, ghostVars
    <3> QED
      BY <3>1, <3>3
  <2> QED
    BY <2>1, <2>2 DEF Begin
<1>3. OpInv'
  BY <1>1, <1>2 DEF OpInv
<1>4. IndexInv'
  BY <1>1, <1>2 DEF IndexInv, Ascending
<1> QED
  BY <1>2, <1>3, <1>4 DEF QInv

\* A recovered file is indexed under its own id and hash, and the next
\* id stays above it; a rejected file was not indexed.
LEMMA RecoverRecordInv ==
  ASSUME QInv, NEW id \in op.scan, RecoverRecord(id)
  PROVE  QInv'
<1>1. /\ op \in OpRecord /\ op.at = "scan" /\ op.scan \subseteq RecordIds
      /\ id \in RecordIds /\ entries \in Seq(Entry)
      /\ \A i \in DOMAIN entries : entries[i].id \notin op.scan
      /\ flash \in [RecordIds -> Content]
      /\ nextRecordId \in 1 .. MaxRecordId + 1
  BY DEF QInv, QTypeOK, OpInv, OpRecord, RecoverRecord
<1>2. CASE /\ flash[id] \in Keys
           /\ Works
           /\ entries' = Append(entries, [id |-> id, hash |-> Hash[flash[id]]])
           /\ nextRecordId' = IF id >= nextRecordId THEN id + 1 ELSE nextRecordId
           /\ op' = [op EXCEPT !.scan = op.scan \ {id}]
           /\ discarded' = discarded \ {flash[id]}
           /\ UNCHANGED flash
  <2> DEFINE e == [id |-> id, hash |-> Hash[flash[id]]]
  <2>1. op' \in OpRecord /\ op'.at = "scan" /\ op'.scan = op.scan \ {id}
    BY <1>1, <1>2 DEF OpRecord
  <2>2. e \in Entry /\ e.id = id /\ e.hash = Hash[flash[id]] /\ id \in Nat
    <3>1. id \in Nat /\ Hash[flash[id]] \in Nat
      BY <1>1, <1>2, QueueAssumption DEF RecordIds
    <3> QED
      BY <3>1 DEF Entry
  <2>3. entries' = Append(entries, e)
    BY <1>2
  <2> HIDE DEF e
  <2>4. /\ entries' \in Seq(Entry)
        /\ \A i \in DOMAIN entries' :
             entries'[i] = e \/ \E j \in DOMAIN entries : entries'[i] = entries[j]
    BY <1>1, <2>2, <2>3, AppendEntry
  <2>5. /\ nextRecordId' \in 1 .. MaxRecordId + 1
        /\ nextRecordId' >= nextRecordId
        /\ id < nextRecordId'
    BY <1>1, <1>2, QueueAssumption DEF RecordIds
  <2>6. faults' \in Nat /\ discarded' \subseteq Content
    BY <1>2 DEF QInv, QTypeOK, Works
  <2>7. QTypeOK'
    BY <1>2, <2>1, <2>4, <2>5, <2>6 DEF QInv, QTypeOK, RecoverRecord
  <2>8. OpInv'
    BY <1>1, <2>1, <2>2, <2>4 DEF OpInv
  <2>9. ASSUME NEW i \in DOMAIN entries'
        PROVE  IndexedRecord(entries[i])'
    <3>1. CASE entries'[i] = e
      <4>1. flash'[id] = flash[id] /\ flash'[id] # NoFile
        BY <1>2, QueueAssumption
      <4> QED
        BY <1>1, <2>2, <2>5, <3>1, <4>1 DEF IndexedRecord
    <3>2. ASSUME NEW j \in DOMAIN entries, entries'[i] = entries[j]
          PROVE  IndexedRecord(entries[i])'
      <4>1. /\ entries[j].id \in RecordIds /\ entries[j].id < nextRecordId
            /\ IndexedRecord(entries[j])
        BY ListedEntry
      <4>2. entries[j].id < nextRecordId'
        BY <1>1, <2>5, <4>1 DEF RecordIds
      <4> QED
        BY <1>2, <3>2, <4>1, <4>2 DEF IndexedRecord
    <3> QED
      BY <2>4, <3>1, <3>2
  <2>10. IndexInv'
    BY <2>1, <2>9 DEF IndexInv
  <2> QED
    BY <2>7, <2>8, <2>10 DEF QInv
<1>3. CASE /\ \/ flash[id] \notin Keys /\ Works
                 /\ flash' = [flash EXCEPT ![id] = NoFile]
              \/ flash[id] \notin Keys /\ Fails("remove") /\ UNCHANGED flash
              \/ flash[id] \in Keys /\ Fails("read")
                 /\ flash' \in {flash, [flash EXCEPT ![id] = NoFile]}
           /\ discarded' = discarded \cup {flash[id]}
           /\ op' = [op EXCEPT !.scan = op.scan \ {id}, !.changed = TRUE]
           /\ UNCHANGED <<entries, nextRecordId>>
  <2>1. op' \in OpRecord /\ op'.at = "scan" /\ op'.scan = op.scan \ {id}
    BY <1>1, <1>3 DEF OpRecord
  <2>2. /\ flash' \in [RecordIds -> Content]
        /\ \A j \in RecordIds : j # id => flash'[j] = flash[j]
    <3>1. flash' \in {flash, [flash EXCEPT ![id] = NoFile]}
      BY <1>3
    <3>2. NoFile \in Content
      BY DEF Content
    <3> QED
      BY <1>1, <3>1, <3>2
  <2>3. discarded' \subseteq Content
    BY <1>1, <1>3 DEF QInv, QTypeOK
  <2>4. faults' \in Nat
    BY <1>3 DEF QInv, QTypeOK, Works, Fails
  <2>5. QTypeOK'
    BY <1>3, <2>1, <2>2, <2>3, <2>4 DEF QInv, QTypeOK, RecoverRecord
  <2>6. OpInv'
    BY <1>1, <1>3, <2>1 DEF OpInv
  <2>7. ASSUME NEW i \in DOMAIN entries
        PROVE  IndexedRecord(entries[i])'
    <3>1. entries[i].id # id /\ entries[i].id \in RecordIds /\ IndexedRecord(entries[i])
      BY <1>1, ListedEntry
    <3>2. flash'[entries[i].id] = flash[entries[i].id]
      BY <2>2, <3>1
    <3> QED
      BY <1>3, <3>1, <3>2 DEF IndexedRecord
  <2>8. IndexInv'
    BY <1>3, <2>1, <2>7 DEF IndexInv
  <2> QED
    BY <2>5, <2>6, <2>8 DEF QInv
<1> QED
  BY <1>2, <1>3 DEF RecoverRecord

\* Sorting keeps the entries and puts them in ascending order.
LEMMA RecoverSortInv ==
  ASSUME QInv, RecoverSort
  PROVE  QInv'
<1>1. /\ op \in OpRecord /\ op' = [op EXCEPT !.at = "trim"]
      /\ entries \in Seq(Entry)
      /\ UNCHANGED <<flash, nextRecordId>>
  BY DEF QInv, QTypeOK, RecoverSort, flashVars
<1>2. op' \in OpRecord /\ op'.at = "trim"
  BY <1>1, AtType, OpStepNames
<1>3. /\ entries' \in [1 .. Len(entries) -> {entries[i] : i \in DOMAIN entries}]
      /\ Ascending(entries')
  BY DEF RecoverSort, SortedPermutations
<1>4. \A j \in 1 .. Len(entries) : \E i \in DOMAIN entries : entries'[j] = entries[i]
  BY <1>3
<1>5. \A j \in 1 .. Len(entries) : entries'[j] \in Entry
  BY <1>4, ListedEntry
<1>6. DOMAIN entries' = 1 .. Len(entries) /\ Len(entries) \in Nat
  BY <1>1, <1>3
<1>7. entries' \in [1 .. Len(entries) -> Entry]
  BY <1>3, <1>5
<1>8. entries' \in Seq(Entry)
  BY <1>6, <1>7, SeqDef
<1>9. QTypeOK'
  BY <1>2, <1>8 DEF QInv, QTypeOK, RecoverSort, flashVars, ghostVars
<1>10. OpInv'
  BY <1>2 DEF OpInv
<1>11. ASSUME NEW j \in DOMAIN entries'
       PROVE  IndexedRecord(entries[j])'
  <2>1. PICK i \in DOMAIN entries : entries'[j] = entries[i]
    BY <1>4, <1>6
  <2>2. IndexedRecord(entries[i])
    BY ListedEntry
  <2> QED
    BY <1>1, <2>1, <2>2 DEF IndexedRecord
<1>12. IndexInv'
  BY <1>2, <1>3, <1>11 DEF IndexInv
<1> QED
  BY <1>9, <1>10, <1>12 DEF QInv

\* Trimming drops files and entries from the front together.
LEMMA RecoverTrimInv ==
  ASSUME QInv, RecoverTrim
  PROVE  QInv'
<1>1. /\ op \in OpRecord /\ op.at = "trim"
      /\ Len(entries) >= Capacity /\ Ascending(entries)
      /\ nextRecordId' = nextRecordId
  BY QueueAssumption DEF QInv, QTypeOK, IndexInv, RecoverTrim
<1>2. CASE /\ Works
           /\ DropFront
           /\ entries' = Tail(entries)
           /\ discarded' = discarded \cup {flash[OldestId]}
           /\ op' = [op EXCEPT !.changed = TRUE]
  <2>1. op' \in OpRecord /\ op'.at = "trim"
    BY <1>1, <1>2 DEF OpRecord
  <2>2. 1 \in DOMAIN entries
    BY <1>1, OldestRecord
  <2>3. /\ flash' \in [RecordIds -> Content]
        /\ statDropped' \in Nat /\ drops' \in Nat
        /\ flash[OldestId] \in Content
    BY <1>2, <2>2, DropFrontFlash
  <2>4. faults' \in Nat /\ discarded' \subseteq Content
    BY <1>2, <2>3 DEF QInv, QTypeOK, Works
  <2>5. /\ entries' \in Seq(Entry)
        /\ Ascending(entries')
        /\ \A i \in DOMAIN entries' : IndexedRecord(entries[i])'
    BY <1>1, <1>2, <2>2, DropFrontInv
  <2>6. QTypeOK'
    BY <1>1, <2>1, <2>3, <2>4, <2>5 DEF QInv, QTypeOK, RecoverTrim
  <2>7. OpInv'
    BY <2>1 DEF OpInv
  <2>8. IndexInv'
    BY <2>1, <2>5 DEF IndexInv
  <2> QED
    BY <2>6, <2>7, <2>8 DEF QInv
<1>3. CASE /\ Fails("remove")
           /\ op' = NoOp("failed")
           /\ UNCHANGED <<flash, entries, statDropped, discarded, drops>>
  <2>1. op' \in OpRecord /\ op'.at = "failed"
    BY <1>3, NoOpType, OpStepNames
  <2>2. faults' \in Nat
    BY <1>3 DEF QInv, QTypeOK, Fails
  <2>3. QTypeOK'
    BY <1>3, <2>1, <2>2 DEF QInv, QTypeOK, RecoverTrim
  <2>4. OpInv'
    BY <2>1 DEF OpInv
  <2>5. IndexInv'
    BY <1>1, <1>3, <2>1 DEF QInv, IndexInv, IndexedRecord, Ascending
  <2> QED
    BY <2>3, <2>4, <2>5 DEF QInv
<1> QED
  BY <1>2, <1>3 DEF RecoverTrim

\* Loading the counters needs the bound restored and keeps it.
LEMMA LoadCountersInv ==
  ASSUME QInv, LoadCounters
  PROVE  QInv'
<1>1. /\ op \in OpRecord /\ op.at = "trim" /\ Len(entries) <= Capacity
      /\ UNCHANGED <<flash, temp, entries, nextRecordId>>
  BY DEF LoadCounters, flashVars, QInv, QTypeOK
<1>2. op' \in OpRecord /\ op'.at = "loadRecent"
  BY <1>1, AtType, OpStepNames DEF LoadCounters
<1>3. statDropped' \in Nat /\ faults' \in Nat
  BY DEF QInv, QTypeOK, LoadCounters, Works, Fails
<1>4. QTypeOK'
  BY <1>2, <1>3 DEF QInv, QTypeOK, LoadCounters, flashVars, ghostVars
<1>5. OpInv'
  BY <1>2 DEF OpInv
<1>6. IndexInv'
  BY <1>1, <1>2 DEF QInv, IndexInv, IndexedRecord, Ascending
<1> QED
  BY <1>4, <1>5, <1>6 DEF QInv

\* The ring does not touch the index.
LEMMA LoadRecentInv ==
  ASSUME QInv, LoadRecent
  PROVE  QInv'
<1>1. op.at = "loadRecent" /\ UNCHANGED <<flash, temp, entries, nextRecordId>>
  BY DEF LoadRecent
<1>2. op' \in OpRecord /\ op'.at \in {"bootCheckpoint", "idle"}
  <2>1. op' = NoOp("bootCheckpoint") \/ op' = NoOp("idle")
    BY DEF LoadRecent
  <2> QED
    BY <2>1, NoOpType, OpStepNames
<1>3. recent' \in Seq(Keys) /\ recentFile' \in Seq(Keys) /\ faults' \in Nat
  <2>1. <<>> \in Seq(Keys)
    OBVIOUS
  <2>2. recent' \in {recentFile, <<>>} /\ recentFile' \in {recentFile, <<>>}
    BY DEF LoadRecent
  <2>3. recent' \in Seq(Keys) /\ recentFile' \in Seq(Keys)
    BY <2>1, <2>2 DEF QInv, QTypeOK
  <2>4. faults' \in Nat
    BY DEF QInv, QTypeOK, LoadRecent, Works, Fails
  <2> QED
    BY <2>3, <2>4
<1>4. QTypeOK'
  BY <1>2, <1>3 DEF QInv, QTypeOK, LoadRecent, ghostVars
<1>5. OpInv'
  BY <1>2 DEF OpInv
<1>6. IndexInv'
  BY <1>1, <1>2 DEF QInv, IndexInv, IndexedRecord, Ascending
<1> QED
  BY <1>4, <1>5, <1>6 DEF QInv

-----------------------------------------------------------------------------
(* The environment. *)

\* After a power loss there is no index to disagree with the files.
LEMMA PowerLossInv ==
  ASSUME QInv, PowerLoss
  PROVE  QInv'
<1>1. op' \in OpRecord /\ op'.at = "off"
  BY NoOpType, OpStepNames DEF PowerLoss
<1>2. temp' \in Content
  BY DEF QInv, QTypeOK, PowerLoss, Content
<1>3. nextRecordId' \in 1 .. MaxRecordId + 1 /\ crashes' \in Nat /\ statDropped' \in Nat
  BY QueueAssumption DEF QInv, QTypeOK, PowerLoss
<1>4. entries' = <<>> /\ recent' = <<>>
  BY DEF PowerLoss
<1>5. QTypeOK'
  BY <1>1, <1>2, <1>3, <1>4 DEF QInv, QTypeOK, PowerLoss, ghostVars
<1>6. OpInv'
  BY <1>1, <1>4 DEF OpInv
<1>7. IndexInv'
  BY <1>1, <1>4 DEF IndexInv, Ascending
<1> QED
  BY <1>5, <1>6, <1>7 DEF QInv

\* A file that decays is still a file, and nobody asks for its hash.
LEMMA MediaDecayInv ==
  ASSUME QInv, NEW id \in RecordIds, MediaDecay(id)
  PROVE  QInv'
<1>1. /\ flash \in [RecordIds -> Content]
      /\ flash[id] \in Keys
      /\ flash' = [flash EXCEPT ![id] = Damaged]
      /\ UNCHANGED <<temp, entries, nextRecordId, op>>
  BY DEF QInv, QTypeOK, MediaDecay, ramVars
<1>2. Damaged \in Content /\ Damaged # NoFile /\ Damaged \notin Keys
  BY QueueAssumption DEF Content
<1>3. /\ flash' \in [RecordIds -> Content]
      /\ \A j \in RecordIds : flash'[j] = flash[j] \/ flash'[j] = Damaged
  BY <1>1, <1>2
<1>4. faults' \in Nat /\ discarded' \subseteq Content
  BY <1>1 DEF QInv, QTypeOK, MediaDecay, Fails, Content
<1>5. QTypeOK'
  BY <1>1, <1>3, <1>4 DEF QInv, QTypeOK, MediaDecay, ramVars
<1>6. op.at = "evict" => flash'[nextRecordId] \in {op.key, Damaged}
  <2>1. op.at = "evict" => nextRecordId \in RecordIds
    BY QueueAssumption DEF QInv, QTypeOK, OpInv, RecordIds
  <2> QED
    BY <1>3, <2>1 DEF QInv, OpInv
<1>7. OpInv'
  BY <1>1, <1>6 DEF QInv, OpInv
<1>8. ASSUME NEW i \in DOMAIN entries
      PROVE  IndexedRecord(entries[i])'
  <2>1. entries[i].id \in RecordIds /\ IndexedRecord(entries[i])
    BY ListedEntry
  <2>2. flash'[entries[i].id] = flash[entries[i].id] \/ flash'[entries[i].id] = Damaged
    BY <1>3, <2>1
  <2> QED
    BY <1>1, <1>2, <2>1, <2>2 DEF IndexedRecord
<1>9. IndexInv'
  BY <1>1, <1>8 DEF QInv, IndexInv, Ascending
<1> QED
  BY <1>5, <1>7, <1>9 DEF QInv

\* A step of somebody else leaves the queue alone.
LEMMA QStutterInv ==
  ASSUME QInv, UNCHANGED qvars
  PROVE  QInv'
<1>1. QTypeOK'
  BY DEF QInv, QTypeOK, qvars, flashVars, ramVars, ghostVars
<1>2. OpInv'
  BY DEF QInv, OpInv, qvars, flashVars, ramVars
<1>3. IndexInv'
  BY DEF QInv, IndexInv, IndexedRecord, Ascending, qvars, flashVars, ramVars
<1> QED
  BY <1>1, <1>2, <1>3 DEF QInv

-----------------------------------------------------------------------------
(* Together. *)

\* A lookup changes nothing but the count of failed reads.
LEMMA LookupInv ==
  ASSUME QInv, NEW k, NEW found, Lookup(k, found)
  PROVE  QInv'
<1>1. faults' \in Nat
  BY FaultsType DEF QInv, QTypeOK, Lookup
<1>2. QTypeOK'
  BY <1>1 DEF QInv, QTypeOK, Lookup, flashVars, ramVars, ghostVars
<1>3. OpInv' /\ IndexInv'
  BY DEF QInv, OpInv, IndexInv, IndexedRecord, Ascending, Lookup, flashVars,
         ramVars
<1> QED
  BY <1>2, <1>3 DEF QInv

\* Every step of the queue with a client preserves the invariant.
LEMMA QInvStep ==
  ASSUME QInv, [QNext]_qvars
  PROVE  QInv'
<1>1. ASSUME NEW k \in Keys, EnqueueBegin(k) PROVE QInv'
  BY <1>1, EnqueueBeginInv
<1>2. ASSUME NEW actions \in SUBSET [id : RecordIds, key : Keys],
             FinishBegin(actions)
      PROVE  QInv'
  <2>1. actions \in SUBSET Action
    BY DEF Action, RecordIds
  <2> QED
    BY <1>2, <2>1, FinishBeginInv
<1>3. CASE Return
  BY <1>3, ReturnInv
<1>4. CASE EnqueueStep
  BY <1>4, WriteTempInv, RenameTempInv, EvictForSpaceInv, EvictInv, WithdrawInv,
     EnqueueCheckpointInv DEF EnqueueStep
<1>5. CASE FinishStep
  BY <1>5, FinishRemoveInv, PersistRecentInv, FinishTallyInv DEF FinishStep
<1>6. CASE BootStep
  BY <1>6, BeginInv, RecoverRecordInv, RecoverSortInv, RecoverTrimInv,
     LoadCountersInv, LoadRecentInv, BeginCheckpointInv DEF BootStep
<1>7. CASE CheckpointCounters
  BY <1>7, CheckpointCountersInv
<1>8. CASE PowerLoss
  BY <1>8, PowerLossInv
<1>9. ASSUME NEW id \in RecordIds, MediaDecay(id) PROVE QInv'
  BY <1>9, MediaDecayInv
<1>10. CASE UNCHANGED qvars
  BY <1>10, QStutterInv
<1>11. ASSUME NEW k \in Keys, NEW found \in BOOLEAN, Lookup(k, found)
       PROVE  QInv'
  BY <1>11, LookupInv
<1> QED
  BY <1>1, <1>2, <1>3, <1>4, <1>5, <1>6, <1>7, <1>8, <1>9, <1>10, <1>11 DEF QNext

(***************************************************************************)
(* The inductive invariant: at every storage call of every operation of    *)
(* the queue, types hold, the operation carries what it needs, and the     *)
(* index agrees with the files as far as the operation has come.           *)
(***************************************************************************)
THEOREM QInvInvariant == QSpec => []QInv
<1>1. QInit => QInv
  BY QInvInit
<1>2. QInv /\ [QNext]_qvars => QInv'
  BY QInvStep
<1> QED
  BY <1>1, <1>2, PTL DEF QSpec

(***************************************************************************)
(* Type correctness: in particular nextRecordId_ never leaves its range    *)
(* and finish() and recover() leave a proper sequence of entries.          *)
(***************************************************************************)
THEOREM QTypeCorrect == QSpec => []QTypeOK
<1>1. QInv => QTypeOK
  BY DEF QInv
<1> QED
  BY <1>1, QInvInvariant, PTL

(***************************************************************************)
(* While the queue is up the index agrees with the files: ascending ids,   *)
(* every listed record on flash under the listed hash, no listed id handed *)
(* out again, the bound kept.  For every capacity, hash function, number   *)
(* of records, storage faults and power losses.                            *)
(***************************************************************************)
THEOREM IndexAlwaysMatchesFlash == QSpec => []IndexMatchesFlash
<1>1. QInv => IndexMatchesFlash
  BY DEF QInv, IndexInv, IndexMatchesFlash, Healthy, BootSteps
<1> QED
  BY <1>1, QInvInvariant, PTL

-----------------------------------------------------------------------------
(* The dropped-oldest counter. *)

\* The first power-on.
LEMMA DropsInvInit == QInit => DropsInv
  BY DEF QInit, DropsInv, DropsCounted, Healthy, BootSteps, NoOp

\* A step that drops nothing and leaves the counters alone.
LEMMA DropsQuiet ==
  ASSUME DropsInv, UNCHANGED <<statDropped, drops, nvsDropped, crashes>>,
         op'.at \in {"off", "scan", "trim"} => op.at \in {"off", "scan", "trim"}
  PROVE  DropsInv'
  BY DEF DropsInv, DropsCounted

\* A checkpoint, once begin() has loaded the counter.
LEMMA DropsCheckpoint ==
  ASSUME DropsInv, PersistCounters, UNCHANGED <<statDropped, drops, crashes>>,
         op'.at \notin {"off", "scan", "trim"}
  PROVE  DropsInv'
  BY DEF DropsInv, DropsCounted, PersistCounters

\* A drop is counted in the same step, by an enqueue or by recover().
LEMMA DropsDrop ==
  ASSUME QInv, DropsInv, DropFront, UNCHANGED <<nvsDropped, crashes>>,
         op'.at \in {"off", "scan", "trim"} => op.at \in {"off", "scan", "trim"}
  PROVE  DropsInv'
<1>1. /\ statDropped \in Nat /\ drops \in Nat /\ nvsDropped \in Nat
      /\ statDropped' = statDropped + 1 /\ drops' = drops + 1
  BY DEF QInv, QTypeOK, DropFront
<1> QED
  BY <1>1 DEF DropsInv, DropsCounted

\* The steps of an enqueue.
LEMMA EnqueueStepDrops ==
  ASSUME QInv, DropsInv, EnqueueStep
  PROVE  DropsInv'
<1>0. op \in OpRecord /\ op.dropped \in BOOLEAN
  BY DEF QInv, QTypeOK, OpRecord
<1>1. CASE WriteTemp
  <2>1. op'.at \notin {"off", "scan", "trim"}
    BY <1>0, <1>1, WriteFailedType, AtType, OpStepNames DEF WriteTemp
  <2> QED
    BY <1>1, <2>1, DropsQuiet DEF WriteTemp, ramVars, ghostVars
<1>2. CASE RenameTemp
  <2>1. op'.at \notin {"off", "scan", "trim"}
    BY <1>0, <1>2, WriteFailedType, AtType, EnqueueDoneType, OpStepNames
       DEF RenameTemp
  <2> QED
    BY <1>2, <2>1, DropsQuiet DEF RenameTemp
<1>3. CASE EvictForSpace
  <2>1. op'.at \notin {"off", "scan", "trim"}
    BY <1>0, <1>3, EnqueueDoneType, OpStepNames DEF EvictForSpace, OpRecord
  <2> QED
    BY <1>3, <2>1, DropsQuiet, DropsDrop DEF EvictForSpace
<1>4. CASE Evict
  <2>1. op'.at \notin {"off", "scan", "trim"}
    BY <1>0, <1>4, EnqueueDoneType, AtType, OpStepNames DEF Evict
  <2> QED
    BY <1>4, <2>1, DropsQuiet, DropsDrop DEF Evict
<1>5. CASE Withdraw
  <2>1. op'.at \notin {"off", "scan", "trim"}
    BY <1>0, <1>5, EnqueueDoneType DEF Withdraw
  <2> QED
    BY <1>5, <2>1, DropsQuiet DEF Withdraw, ramVars, ghostVars
<1>6. CASE EnqueueCheckpoint
  <2>1. op'.at \notin {"off", "scan", "trim"}
    BY <1>0, <1>6, AtType, OpStepNames DEF EnqueueCheckpoint
  <2> QED
    BY <1>6, <2>1, DropsCheckpoint DEF EnqueueCheckpoint, ramVars, ghostVars
<1> QED
  BY <1>1, <1>2, <1>3, <1>4, <1>5, <1>6 DEF EnqueueStep

\* The steps of a finish.
LEMMA FinishStepDrops ==
  ASSUME QInv, DropsInv, FinishStep
  PROVE  DropsInv'
<1>0. op \in OpRecord /\ op.ok \in BOOLEAN /\ op.changed \in BOOLEAN
  BY DEF QInv, QTypeOK, OpRecord
<1>1. ASSUME NEW a \in op.todo, FinishRemove(a) PROVE DropsInv'
  <2>1. op'.at \notin {"off", "scan", "trim"}
    BY <1>0, <1>1, FinishNextType DEF FinishRemove
  <2> QED
    BY <1>1, <2>1, DropsQuiet DEF FinishRemove, ghostVars
<1>2. CASE PersistRecent
  <2>1. op'.at \notin {"off", "scan", "trim"}
    BY <1>0, <1>2, OpStepNames DEF PersistRecent, OpRecord
  <2> QED
    BY <1>2, <2>1, DropsQuiet DEF PersistRecent, ramVars, ghostVars
<1>3. CASE FinishTally
  <2>1. op'.at \notin {"off", "scan", "trim"}
    BY <1>0, <1>3, AtType, OpStepNames DEF FinishTally
  <2> QED
    BY <1>3, <2>1, DropsQuiet, DropsCheckpoint DEF FinishTally, ramVars, ghostVars
<1> QED
  BY <1>1, <1>2, <1>3 DEF FinishStep

\* The steps of begin(): the checkpoint is added to what recovery dropped.
LEMMA BootStepDrops ==
  ASSUME QInv, DropsInv, BootStep
  PROVE  DropsInv'
<1>0. op \in OpRecord
  BY DEF QInv, QTypeOK
<1>1. CASE Begin
  BY <1>1, DropsQuiet DEF Begin, ramVars, ghostVars
<1>2. ASSUME NEW id \in op.scan, RecoverRecord(id) PROVE DropsInv'
  BY <1>2, DropsQuiet DEF RecoverRecord
<1>3. CASE RecoverSort
  BY <1>3, DropsQuiet DEF RecoverSort, flashVars, ghostVars
<1>4. CASE RecoverTrim
  BY <1>4, DropsQuiet, DropsDrop DEF RecoverTrim
<1>5. CASE LoadCounters
  <2>1. op'.at = "loadRecent"
    BY <1>0, <1>5, AtType, OpStepNames DEF LoadCounters
  <2>2. /\ op.at = "trim"
        /\ statDropped' = nvsDropped + statDropped \/ statDropped' = statDropped
        /\ UNCHANGED <<nvsDropped, drops, crashes>>
        /\ statDropped \in Nat /\ nvsDropped \in Nat /\ drops \in Nat
    BY <1>5 DEF LoadCounters, flashVars, ghostVars, QInv, QTypeOK
  <2> QED
    BY <2>1, <2>2 DEF DropsInv, DropsCounted
<1>7. CASE LoadRecent
  <2>1. op.at = "loadRecent" /\ op'.at \in {"idle", "bootCheckpoint"}
    BY <1>7 DEF LoadRecent, NoOp
  <2> QED
    BY <1>7, <2>1, DropsQuiet DEF LoadRecent, ghostVars
<1>6. CASE BeginCheckpoint
  <2>1. op'.at = "idle"
    BY <1>6 DEF BeginCheckpoint, NoOp
  <2> QED
    BY <1>6, <2>1, DropsCheckpoint DEF BeginCheckpoint, ramVars, ghostVars
<1> QED
  BY <1>1, <1>2, <1>3, <1>4, <1>5, <1>6, <1>7 DEF BootStep

\* Every step keeps the counters honest.
LEMMA DropsInvStep ==
  ASSUME QInv, DropsInv, [QNext]_qvars
  PROVE  DropsInv'
<1>1. ASSUME NEW k \in Keys, EnqueueBegin(k) PROVE DropsInv'
  BY <1>1, DropsQuiet DEF EnqueueBegin, NoOp, flashVars, ramVars, ghostVars
<1>2. ASSUME NEW actions, FinishBegin(actions) PROVE DropsInv'
  BY <1>2, DropsQuiet DEF FinishBegin, NoOp, flashVars, ramVars, ghostVars
<1>3. CASE Return
  BY <1>3, DropsQuiet DEF Return, NoOp, flashVars, ramVars, ghostVars
<1>4. CASE CheckpointCounters
  BY <1>4, DropsCheckpoint DEF CheckpointCounters, ramVars, ghostVars
<1>5. CASE PowerLoss
  <2>1. /\ crashes' = crashes + 1 /\ crashes \in Nat
        /\ statDropped' = 0 /\ UNCHANGED <<nvsDropped, drops>>
        /\ nvsDropped \in Nat /\ drops \in Nat
    BY <1>5 DEF PowerLoss, ghostVars, QInv, QTypeOK
  <2>2. crashes' # 0
    BY <2>1
  <2> QED
    BY <2>1, <2>2 DEF DropsInv, DropsCounted
<1>6. ASSUME NEW id \in RecordIds, MediaDecay(id) PROVE DropsInv'
  BY <1>6, DropsQuiet DEF MediaDecay, ramVars
<1>7. ASSUME NEW k, NEW found, Lookup(k, found) PROVE DropsInv'
  BY <1>7, DropsQuiet DEF Lookup, flashVars, ramVars, ghostVars
<1>8. CASE UNCHANGED qvars
  BY <1>8, DropsQuiet DEF qvars, flashVars, ramVars, ghostVars
<1> QED
  BY <1>1, <1>2, <1>3, <1>4, <1>5, <1>6, <1>7, <1>8, EnqueueStepDrops,
     FinishStepDrops, BootStepDrops DEF QNext

(***************************************************************************)
(* The dropped-oldest counter and its checkpoint never report a drop that  *)
(* did not happen, and until the first power loss they miss none: at every *)
(* storage call, and whichever of them fail.                               *)
(***************************************************************************)
THEOREM DropsAlwaysCounted == QSpec => []DropsCounted
<1>1. QInit => DropsInv
  BY DropsInvInit
<1>2. QInv /\ DropsInv /\ [QNext]_qvars => DropsInv'
  BY DropsInvStep
<1>3. DropsInv => DropsCounted
  BY DEF DropsInv
<1> QED
  BY <1>1, <1>2, <1>3, QInvInvariant, PTL DEF QSpec

=============================================================================
