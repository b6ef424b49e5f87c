------------------------ MODULE BackendWorkerProofs ------------------------
(***************************************************************************)
(* Proofs about BackendWorker and the answers it accepts, for every batch  *)
(* size, queue capacity, backoff and set of endpoints and intervals.       *)
(***************************************************************************)
EXTENDS BackendWorker, FiniteSetTheorems, SequenceTheorems, WellFoundedInduction, TLAPS

-----------------------------------------------------------------------------
(* parseBackendBatchResponse(). *)

\* The least-number principle, for sets.
LEMMA LeastNatural ==
  ASSUME NEW T, T \subseteq Nat, T # {}
  PROVE  \E m \in T : \A k \in T : m <= k
<1> DEFINE R == {ss \in Nat \X Nat : ss[1] < ss[2]}
<1>1. IsWellFoundedOn(R, Nat)
  BY NatLessThanWellFounded, Zenon DEF OpToRel
<1> HIDE DEF R
<1>2. PICK m \in T : \A k \in T : <<k, m>> \notin R
  BY <1>1, WFMin, Zenon
<1>3. \A k \in T : ~(k < m)
  BY <1>2 DEF R
<1> QED
  BY <1>3

\* An answer is a sequence of items.
LEMMA AnswerFacts ==
  ASSUME NEW items \in Answers
  PROVE  /\ Len(items) \in Nat /\ DOMAIN items = 1 .. Len(items)
         /\ \A n \in 1 .. Len(items) : items[n] \in Item
<1>1. PICK n \in 0 .. MaxBatch + 1 : items \in [1 .. n -> Item]
  BY DEF Answers
<1>2. n \in Nat /\ Len(items) = n
  BY <1>1, WorkerAssumption
<1> QED
  BY <1>1, <1>2

(***************************************************************************)
(* The loop of parseBackendBatchResponse() lets an answer through only if  *)
(* it accepts every item of it: by the least item it would have passed     *)
(* over.                                                                   *)
(***************************************************************************)
LEMMA ParseAcceptsAll ==
  ASSUME NEW items \in Answers, NEW expected \in Nat,
         ParseBackendBatchResponse(items, expected)
  PROVE  /\ Len(items) <= expected
         /\ \A n \in 1 .. Len(items) : AcceptItem(items, n, expected)
<1> DEFINE L == Len(items)
           A(n) == AcceptItem(items, n, expected)
           accepted[n \in 0 .. Len(items)] ==
             IF n = 0 THEN TRUE
             ELSE accepted[n - 1] /\ AcceptItem(items, n, expected)
           g == [n \in 0 .. L |-> \A j \in 1 .. n : A(j)]
<1>0. L \in Nat /\ L <= expected /\ accepted[L]
  BY AnswerFacts DEF ParseBackendBatchResponse
<1>1. accepted = [n \in 0 .. L |-> IF n = 0 THEN TRUE ELSE accepted[n - 1] /\ A(n)]
  <2> HIDE DEF A, L
  <2>1. \A n \in 0 .. L : g[n] = IF n = 0 THEN TRUE ELSE g[n - 1] /\ A(n)
    <3> SUFFICES ASSUME NEW n \in 0 .. L
                 PROVE  g[n] = IF n = 0 THEN TRUE ELSE g[n - 1] /\ A(n)
      OBVIOUS
    <3>1. CASE n = 0
      BY <3>1
    <3>2. CASE n # 0
      <4>1. n - 1 \in 0 .. L /\ 1 .. n = (1 .. n - 1) \cup {n}
        BY <1>0, <3>2
      <4> QED
        BY <3>2, <4>1, Zenon
    <3> QED
      BY <3>1, <3>2
  <2>2. g = [n \in 0 .. L |-> IF n = 0 THEN TRUE ELSE g[n - 1] /\ A(n)]
    BY <2>1, Zenon
  <2> QED
    BY <2>2, Zenon DEF A, L
<1> HIDE DEF accepted, A, L, g
<1>2. \A n \in 1 .. L : accepted[n] => accepted[n - 1] /\ A(n)
  <2>1. \A n \in 1 .. L : n \in 0 .. L /\ n # 0
    BY <1>0
  <2>2. \A n \in 0 .. L : accepted[n] = IF n = 0 THEN TRUE ELSE accepted[n - 1] /\ A(n)
    <3> DEFINE h(n) == IF n = 0 THEN TRUE ELSE accepted[n - 1] /\ A(n)
    <3>1. accepted = [n \in 0 .. L |-> h(n)]
      BY <1>1
    <3> HIDE DEF h
    <3>2. \A n \in 0 .. L : accepted[n] = h(n)
      BY <3>1, Zenon
    <3> QED
      BY <3>2, Zenon DEF h
  <2> QED
    BY <2>1, <2>2, Zenon
<1>3. \A n \in 0 .. L : accepted[n] => \A j \in 1 .. n : A(j)
  <2> DEFINE T == {n \in 0 .. L : accepted[n] /\ ~\A j \in 1 .. n : A(j)}
  <2> SUFFICES ASSUME T # {} PROVE FALSE
    OBVIOUS
  <2>1. PICK m \in T : \A k \in T : m <= k
    <3>1. T \subseteq Nat
      BY <1>0
    <3> HIDE DEF T
    <3> QED
      BY <3>1, LeastNatural
  <2>2. m \in 1 .. L
    BY <1>0, <2>1
  <2>3. accepted[m - 1] /\ A(m)
    BY <1>2, <2>1, <2>2
  <2>4. m - 1 \notin T
    BY <1>0, <2>1, <2>2
  <2>5. \A j \in 1 .. m - 1 : A(j)
    BY <1>0, <2>2, <2>3, <2>4
  <2>6. \A j \in 1 .. m : A(j)
    BY <1>0, <2>2, <2>3, <2>5
  <2> QED
    BY <2>1, <2>6
<1> QED
  BY <1>0, <1>3 DEF A, L

(***************************************************************************)
(* The records an accepted answer names that have not been evicted are     *)
(* among what is left of the batch.                                        *)
(***************************************************************************)
LEMMA NamedRecords ==
  ASSUME NEW items \in Answers, NEW batch \in Nat, NEW evicted \in 0 .. batch,
         ParseBackendBatchResponse(items, batch)
  PROVE  Cardinality({i \in Named(items) : i >= evicted}) \in 0 .. batch - evicted
<1> DEFINE removed == {i \in Named(items) : i >= evicted}
           L == Len(items)
<1>0. /\ L \in Nat /\ DOMAIN items = 1 .. L /\ L <= batch
      /\ \A n \in 1 .. L : /\ items[n].index \in Nat /\ items[n].index < batch
  BY AnswerFacts, ParseAcceptsAll DEF AcceptItem, Item
<1>1. removed \subseteq evicted .. batch - 1
  BY <1>0 DEF Named
<1>2. /\ IsFiniteSet(evicted .. batch - 1)
      /\ Cardinality(evicted .. batch - 1) = batch - evicted
  <2>1. evicted \in Int /\ batch - 1 \in Int
    OBVIOUS
  <2>2. /\ IsFiniteSet(evicted .. batch - 1)
        /\ Cardinality(evicted .. batch - 1) =
             IF evicted > batch - 1 THEN 0 ELSE batch - 1 - evicted + 1
    BY <2>1, FS_Interval
  <2> QED
    BY <2>2
<1>3. IsFiniteSet(removed) /\ Cardinality(removed) <= batch - evicted
  BY <1>1, <1>2, FS_Subset
<1>4. Cardinality(removed) \in Nat
  BY <1>3, FS_CardinalityType
<1> QED
  BY <1>3, <1>4

-----------------------------------------------------------------------------
(***************************************************************************)
(* WorkerTypeOK in three parts, for the three kinds of state: what the     *)
(* worker reports, the queue with the task, and the rest.                  *)
(***************************************************************************)
StatusType ==
  /\ backoff \in {0} \cup InitialBackoff .. MaximumBackoff
  /\ failures \in 0 .. FailureLimit
  /\ succeeded \in BOOLEAN
  /\ outcomes \in Seq(BOOLEAN) /\ Len(outcomes) <= 3
QueueType ==
  /\ depth \in 0 .. MaxDepth
  /\ \/ worker \in [at : WorkerSteps]
     \/ worker \in [at : {"request"}, endpoint : Endpoints,
                    batch : 1 .. BatchSize, evicted : 0 .. BatchSize]
RestType ==
  /\ config \in [endpoint : Endpoints, interval : Intervals]
  /\ notified \in BOOLEAN
  /\ left \in Nat
  /\ dueIn \in Nat
  /\ network \in BOOLEAN /\ sntp \in BOOLEAN /\ trusted \in BOOLEAN
  /\ asked \in BOOLEAN
  /\ applies \in 0 .. MaxApplies
InductiveInv ==
  /\ StatusType /\ StreakInv
  /\ QueueType /\ BatchInv
  /\ RestType /\ AskedInv

\* The three parts are WorkerTypeOK.
LEMMA TypeParts == WorkerTypeOK <=> StatusType /\ QueueType /\ RestType
  BY Zenon DEF WorkerTypeOK, StatusType, QueueType, RestType

-----------------------------------------------------------------------------
(* status_: setFailure() and setSuccess(). *)

\* A sequence of at most three outcomes.
LEMMA ShortSeq ==
  ASSUME NEW o \in Seq(BOOLEAN), Len(o) <= 3
  PROVE  Len(o) \in 0 .. 3 /\ DOMAIN o = 1 .. Len(o)
<1>1. Len(o) \in Nat /\ DOMAIN o = 1 .. Len(o)
  BY LenProperties, Zenon
<1> QED
  BY <1>1

\* A further outcome comes first, and the oldest beyond three is forgotten.
LEMMA PushFacts ==
  ASSUME NEW o \in Seq(BOOLEAN), Len(o) <= 3, NEW v \in BOOLEAN
  PROVE  LET p == <<v>> \o SubSeq(o, 1, Smaller(2, Len(o))) IN
           /\ p \in Seq(BOOLEAN)
           /\ Len(p) = Smaller(3, Len(o) + 1)
           /\ p[1] = v
           /\ \A k \in 2 .. Len(p) : k - 1 \in 1 .. Len(o) /\ p[k] = o[k - 1]
<1> DEFINE s == SubSeq(o, 1, Smaller(2, Len(o)))
           p == <<v>> \o s
<1>1. /\ Len(o) \in Nat
      /\ Smaller(2, Len(o)) \in 0 .. Len(o)
      /\ Smaller(3, Len(o) + 1) = Smaller(2, Len(o)) + 1
  BY DEF Smaller
<1>2. \A i \in 1 .. Smaller(2, Len(o)) : o[i] \in BOOLEAN
  BY <1>1
<1>3. /\ s \in Seq(BOOLEAN) /\ Len(s) = Smaller(2, Len(o))
      /\ \A i \in 1 .. Smaller(2, Len(o)) : s[i] = o[i]
  <2> HIDE DEF s
  <2> USE DEF s
  <2> QED
    BY <1>1, <1>2
<1> HIDE DEF s
<1>4. /\ p \in Seq(BOOLEAN) /\ Len(p) = 1 + Len(s)
      /\ p[1] = v
      /\ \A k \in 2 .. Len(p) : p[k] = s[k - 1]
  BY <1>1, <1>3
<1> HIDE DEF p
<1>5. \A k \in 2 .. Len(p) : k - 1 \in 1 .. Smaller(2, Len(o)) /\ k - 1 \in 1 .. Len(o)
  BY <1>1, <1>3, <1>4
<1>6. \A k \in 2 .. Len(p) : k - 1 \in 1 .. Len(o) /\ p[k] = o[k - 1]
  BY <1>3, <1>4, <1>5
<1> QED
  BY <1>1, <1>3, <1>4, <1>6 DEF p, s

\* What a step may do to status_, and with it to the outcomes.
LEMMA StatusEffects ==
  ASSUME [WorkerNext]_workerVars
  PROVE  \/ SetFailure(FALSE) \/ SetFailure(TRUE) \/ SetSuccess
         \/ backoff' = 0 /\ UNCHANGED <<failures, succeeded, outcomes>>
         \/ UNCHANGED statusVars
<1>1. CASE UNCHANGED workerVars
  BY <1>1 DEF workerVars, statusVars
<1>2. CASE LoopTop \/ IdleLook \/ CheckPrerequisites \/ EndWait \/ BackoffWait \/ PauseEnds
  BY <1>2 DEF LoopTop, IdleLook, CheckPrerequisites, EndWait, BackoffWait, PauseEnds
<1>3. CASE PeekForUpload \/ UploadFails
  BY <1>3 DEF PeekForUpload, UploadFails
<1>4. CASE \E items \in Answers : UploadAccepted(items) \/ FinishFails(items)
  BY <1>4 DEF UploadAccepted, FinishFails
<1>5. CASE BeginHeartbeat \/ HeartbeatCheck \/ HeartbeatSend \/ HeartbeatReturns
  BY <1>5 DEF BeginHeartbeat, HeartbeatCheck, HeartbeatSend, HeartbeatReturns
<1>6. CASE HandleRequest
  BY <1>6 DEF HandleRequest, HandleGateway, HandleBackend, HandleHeartbeat, ApplyConfig
<1>7. CASE FlushNow \/ Enqueue \/ SntpSync \/ TrustTime \/ NetworkChanges \/ Tick
  BY <1>7 DEF FlushNow, Enqueue, SntpSync, TrustTime, NetworkChanges, Tick
<1> QED
  BY <1>1, <1>2, <1>3, <1>4, <1>5, <1>6, <1>7 DEF WorkerNext, WorkerStep

\* The backoff doubles within its limits.
LEMMA BackoffBounded ==
  ASSUME backoff \in {0} \cup InitialBackoff .. MaximumBackoff
  PROVE  NextBackoff \in {0} \cup InitialBackoff .. MaximumBackoff
  BY WorkerAssumption DEF NextBackoff, Smaller

\* A success puts a success first and the failures at zero.
LEMMA SuccessKeepsStreak ==
  ASSUME StatusType, StreakInv, SetSuccess
  PROVE  StatusType' /\ StreakInv'
<1>1. /\ outcomes' \in Seq(BOOLEAN)
      /\ Len(outcomes') = Smaller(3, Len(outcomes) + 1)
      /\ outcomes'[1] = TRUE
  BY PushFacts DEF StatusType, SetSuccess
<1>2. Len(outcomes') \in 1 .. 3 /\ DOMAIN outcomes' = 1 .. Len(outcomes')
  BY <1>1 DEF StatusType, Smaller
<1>3. failures' = 0 /\ succeeded' = TRUE /\ backoff' = 0
  BY DEF SetSuccess
<1>4. StatusType'
  BY <1>1, <1>2, <1>3, WorkerAssumption DEF StatusType
<1>5. StreakInv'
  BY <1>1, <1>2, <1>3 DEF StreakInv
<1> QED
  BY <1>4, <1>5

\* Where a streak of fewer than three failures ends, one failure earlier.
LEMMA StreakStart ==
  ASSUME NEW m \in 1 .. 3, NEW k \in 1 .. m, NEW f \in Nat, NEW g \in Nat, NEW n \in Nat,
         n >= 3, g = f + 1 \/ (g = n /\ f = n), k = g + 1
  PROVE  k \in 2 .. m /\ k - 1 = f + 1
  OBVIOUS

\* A failed upload lengthens the streak at both ends alike.
LEMMA FailureKeepsStreak ==
  ASSUME StatusType, StreakInv, SetFailure(TRUE)
  PROVE  StatusType' /\ StreakInv'
<1> DEFINE L == Len(outcomes)
           M == Len(outcomes')
<1>0. /\ failures' = Smaller(failures + 1, FailureLimit)
      /\ outcomes' = <<FALSE>> \o SubSeq(outcomes, 1, Smaller(2, L))
      /\ failures \in 0 .. FailureLimit
      /\ outcomes \in Seq(BOOLEAN) /\ L <= 3
  BY Zenon DEF SetFailure, StatusType
<1>1. /\ outcomes' \in Seq(BOOLEAN)
      /\ M = Smaller(3, L + 1)
      /\ outcomes'[1] = FALSE
      /\ \A k \in 2 .. M : k - 1 \in 1 .. L /\ outcomes'[k] = outcomes[k - 1]
  BY <1>0, PushFacts DEF StatusType
<1>2. L \in 0 .. 3 /\ M \in 1 .. 3 /\ DOMAIN outcomes = 1 .. L /\ DOMAIN outcomes' = 1 .. M
  <2>1. L \in 0 .. 3 /\ DOMAIN outcomes = 1 .. L
    BY <1>0, ShortSeq
  <2>2. M \in Nat /\ DOMAIN outcomes' = 1 .. M
    BY <1>1
  <2>3. M \in 1 .. 3
    BY <1>1, <2>1, <2>2 DEF Smaller
  <2> QED
    BY <2>1, <2>2, <2>3
<1>3. /\ failures \in Nat /\ failures' \in 0 .. FailureLimit
      /\ failures' = failures + 1 \/ (failures' = FailureLimit /\ failures = FailureLimit)
      /\ FailureLimit \in Nat /\ FailureLimit >= 3
  BY <1>0, WorkerAssumption DEF Smaller
<1>4. succeeded' = succeeded /\ backoff' = NextBackoff
  BY DEF SetFailure
<1>5. StatusType'
  BY <1>1, <1>2, <1>3, <1>4, BackoffBounded DEF StatusType
<1>6. /\ \A k \in 1 .. L : k <= failures => ~outcomes[k]
      /\ \A k \in 1 .. L : k = failures + 1 => outcomes[k]
      /\ \A k \in 1 .. L : outcomes[k] => succeeded
      /\ succeeded => L > 0
      /\ failures <= L \/ L = 3
  BY <1>2 DEF StreakInv
<1>7. \A k \in 1 .. M : k = 1 \/ k \in 2 .. M
  BY <1>2
<1>8. \A k \in 1 .. M : k <= failures' => ~outcomes'[k]
  <2> SUFFICES ASSUME NEW k \in 2 .. M, k <= failures'
               PROVE  ~outcomes'[k]
    BY <1>1, <1>7
  <2>1. k - 1 \in 1 .. L /\ k - 1 <= failures
    BY <1>1, <1>2, <1>3
  <2> QED
    BY <1>1, <1>6, <2>1
<1>9. \A k \in 1 .. M : k = failures' + 1 => outcomes'[k]
  <2> SUFFICES ASSUME NEW k \in 1 .. M, k = failures' + 1
               PROVE  outcomes'[k]
    OBVIOUS
  <2>1. k \in 2 .. M /\ k - 1 = failures + 1
    <3>1. M \in 1 .. 3 /\ failures' \in Nat
      BY <1>2, <1>3
    <3> QED
      BY <1>3, <3>1, StreakStart, Zenon
  <2>2. k - 1 \in 1 .. L /\ outcomes'[k] = outcomes[k - 1]
    BY <1>1, <2>1
  <2> QED
    BY <1>6, <2>1, <2>2
<1>10. \A k \in 1 .. M : outcomes'[k] => succeeded'
  BY <1>1, <1>4, <1>6, <1>7
<1>11. failures' <= M \/ M = 3
  BY <1>1, <1>2, <1>3, <1>6 DEF Smaller
<1>12. StreakInv'
  BY <1>2, <1>8, <1>9, <1>10, <1>11 DEF StreakInv
<1> QED
  BY <1>5, <1>12

\* Every step keeps the status and the streak it stands for.
LEMMA StatusStep ==
  ASSUME StatusType, StreakInv, [WorkerNext]_workerVars
  PROVE  StatusType' /\ StreakInv'
<1>1. CASE SetFailure(FALSE)
  <2>1. backoff' = NextBackoff /\ UNCHANGED <<failures, succeeded, outcomes>>
    BY <1>1 DEF SetFailure
  <2> QED
    BY <2>1, BackoffBounded DEF StatusType, StreakInv
<1>2. CASE backoff' = 0 /\ UNCHANGED <<failures, succeeded, outcomes>>
  BY <1>2 DEF StatusType, StreakInv
<1>3. CASE UNCHANGED statusVars
  BY <1>3 DEF StatusType, StreakInv, statusVars
<1> QED
  BY <1>1, <1>2, <1>3, StatusEffects, SuccessKeepsStreak, FailureKeepsStreak

-----------------------------------------------------------------------------
(* The queue and the task. *)

\* GoTo() sets the place.
LEMMA GoToAt ==
  ASSUME NEW at, GoTo(at)
  PROVE  worker'.at = at
  BY DEF GoTo

\* Out of a request there is no batch to keep track of.
LEMMA GoToKeepsQueue ==
  ASSUME NEW at \in WorkerSteps, GoTo(at), depth' \in 0 .. MaxDepth
  PROVE  QueueType' /\ BatchInv'
<1>1. worker' \in [at : WorkerSteps]
  BY DEF GoTo
<1>2. worker'.at # "request"
  BY DEF GoTo, WorkerSteps
<1> QED
  BY <1>1, <1>2 DEF QueueType, BatchInv

\* In a request the locals of uploadOnce() have their types.
LEMMA RequestFacts ==
  ASSUME QueueType, BatchInv, worker.at = "request"
  PROVE  /\ depth \in 0 .. MaxDepth
         /\ worker \in [at : {"request"}, endpoint : Endpoints,
                        batch : 1 .. BatchSize, evicted : 0 .. BatchSize]
         /\ worker.batch \in Nat /\ worker.evicted \in 0 .. worker.batch
         /\ worker.batch - worker.evicted \in 0 .. depth
<1>1. depth \in 0 .. MaxDepth
  BY DEF QueueType
<1>2. worker \in [at : {"request"}, endpoint : Endpoints,
                  batch : 1 .. BatchSize, evicted : 0 .. BatchSize]
  BY DEF QueueType, WorkerSteps
<1>3. worker.batch \in Nat /\ worker.evicted \in Nat
  BY <1>2, WorkerAssumption
<1>4. worker.evicted <= worker.batch /\ worker.batch - worker.evicted <= depth
  BY DEF BatchInv
<1>5. worker.evicted \in 0 .. worker.batch /\ worker.batch - worker.evicted \in 0 .. depth
  BY <1>1, <1>3, <1>4, WorkerAssumption
<1> QED
  BY <1>1, <1>2, <1>3, <1>5

\* finish() takes out no more than what is left of the batch.
LEMMA AnswerKeepsQueue ==
  ASSUME QueueType, BatchInv, NEW items \in Answers,
         UploadAccepted(items) \/ FinishFails(items)
  PROVE  QueueType' /\ BatchInv'
<1> DEFINE removed == StillThere(items)
<1>1. worker.at = "request" /\ ParseBackendBatchResponse(items, worker.batch)
  BY DEF UploadAccepted, FinishFails
<1>2. Cardinality(removed) \in 0 .. worker.batch - worker.evicted
  BY <1>1, RequestFacts, NamedRecords DEF StillThere
<1>3. PICK n \in 0 .. Cardinality(removed) : depth' = depth - n
  <2>1. Cardinality(removed) \in 0 .. Cardinality(removed)
    BY <1>1, <1>2, RequestFacts
  <2> QED
    BY <2>1 DEF UploadAccepted, FinishFails
<1>4. depth' \in 0 .. MaxDepth
  <2> HIDE DEF removed
  <2>1. /\ depth \in 0 .. MaxDepth
        /\ worker.batch - worker.evicted \in 0 .. depth
    BY <1>1, RequestFacts
  <2> QED
    BY <1>2, <1>3, <2>1, WorkerAssumption
<1>5. GoTo("pause") \/ GoTo("backoff")
  BY DEF UploadAccepted, FinishFails
<1> QED
  BY <1>4, <1>5, GoToKeepsQueue DEF WorkerSteps

\* What is evicted from under a request was the oldest of its batch.
LEMMA EnqueueKeepsQueue ==
  ASSUME QueueType, BatchInv, Enqueue
  PROVE  QueueType' /\ BatchInv'
<1>1. depth \in 0 .. MaxDepth
  BY DEF QueueType
<1>2. CASE depth < MaxDepth
  <2>1. depth' = depth + 1 /\ worker' = worker
    BY <1>2 DEF Enqueue
  <2>2. depth' \in 0 .. MaxDepth
    BY <1>1, <1>2, <2>1, WorkerAssumption
  <2>3. QueueType'
    BY <2>1, <2>2 DEF QueueType
  <2>4. BatchInv'
    <3> SUFFICES ASSUME worker.at = "request"
                 PROVE  /\ worker.evicted <= worker.batch
                        /\ worker.batch - worker.evicted <= depth + 1
      BY <2>1 DEF BatchInv
    <3>1. worker.batch \in Nat /\ worker.evicted \in 0 .. worker.batch
      BY RequestFacts
    <3>2. worker.batch - worker.evicted \in 0 .. depth
      BY RequestFacts
    <3> QED
      BY <1>1, <3>1, <3>2, WorkerAssumption
  <2> QED
    BY <2>3, <2>4
<1>3. CASE ~(depth < MaxDepth) /\ worker.at = "request" /\ worker.evicted < worker.batch
  <2>1. /\ depth' = depth \/ depth' = depth - 1
        /\ worker' = [worker EXCEPT !.evicted = @ + 1]
    BY <1>3 DEF Enqueue
  <2>a. depth' \in 0 .. MaxDepth
    BY <1>1, <1>3, <2>1, WorkerAssumption
  <2>2. /\ worker \in [at : {"request"}, endpoint : Endpoints,
                       batch : 1 .. BatchSize, evicted : 0 .. BatchSize]
        /\ worker.batch \in Nat /\ worker.evicted \in 0 .. worker.batch
        /\ worker.batch - worker.evicted \in 0 .. depth
    BY <1>3, RequestFacts
  <2>3. worker.evicted + 1 \in 0 .. BatchSize
    BY <1>3, <2>2, WorkerAssumption
  <2>4. /\ worker' \in [at : {"request"}, endpoint : Endpoints,
                        batch : 1 .. BatchSize, evicted : 0 .. BatchSize]
        /\ worker'.evicted = worker.evicted + 1 /\ worker'.batch = worker.batch
    BY <2>1, <2>2, <2>3
  <2>5. QueueType'
    BY <2>a, <2>4 DEF QueueType
  <2>6. /\ worker.evicted + 1 <= worker.batch
        /\ worker.batch - (worker.evicted + 1) <= depth'
    BY <1>1, <1>3, <2>1, <2>2, WorkerAssumption
  <2> QED
    BY <2>4, <2>5, <2>6 DEF BatchInv
<1>4. CASE ~(depth < MaxDepth) /\ ~(worker.at = "request" /\ worker.evicted < worker.batch)
  <2>1. (depth' = depth \/ depth' = depth - 1) /\ worker' = worker
    BY <1>4 DEF Enqueue
  <2>2. depth' \in 0 .. MaxDepth
    BY <1>1, <1>4, <2>1, WorkerAssumption
  <2>3. ASSUME worker.at = "request"
        PROVE  worker.evicted <= worker.batch /\ worker.batch - worker.evicted <= depth'
    <3>1. worker.batch \in Nat /\ worker.evicted \in 0 .. worker.batch
      BY <2>3, RequestFacts
    <3>2. worker.batch - worker.evicted = 0
      BY <1>4, <2>3, <3>1
    <3> QED
      BY <2>2, <3>1, <3>2, WorkerAssumption
  <2> QED
    BY <2>1, <2>2, <2>3 DEF QueueType, BatchInv
<1> QED
  BY <1>2, <1>3, <1>4

\* Every step keeps the queue within its capacity and the batch within it.
LEMMA QueueStep ==
  ASSUME QueueType, BatchInv, RestType, [WorkerNext]_workerVars
  PROVE  QueueType' /\ BatchInv'
<1> USE DEF WorkerSteps
<1>0. depth \in 0 .. MaxDepth
  BY DEF QueueType
<1>1. CASE depth' = depth /\ worker' = worker
  BY <1>1 DEF QueueType, BatchInv
<1>2. CASE LoopTop \/ IdleLook \/ CheckPrerequisites \/ EndWait \/ BackoffWait \/ PauseEnds
  <2>1. depth' = depth /\ \E at \in WorkerSteps : GoTo(at)
    BY <1>2 DEF LoopTop, IdleLook, CheckPrerequisites, EndWait, BackoffWait, PauseEnds,
                StartWait
  <2> QED
    BY <1>0, <2>1, GoToKeepsQueue
<1>3. CASE PeekForUpload
  <2>1. depth' = depth
    BY <1>3 DEF PeekForUpload
  <2>2. CASE GoTo("backoff")
    BY <1>0, <2>1, <2>2, GoToKeepsQueue
  <2>3. CASE /\ depth > 0
             /\ worker' = [at |-> "request", endpoint |-> config.endpoint,
                           evicted |-> 0, batch |-> Smaller(BatchSize, depth)]
    <3>1. /\ Smaller(BatchSize, depth) \in 1 .. BatchSize
          /\ Smaller(BatchSize, depth) <= depth
          /\ 0 \in 0 .. BatchSize
          /\ 0 <= Smaller(BatchSize, depth)
          /\ Smaller(BatchSize, depth) - 0 <= depth
      BY <1>0, <2>3, WorkerAssumption DEF Smaller
    <3>2. config.endpoint \in Endpoints
      BY DEF RestType
    <3>3. worker' \in [at : {"request"}, endpoint : Endpoints,
                       batch : 1 .. BatchSize, evicted : 0 .. BatchSize]
      BY <2>3, <3>1, <3>2
    <3>4. worker'.evicted = 0 /\ worker'.batch = Smaller(BatchSize, depth)
      BY <2>3
    <3> QED
      BY <1>0, <2>1, <3>1, <3>3, <3>4 DEF QueueType, BatchInv
  <2> QED
    BY <1>3, <2>2, <2>3 DEF PeekForUpload
<1>4. CASE UploadFails
  BY <1>0, <1>4, GoToKeepsQueue DEF UploadFails
<1>5. CASE \E items \in Answers : UploadAccepted(items) \/ FinishFails(items)
  BY <1>5, AnswerKeepsQueue
<1>6. CASE BeginHeartbeat \/ HeartbeatCheck \/ HeartbeatSend \/ HeartbeatReturns
  <2>1. depth' = depth /\ \E at \in WorkerSteps : GoTo(at)
    BY <1>6 DEF BeginHeartbeat, HeartbeatCheck, HeartbeatSend, HeartbeatReturns
  <2> QED
    BY <1>0, <2>1, GoToKeepsQueue
<1>7. CASE HandleRequest \/ FlushNow \/ SntpSync \/ TrustTime \/ NetworkChanges \/ Tick
  <2>1. depth' = depth /\ worker' = worker
    BY <1>7 DEF HandleRequest, HandleGateway, HandleBackend, HandleHeartbeat, ApplyConfig,
                FlushNow, SntpSync, TrustTime, NetworkChanges, Tick, taskVars
  <2> QED
    BY <1>1, <2>1
<1>8. CASE UNCHANGED workerVars
  BY <1>1, <1>8 DEF workerVars, taskVars
<1> QED
  BY <1>2, <1>3, <1>4, <1>5, <1>6, <1>7, <1>8, EnqueueKeepsQueue DEF WorkerNext, WorkerStep

-----------------------------------------------------------------------------
(* The notification, the timers and the configuration. *)

\* Every step keeps the types of the rest of the state.
LEMMA RestStep ==
  ASSUME RestType, StatusType, [WorkerNext]_workerVars
  PROVE  RestType'
<1> DEFINE still == UNCHANGED <<config, notified, left, dueIn, network, sntp, trusted,
                                asked, applies>>
<1>1. CASE still
  BY <1>1 DEF RestType
<1>2. CASE LoopTop \/ PauseEnds
  BY <1>2 DEF RestType, LoopTop, PauseEnds, timeVars
<1>3. CASE IdleLook \/ CheckPrerequisites
  BY <1>3, WorkerAssumption DEF RestType, IdleLook, CheckPrerequisites, StartWait, timeVars
<1>4. CASE EndWait
  BY <1>4 DEF RestType, EndWait, timeVars
<1>5. CASE BackoffWait
  <2>1. PICK jitter \in 0 .. backoff \div 5 : left' = backoff + jitter
    BY <1>5 DEF BackoffWait, StartWait
  <2>2. backoff \in Nat
    BY WorkerAssumption DEF StatusType
  <2>3. left' \in Nat
    BY <2>1, <2>2
  <2>4. UNCHANGED <<config, notified, dueIn, network, sntp, trusted, asked, applies>>
    BY <1>5 DEF BackoffWait, StartWait, timeVars
  <2> QED
    BY <2>3, <2>4 DEF RestType
<1>6. CASE PeekForUpload \/ UploadFails
  BY <1>1, <1>6 DEF PeekForUpload, UploadFails, timeVars
<1>7. CASE \E items \in Answers : UploadAccepted(items) \/ FinishFails(items)
  BY <1>1, <1>7 DEF UploadAccepted, FinishFails, timeVars
<1>8. CASE BeginHeartbeat
  <2>1. dueIn' = config.interval \/ dueIn' = dueIn
    BY <1>8 DEF BeginHeartbeat
  <2>2. dueIn' \in Nat
    BY <2>1, WorkerAssumption DEF RestType
  <2>3. UNCHANGED <<config, notified, left, network, sntp, trusted, asked, applies>>
    BY <1>8 DEF BeginHeartbeat, timeVars
  <2> QED
    BY <2>2, <2>3 DEF RestType
<1>9. CASE HeartbeatCheck \/ HeartbeatSend \/ HeartbeatReturns
  BY <1>1, <1>9 DEF HeartbeatCheck, HeartbeatSend, HeartbeatReturns, timeVars
<1>10. CASE HandleRequest
  <2>1. PICK c : ApplyConfig(c) /\ c \in [endpoint : Endpoints, interval : Intervals]
    <3>1. config \in [endpoint : Endpoints, interval : Intervals]
      BY DEF RestType
    <3>2. CASE HandleGateway
      BY <3>1, <3>2, Zenon DEF HandleGateway
    <3>3. ASSUME NEW endpoint \in Endpoints, HandleBackend(endpoint)
          PROVE  \E c : ApplyConfig(c) /\ c \in [endpoint : Endpoints, interval : Intervals]
      <4>1. [config EXCEPT !.endpoint = endpoint] \in [endpoint : Endpoints, interval : Intervals]
        BY <3>1
      <4> QED
        BY <3>3, <4>1, Zenon DEF HandleBackend
    <3>4. ASSUME NEW interval \in Intervals, HandleHeartbeat(interval)
          PROVE  \E c : ApplyConfig(c) /\ c \in [endpoint : Endpoints, interval : Intervals]
      <4>1. [config EXCEPT !.interval = interval] \in [endpoint : Endpoints, interval : Intervals]
        BY <3>1
      <4> QED
        BY <3>4, <4>1, Zenon DEF HandleHeartbeat
    <3> QED
      BY <1>10, <3>2, <3>3, <3>4, Zenon DEF HandleRequest
  <2>2. applies' \in 0 .. MaxApplies
    BY <1>10, WorkerAssumption DEF HandleRequest, RestType
  <2>3. c.interval \in Nat
    BY <2>1, WorkerAssumption
  <2> QED
    BY <2>1, <2>2, <2>3 DEF ApplyConfig, RestType, taskVars, timeVars
<1>11. CASE FlushNow
  BY <1>11 DEF FlushNow, RestType, taskVars, timeVars
<1>12. CASE Enqueue
  BY <1>1, <1>12 DEF Enqueue, timeVars
<1>13. CASE SntpSync \/ TrustTime \/ NetworkChanges
  BY <1>13 DEF SntpSync, TrustTime, NetworkChanges, RestType, taskVars, timeVars
<1>14. CASE Tick
  <2>1. left' \in Nat /\ dueIn' \in Nat
    BY <1>14 DEF Tick, RestType
  <2> QED
    BY <1>14, <2>1 DEF Tick, RestType, timeVars
<1>15. CASE UNCHANGED workerVars
  BY <1>1, <1>15 DEF workerVars, taskVars, timeVars
<1> QED
  BY <1>2, <1>3, <1>4, <1>5, <1>6, <1>7, <1>8, <1>9, <1>10, <1>11, <1>12, <1>13, <1>14, <1>15
     DEF WorkerNext, WorkerStep

\* What a step may do to the notification and to what it stands for.
LEMMA AskedStep ==
  ASSUME AskedInv, QueueType, [WorkerNext]_workerVars
  PROVE  AskedInv'
<1> SUFFICES \/ asked' = FALSE \/ notified' = TRUE \/ worker'.at = "top"
             \/ /\ UNCHANGED <<asked, notified>>
                /\ worker.at # "top" \/ worker'.at = worker.at
  BY DEF AskedInv
<1>1. CASE LoopTop \/ PauseEnds \/ IdleLook \/ CheckPrerequisites \/ EndWait \/ BackoffWait
  BY <1>1 DEF LoopTop, PauseEnds, IdleLook, CheckPrerequisites, EndWait, BackoffWait,
              StartWait, GoTo
<1>2. CASE PeekForUpload \/ UploadFails
  BY <1>2 DEF PeekForUpload, UploadFails
<1>3. CASE \E items \in Answers : UploadAccepted(items) \/ FinishFails(items)
  BY <1>3 DEF UploadAccepted, FinishFails
<1>4. CASE BeginHeartbeat \/ HeartbeatCheck \/ HeartbeatSend \/ HeartbeatReturns
  BY <1>4 DEF BeginHeartbeat, HeartbeatCheck, HeartbeatSend, HeartbeatReturns
<1>5. CASE HandleRequest \/ FlushNow
  BY <1>5 DEF HandleRequest, HandleGateway, HandleBackend, HandleHeartbeat, ApplyConfig,
              FlushNow
<1>6. CASE Enqueue
  <2>1. UNCHANGED <<asked, notified>>
    BY <1>6 DEF Enqueue
  <2>2. worker'.at = worker.at
    BY <1>6 DEF Enqueue, QueueType
  <2> QED
    BY <2>1, <2>2
<1>7. CASE SntpSync \/ TrustTime \/ NetworkChanges \/ Tick
  BY <1>7 DEF SntpSync, TrustTime, NetworkChanges, Tick, taskVars
<1>8. CASE UNCHANGED workerVars
  BY <1>8 DEF workerVars, taskVars
<1> QED
  BY <1>1, <1>2, <1>3, <1>4, <1>5, <1>6, <1>7, <1>8 DEF WorkerNext, WorkerStep

-----------------------------------------------------------------------------
(* The theorems. *)

\* The task is created with nothing reported and nothing asked for.
LEMMA InitEstablishes ==
  ASSUME WorkerInit
  PROVE  InductiveInv
<1> USE DEF WorkerInit
<1>1. StatusType /\ StreakInv
  <2>1. outcomes = <<>> /\ failures = 0 /\ backoff = 0 /\ succeeded = FALSE
    BY Zenon
  <2>2. 0 \in 0 .. FailureLimit
    BY WorkerAssumption
  <2>3. outcomes \in Seq(BOOLEAN) /\ Len(outcomes) = 0 /\ DOMAIN outcomes = {}
    BY <2>1
  <2>4. StatusType
    <3>1. Len(outcomes) <= 3
      BY <2>3
    <3> QED
      BY <2>1, <2>2, <2>3, <3>1, Zenon DEF StatusType
  <2>5. StreakInv
    BY <2>1, <2>3 DEF StreakInv
  <2> QED
    BY <2>4, <2>5
<1>2. QueueType /\ BatchInv
  BY DEF QueueType, BatchInv, WorkerSteps
<1>3. RestType /\ AskedInv
  <2>1. config.interval \in Nat
    BY WorkerAssumption
  <2>2. 0 \in Nat /\ 0 \in 0 .. MaxApplies
    BY WorkerAssumption
  <2>3. RestType
    BY <2>1, <2>2, Zenon DEF RestType
  <2> QED
    BY <2>3 DEF AskedInv
<1> QED
  BY <1>1, <1>2, <1>3 DEF InductiveInv

(***************************************************************************)
(* The status tells the last three uploads: the failures in a row that     *)
(* `failures` counts are those at the front of `outcomes`.                 *)
(***************************************************************************)
LEMMA StreakIsHonest ==
  ASSUME StatusType, StreakInv
  PROVE  ConnectivityHonest
<1> DEFINE L == Len(outcomes)
<1>1. L \in 0 .. 3 /\ DOMAIN outcomes = 1 .. L /\ failures \in Nat
  BY ShortSeq, WorkerAssumption DEF StatusType
<1>2. /\ \A k \in 1 .. L : k <= failures => ~outcomes[k]
      /\ \A k \in 1 .. L : k = failures + 1 => outcomes[k]
      /\ succeeded => L > 0
      /\ failures <= L \/ L = 3
      /\ \A k \in 1 .. L : outcomes[k] => succeeded
  BY <1>1 DEF StreakInv
<1>3. CASE L = 0
  <2>1. outcomes = <<>> /\ failures = 0 /\ ~succeeded
    BY <1>1, <1>2, <1>3 DEF StatusType
  <2> QED
    BY <2>1 DEF ConnectivityHonest, ClassifyBackendConnectivity
<1>4. CASE L > 0 /\ failures = 0
  <2>1. 1 \in 1 .. L /\ outcomes # <<>>
    BY <1>1, <1>4
  <2>2. outcomes[1] /\ succeeded
    BY <1>2, <1>4, <2>1
  <2> QED
    BY <1>4, <2>1, <2>2 DEF ConnectivityHonest, ClassifyBackendConnectivity
<1>5. CASE L > 0 /\ failures > 0
  <2>1. 1 \in 1 .. L /\ outcomes # <<>> /\ 1 <= failures /\ failures # 0
    BY <1>1, <1>5
  <2>2. ~outcomes[1]
    BY <1>2, <2>1
  <2>3. ASSUME failures >= 3
        PROVE  outcomes = <<FALSE, FALSE, FALSE>>
    <3>1. L = 3
      BY <1>1, <1>2, <2>3
    <3>2. ~outcomes[1] /\ ~outcomes[2] /\ ~outcomes[3]
      BY <1>1, <1>2, <2>3, <3>1
    <3>3. outcomes \in Seq(BOOLEAN)
      BY DEF StatusType
    <3>4. outcomes[1] = FALSE /\ outcomes[2] = FALSE /\ outcomes[3] = FALSE
      <4>1. \A k \in 1 .. L : outcomes[k] \in BOOLEAN
        BY <3>3, ElementOfSeq
      <4>2. 1 \in 1 .. L /\ 2 \in 1 .. L /\ 3 \in 1 .. L
        BY <3>1
      <4> QED
        BY <3>2, <4>1, <4>2, Zenon
    <3> DEFINE o == <<FALSE, FALSE, FALSE>>
    <3>5. o \in Seq(BOOLEAN) /\ Len(o) = 3
      OBVIOUS
    <3>6. o[1] = FALSE /\ o[2] = FALSE /\ o[3] = FALSE
      BY Zenon
    <3>7. \A k \in 1 .. L : k = 1 \/ k = 2 \/ k = 3
      BY <3>1
    <3>8. \A k \in 1 .. L : outcomes[k] = o[k]
      BY <3>4, <3>6, <3>7, Zenon
    <3> HIDE DEF o
    <3>9. outcomes = o
      BY <3>1, <3>3, <3>5, <3>8, SeqEqual, Zenon
    <3> QED
      BY <3>9 DEF o
  <2>4. ASSUME outcomes = <<FALSE, FALSE, FALSE>>
        PROVE  failures >= 3
    <3>1. L = 3
      BY <2>4
    <3>2. \A k \in 1 .. 3 : ~outcomes[k]
      <4>1. ~outcomes[1] /\ ~outcomes[2] /\ ~outcomes[3]
        BY <2>4, Zenon
      <4>2. \A k \in 1 .. 3 : k = 1 \/ k = 2 \/ k = 3
        OBVIOUS
      <4> QED
        BY <4>1, <4>2, Zenon
    <3>3. failures + 1 \notin 1 .. 3
      BY <1>2, <3>1, <3>2
    <3> QED
      BY <1>1, <3>3
  <2>5. failures < 3 <=> outcomes # <<FALSE, FALSE, FALSE>>
    <3>1. failures < 3 <=> ~(failures >= 3)
      BY <1>1
    <3> QED
      BY <2>3, <2>4, <3>1, Zenon
  <2> QED
    BY <2>1, <2>2, <2>5, Zenon DEF ConnectivityHonest, ClassifyBackendConnectivity
<1> QED
  BY <1>1, <1>3, <1>4, <1>5

\* WorkerInv with its consequences: it holds in every reachable state.
THEOREM WorkerInvInvariant == WorkerSpec => []WorkerInv
<1>1. WorkerInit => InductiveInv
  BY InitEstablishes
<1>2. InductiveInv /\ [WorkerNext]_workerVars => InductiveInv'
  BY StatusStep, QueueStep, RestStep, AskedStep DEF InductiveInv
<1>3. InductiveInv => WorkerInv
  <2> SUFFICES ASSUME InductiveInv PROVE WorkerInv
    OBVIOUS
  <2>1. ConnectivityHonest
    BY StreakIsHonest DEF InductiveInv
  <2>2. AskedEndsWait
    BY DEF InductiveInv, AskedInv, AskedEndsWait
  <2> QED
    BY <2>1, <2>2, TypeParts DEF InductiveInv, WorkerInv
<1> QED
  BY <1>1, <1>2, <1>3, PTL DEF WorkerSpec

(***************************************************************************)
(* Type correctness; for the backoff, that it never leaves the two limits  *)
(* of the configuration, and for the queue, that no answer takes out more  *)
(* records than there are.                                                 *)
(***************************************************************************)
THEOREM WorkerTypeCorrect == WorkerSpec => []WorkerTypeOK
<1>1. WorkerInv => WorkerTypeOK
  BY DEF WorkerInv
<1> QED
  BY <1>1, WorkerInvInvariant, PTL

(***************************************************************************)
(* What classifyBackendConnectivity() reports is what the last three       *)
(* uploads were, for any number of uploads and heartbeats, also when the   *)
(* counter stands at its limit.                                            *)
(***************************************************************************)
THEOREM ConnectivityAlwaysHonest == WorkerSpec => []ConnectivityHonest
<1>1. WorkerInv => ConnectivityHonest
  BY DEF WorkerInv
<1> QED
  BY <1>1, WorkerInvInvariant, PTL

(***************************************************************************)
(* flushNow() and applyConfig() end the wait of the task, wherever it was  *)
(* when they were called.                                                  *)
(***************************************************************************)
THEOREM AskedAlwaysEndsWait == WorkerSpec => []AskedEndsWait
<1>1. WorkerInv => AskedEndsWait
  BY DEF WorkerInv
<1> QED
  BY <1>1, WorkerInvInvariant, PTL

(***************************************************************************)
(* An upload that uploadOnce() reports as a success has taken its whole    *)
(* batch out of the queue, for every answer of the backend; if the radio   *)
(* task evicted a record of it meanwhile, the upload is no success.        *)
(***************************************************************************)
THEOREM SuccessAlwaysMeansAll == WorkerSpec => SuccessMeansAll
<1> DEFINE all == worker.at = "request" /\ worker'.at = "pause" =>
                    worker.evicted = 0 /\ depth' = depth - worker.batch
<1>1. WorkerInv /\ [WorkerNext]_workerVars => [all]_workerVars
  <2> SUFFICES ASSUME WorkerInv, [WorkerNext]_workerVars,
                      worker.at = "request", worker'.at = "pause"
               PROVE  worker.evicted = 0 /\ depth' = depth - worker.batch
    OBVIOUS
  <2>1. QueueType /\ BatchInv
    BY TypeParts DEF WorkerInv
  <2>2. PICK items \in Answers : UploadAccepted(items)
    <3>1. worker' # worker
      BY Zenon
    <3>2. ~(UNCHANGED workerVars)
      BY <3>1 DEF workerVars, taskVars
    <3>3. ~(LoopTop \/ IdleLook \/ CheckPrerequisites \/ EndWait \/ BackoffWait \/ PauseEnds)
      BY DEF LoopTop, IdleLook, CheckPrerequisites, EndWait, BackoffWait, PauseEnds
    <3>4. ~(PeekForUpload \/ UploadFails)
      <4>1. ~GoTo("backoff")
        BY GoToAt
      <4>2. ~PeekForUpload
        BY DEF PeekForUpload
      <4> QED
        BY <4>1, <4>2, Zenon DEF UploadFails
    <3>5. \A items \in Answers : ~FinishFails(items)
      <4>1. ~GoTo("backoff")
        BY GoToAt
      <4> QED
        BY <4>1, Zenon DEF FinishFails
    <3>6. ~(BeginHeartbeat \/ HeartbeatCheck \/ HeartbeatSend \/ HeartbeatReturns)
      BY DEF BeginHeartbeat, HeartbeatCheck, HeartbeatSend, HeartbeatReturns
    <3>7. ~(HandleRequest \/ FlushNow \/ SntpSync \/ TrustTime \/ NetworkChanges \/ Tick)
      BY <3>1 DEF HandleRequest, HandleGateway, HandleBackend, HandleHeartbeat, ApplyConfig,
                  FlushNow, SntpSync, TrustTime, NetworkChanges, Tick, taskVars
    <3>8. ~Enqueue
      BY <2>1 DEF Enqueue, QueueType
    <3> QED
      BY <3>2, <3>3, <3>4, <3>5, <3>6, <3>7, <3>8 DEF WorkerNext, WorkerStep
  <2> DEFINE removed == StillThere(items)
  <2>3. /\ ParseBackendBatchResponse(items, worker.batch)
        /\ Cardinality(removed) = Len(items)
        /\ depth' = depth - Cardinality(removed)
    BY <2>2 DEF UploadAccepted, CanFinish
  <2>4. BackendBatchResponseComplete(items, worker.batch)
    <3>1. ~GoTo("backoff")
      BY GoToAt
    <3> QED
      BY <2>2, <3>1, Zenon DEF UploadAccepted
  <2>5. Cardinality(removed) \in 0 .. worker.batch - worker.evicted
    BY <2>1, <2>3, RequestFacts, NamedRecords DEF StillThere
  <2>6. Cardinality(removed) = worker.batch
    BY <2>3, <2>4 DEF BackendBatchResponseComplete
  <2>7. worker.evicted \in 0 .. worker.batch /\ worker.batch \in Nat
    BY <2>1, RequestFacts
  <2>8. worker.evicted = 0
    BY <2>5, <2>6, <2>7
  <2> QED
    BY <2>3, <2>6, <2>8
<1> QED
  BY <1>1, WorkerInvInvariant, PTL DEF WorkerSpec, SuccessMeansAll
=============================================================================
