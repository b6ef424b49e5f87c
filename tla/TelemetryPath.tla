--------------------------- MODULE TelemetryPath ---------------------------
(***************************************************************************)
(* The path of a measurement through the Gateway: the radio task           *)
(* (PacketProcessor::process for a telemetry frame of the paired Node),    *)
(* the durable queue, the backend worker (BackendWorker::uploadOnce) and   *)
(* the Backend.  The radio task and the worker share the queue and nothing *)
(* else; each blocks on the queue mutex, so their steps interleave between *)
(* queue operations and, with a power loss, inside them.                   *)
(*                                                                         *)
(* The Node and the Backend are external.  The Node may transmit any key   *)
(* at any time: a retransmission after a lost ACK, a late duplicate and a  *)
(* new measurement are the same event here.  The Backend stores each       *)
(* record of a request or not, and its answer may be lost, partial or late.*)
(***************************************************************************)
EXTENDS DurableQueue

CONSTANT BatchSize   \* config.batchSize

ASSUME BatchAssumption == BatchSize \in Nat \ {0}

VARIABLES
  radio,      \* the radio task: where process() stands, and the frame's key
  worker,     \* the backend worker: where uploadOnce() stands, and its batch
  acked,      \* history: keys for which an ACK has been transmitted
  terminal    \* the Backend's: keys that it has stored or rejected for good

pathVars == <<radio, worker, acked, terminal>>
vars == <<qvars, pathVars>>

RadioSteps == {"listen", "check", "enqueue", "storing", "ack"}
Listening == [at |-> "listen", key |-> NoKey]
WorkerIdle == [at |-> "idle", batch |-> <<>>]

\* Keys that the Gateway has acknowledged and still has to deliver.
Owed == acked \ (terminal \cup discarded)

-----------------------------------------------------------------------------
(***************************************************************************)
(* The radio task.                                                         *)
(***************************************************************************)

\* A telemetry frame of the paired Node decodes.
ReceiveFrame(k) ==
  /\ Healthy \/ op.at = "failed"
  /\ radio.at = "listen"
  /\ radio' = [at |-> "check", key |-> k]
  /\ UNCHANGED <<qvars, worker, acked, terminal>>

\* containsKey() under the mutex; the enqueue that follows takes it again.
CheckDuplicate ==
  /\ radio.at = "check"
  /\ \E found \in BOOLEAN :
       /\ Lookup(radio.key, found)
       /\ radio' = [radio EXCEPT !.at = IF found THEN "ack" ELSE "enqueue"]
  /\ UNCHANGED <<worker, acked, terminal>>

StartEnqueue ==
  /\ radio.at = "enqueue"
  /\ EnqueueBegin(radio.key)
  /\ radio' = [radio EXCEPT !.at = "storing"]
  /\ UNCHANGED <<worker, acked, terminal>>

\* begin() failed: durablyEnqueue() returns {} and no ACK is sent.
EnqueueUnavailable ==
  /\ radio.at = "enqueue"
  /\ op.at = "failed"
  /\ radio' = Listening
  /\ UNCHANGED <<qvars, worker, acked, terminal>>

\* Mutant: a failed enqueue is tried again until it works.
EnqueueRetried ==
  /\ radio.at = "storing"
  /\ Return
  /\ radio' = [radio EXCEPT !.at = IF op.ok THEN "ack" ELSE "enqueue"]
  /\ UNCHANGED <<worker, acked, terminal>>

\* Mutant: whatever enqueue() returns is acknowledged.
EnqueueReturnsAnyway ==
  /\ radio.at = "storing"
  /\ Return
  /\ radio' = [radio EXCEPT !.at = "ack"]
  /\ UNCHANGED <<worker, acked, terminal>>

\* Only a persisted record is acknowledged.
EnqueueReturns ==
  /\ radio.at = "storing"
  /\ Return
  /\ radio' = IF op.ok THEN [radio EXCEPT !.at = "ack"] ELSE Listening
  /\ UNCHANGED <<worker, acked, terminal>>

\* The ACK goes on the air, or its encoding or transmission fails.
TransmitAck ==
  /\ radio.at = "ack"
  /\ acked' \in {acked, acked \cup {radio.key}}
  /\ radio' = Listening
  /\ UNCHANGED <<qvars, worker, terminal>>

-----------------------------------------------------------------------------
(***************************************************************************)
(* The backend worker: uploadOnce().                                       *)
(***************************************************************************)

\* peek(); if a record is unreadable the worker only backs off.
PeekBatch ==
  /\ worker.at = "idle"
  /\ op.at = "idle"
  /\ entries # <<>>
  /\ PeekReadable(BatchSize)
  /\ worker' = [at |-> "request", batch |-> PeekRecords(BatchSize)]
  /\ UNCHANGED <<qvars, radio, acked, terminal>>

\* No answer, a non-200 answer or one that does not parse: all retained.
RequestFails ==
  /\ worker.at = "request"
  /\ worker' = WorkerIdle
  /\ UNCHANGED <<qvars, radio, acked, terminal>>

\* Mutant: a 200 answer finishes the whole batch.
FinishWholeBatch(answered) ==
  /\ worker.at = "request"
  /\ \A i \in answered : worker.batch[i].key \in terminal
  /\ FinishBegin({worker.batch[i] : i \in DOMAIN worker.batch})
  /\ worker' = [worker EXCEPT !.at = "finishing"]
  /\ UNCHANGED <<radio, acked, terminal>>

\* A 200 answer with results for the indexes in `answered`; the others are
\* retained.  The terminal actions are handed to finish().
HandleResponse(answered) ==
  /\ worker.at = "request"
  /\ \A i \in answered : worker.batch[i].key \in terminal
  /\ FinishBegin({worker.batch[i] : i \in answered})
  /\ worker' = [worker EXCEPT !.at = "finishing"]
  /\ UNCHANGED <<radio, acked, terminal>>

\* Mutant: the worker sends the batch it has just finished again.
FinishReturnsToRequest ==
  /\ worker.at = "finishing"
  /\ Return
  /\ worker' = [worker EXCEPT !.at = "request"]
  /\ UNCHANGED <<radio, acked, terminal>>

FinishReturns ==
  /\ worker.at = "finishing"
  /\ Return
  /\ worker' = WorkerIdle
  /\ UNCHANGED <<radio, acked, terminal>>

-----------------------------------------------------------------------------
(***************************************************************************)
(* The Backend: a record of the request in flight gets a terminal status   *)
(* (INSERTED, DUPLICATE or REJECTED_INVALID), whether or not the answer    *)
(* ever reaches the Gateway.                                               *)
(***************************************************************************)
BackendDecides(i) ==
  /\ worker.at = "request"
  /\ worker.batch[i].key \notin terminal
  /\ terminal' = terminal \cup {worker.batch[i].key}
  /\ UNCHANGED <<qvars, radio, worker, acked>>

-----------------------------------------------------------------------------
\* Power loss stops both tasks where they are.
Restart ==
  /\ PowerLoss
  /\ radio' = Listening
  /\ worker' = WorkerIdle
  /\ UNCHANGED <<acked, terminal>>

QueueStep ==
  /\ EnqueueStep \/ FinishStep \/ BootStep
  /\ UNCHANGED pathVars

Checkpoint == CheckpointCounters /\ UNCHANGED pathVars

Decay ==
  /\ \E id \in RecordIds : MediaDecay(id)
  /\ UNCHANGED pathVars

RadioStep ==
  \/ CheckDuplicate \/ StartEnqueue \/ EnqueueUnavailable \/ EnqueueReturns
  \/ TransmitAck

Init ==
  /\ QInit
  /\ radio = Listening
  /\ worker = WorkerIdle
  /\ acked = {}
  /\ terminal = {}

Next ==
  \/ \E k \in Keys : ReceiveFrame(k)
  \/ RadioStep
  \/ PeekBatch
  \/ RequestFails
  \/ \E answered \in SUBSET DOMAIN worker.batch : HandleResponse(answered)
  \/ FinishReturns
  \/ \E i \in DOMAIN worker.batch : BackendDecides(i)
  \/ QueueStep
  \/ Checkpoint
  \/ Restart
  \/ Decay

Spec == Init /\ [][Next]_vars

(***************************************************************************)
(* Both tasks keep running and the queue's storage calls return.  The      *)
(* worker retries for ever, and the Backend is assumed to answer a retried *)
(* request eventually: strong fairness, since failed requests and          *)
(* operations of the radio task come in between.                           *)
(***************************************************************************)
Fairness ==
  /\ WF_vars(RadioStep)
  /\ WF_vars(QueueStep)
  /\ WF_vars(FinishReturns)
  /\ SF_vars(PeekBatch)
  /\ SF_vars(\E i \in DOMAIN worker.batch : BackendDecides(i))
  /\ SF_vars(HandleResponse(DOMAIN worker.batch))

FairSpec == Spec /\ Fairness

-----------------------------------------------------------------------------
\* The variables of the two tasks have the types of what they hold.
TypeOK ==
  /\ QTypeOK
  /\ radio \in [at : RadioSteps, key : Keys \cup {NoKey}]
  /\ worker \in [at : {"idle", "request", "finishing"}, batch : Seq(Action)]
  /\ acked \subseteq Keys
  /\ terminal \subseteq Keys

StoredKeys == {flash[i] : i \in RecordIds}
IndexedKeys == {flash[e] : e \in IdsOf(entries)}

(***************************************************************************)
(* AckedNotLost.  An ACK transfers custody: a key the Gateway has          *)
(* acknowledged and neither delivered nor explicitly given up is on flash, *)
(* and once the queue is up it is in the index, so it will be uploaded.    *)
(* (packet_processor.cpp: ACK only after durablyEnqueue or containsKey;    *)
(* durable_queue_core.cpp: enqueue, recover, remove.)                      *)
(***************************************************************************)
AckedNotLost ==
  /\ Owed \subseteq StoredKeys
  /\ Healthy => Owed \subseteq IndexedKeys

(***************************************************************************)
(* RingHoldsOnlyTerminal.  A key in the recent ring is acknowledged again  *)
(* without being stored, so the ring, in RAM and on flash, only ever holds *)
(* keys that the Backend has settled.  (durable_queue.cpp: finish,         *)
(* loadRecent; backend_worker.cpp: uploadOnce builds the actions from the  *)
(* results, not from the batch.)                                           *)
(***************************************************************************)
RingHoldsOnlyTerminal ==
  /\ \A i \in DOMAIN recent : recent[i] \in terminal
  /\ \A i \in DOMAIN recentFile : recentFile[i] \in terminal

(***************************************************************************)
(* The inductive invariant of the composition.  OwnerInv: whoever began an *)
(* operation of the queue waits for it, and nobody else does.  BatchInv    *)
(* and TodoInv: what the worker peeked, and what finish() still has to do, *)
(* are within the contract, whatever was enqueued and dropped since.       *)
(***************************************************************************)
OwnerInv ==
  /\ op.at \in EnqueueSteps => radio.at = "storing"
  /\ op.at \in FinishSteps => worker.at = "finishing"
  /\ op.at = "return" => radio.at = "storing" \/ worker.at = "finishing"
  /\ radio.at = "storing" =>
       /\ op.at \in EnqueueSteps \cup {"return"}
       /\ worker.at # "finishing"
       /\ op.at # "return" \/ op.ok => op.key = radio.key
  /\ worker.at = "finishing" => op.at \in FinishSteps \cup {"return"}
  /\ worker.at # "idle" \/ radio.at = "ack" => Healthy
  /\ radio.at # "listen" => radio.key \in Keys
Batch == {worker.batch[i] : i \in DOMAIN worker.batch}
BatchInv == worker.at = "request" => FinishContract(Batch)
TodoInv ==
  op.at = "remove" => /\ FinishContract(op.todo)
                      /\ \A a \in op.todo : a.key \in terminal
\* The filesystem is formatted only while it holds nothing.
FreshInv == ~fsReady => /\ op.at \in {"off", "failed"}
                        /\ flash = [i \in RecordIds |-> NoFile]
PathInv ==
  /\ TypeOK /\ QInv
  /\ OwnerInv /\ BatchInv /\ TodoInv /\ FreshInv
  /\ RingHoldsOnlyTerminal

(***************************************************************************)
(* CustodyInv.  The Gateway answers for a key that is settled, given up or *)
(* in a record within the queue's reach: in the index, still to be scanned *)
(* by recover(), or, while there is no queue, anywhere on flash.  It does  *)
(* so for every key it has acknowledged, is about to acknowledge, or has   *)
(* sent to the Backend.                                                    *)
(***************************************************************************)
Reach == IF op.at \in {"off", "failed"} THEN RecordIds
         ELSE IF op.at = "scan" THEN IdsOf(entries) \cup op.scan
         ELSE IdsOf(entries)
Answered == terminal \cup discarded \cup {flash[i] : i \in Reach}
CustodyInv ==
  /\ acked \subseteq Answered
  /\ radio.at = "ack" => radio.key \in Answered
  /\ radio.at = "storing" /\ op.at \in {"checkpoint", "return"} /\ op.ok =>
       radio.key \in Answered
  /\ worker.at = "request" => \A b \in Batch : b.key \in Answered
  /\ op.at = "evict" => op.key \in discarded \cup {flash[nextRecordId]}

(***************************************************************************)
(* UniqueInv.  Why a key has one record while every read works: a file     *)
(* with a key is within the queue's reach or lies under the next id, where *)
(* the next enqueue replaces it, and a key that is being enqueued is not   *)
(* in the index, from the lookup to the rename.                            *)
(***************************************************************************)
UniqueInv ==
  /\ NoDuplicateRecords
  /\ \A i \in RecordIds :
       flash[i] \in Keys => i \in Reach \/ (i = nextRecordId /\ op.at # "scan")
  /\ radio.at # "listen" => Healthy \/ op.at = "failed"
  /\ radio.at = "enqueue" /\ Healthy => radio.key \notin IndexedKeys
  /\ op.at \in {"write", "rename", "evictForSpace"} => op.key \notin IndexedKeys

(***************************************************************************)
(* OwedRecordKept.  A file that holds a key the Gateway still owes goes    *)
(* away only if the key has another file, or it was the oldest of at least *)
(* Capacity records, or it could no longer be read.  In particular no      *)
(* answer of the Backend to an earlier batch removes it, however the queue *)
(* changed while the request was in flight.                                *)
(***************************************************************************)
OldestOfFullQueue(id) ==
  /\ Len(entries) >= Capacity
  /\ \A e \in IdsOf(entries) : id <= e
OwedRecordKept ==
  [][\A i \in RecordIds :
       flash[i] \in Owed /\ flash'[i] # flash[i] =>
         \/ \E j \in RecordIds : flash'[j] = flash[i]
         \/ OldestOfFullQueue(i)
         \/ flash'[i] = Damaged
         \/ op.at = "scan" /\ faults' > faults]_vars

(***************************************************************************)
(* QueueUsedByContract.  The two tasks use the queue within its contract:  *)
(* every step of the composition is a step of the queue alone with some    *)
(* client, so finish() is only ever given record ids that still mean what  *)
(* they meant when they were peeked.                                       *)
(***************************************************************************)
QueueUsedByContract == QSpec

(***************************************************************************)
(* CustodyKept.  The tasks, the queue and its recovery together implement  *)
(* Custody: every step, also one that fails, interrupts or repeats         *)
(* another, is a step of the promise or changes nothing that it is about.  *)
(***************************************************************************)
C == INSTANCE Custody WITH
       held <- (StoredKeys \cap Keys) \ (discarded \cup terminal),
       settled <- terminal,
       givenUp <- (discarded \cap Keys) \ terminal
CustodyKept == C!CustodySpec

(***************************************************************************)
(* EventuallyDelivered.  Every key the Gateway owes is in the end settled  *)
(* by the Backend or explicitly given up, unless recovery after a power    *)
(* loss failed and the queue stays down.                                   *)
(***************************************************************************)
EventuallyDelivered ==
  \A k \in Keys : k \in Owed ~> (k \notin Owed \/ op.at = "failed")

(***************************************************************************)
(* RadioReturns.  Whatever a frame leads to, and whoever holds the queue   *)
(* mutex meanwhile, the radio task gets back to waiting for the next one.  *)
(***************************************************************************)
RadioReturns == radio.at # "listen" ~> radio.at = "listen"
=============================================================================
