--------------------------- MODULE BackendWorker ---------------------------
(***************************************************************************)
(* The backend worker's loop (lib/backend/backend_worker.cpp): when it     *)
(* uploads, how it backs off, when it sends a heartbeat, and what the      *)
(* dashboard's applyConfig() and flushNow() do to it meanwhile.  What an   *)
(* upload does to the records is TelemetryPath's subject; here the queue   *)
(* is its depth.  The part of the TimeManager that decides about trust is  *)
(* included, since HTTPS waits for it.                                     *)
(*                                                                         *)
(* Times are in units of a Tick; a timer is what is left of it.            *)
(***************************************************************************)
EXTENDS BackendContract

CONSTANTS
  Endpoints,        \* backend settings: credential set, HTTPS
  Intervals,        \* heartbeat intervals
  InitialBackoff,   \* config_.initialBackoffMs
  MaximumBackoff,   \* config_.maximumBackoffMs; no handler changes the two
  BatchSize,        \* config_.batchSize
  IdleWait,         \* the 1 s between two looks at an empty queue
  RetryWait,        \* the 5 s until the prerequisites are looked at again
  FailureLimit,     \* stands for UINT32_MAX, where consecutiveFailures stays
  MaxDepth,         \* queue capacity
  MaxApplies        \* bound on the configuration requests

ASSUME WorkerAssumption ==
  /\ Endpoints \subseteq [token : BOOLEAN, tls : BOOLEAN]
  /\ Intervals \subseteq Nat \ {0}
  /\ InitialBackoff \in Nat \ {0}
  /\ MaximumBackoff \in Nat /\ InitialBackoff <= MaximumBackoff
  /\ MaxBatch \in Nat \ {0}
  /\ BatchSize \in 1 .. MaxBatch
  /\ IdleWait \in Nat \ {0} /\ RetryWait \in Nat \ {0}
  /\ FailureLimit \in Nat /\ FailureLimit >= 3
  /\ MaxDepth \in Nat \ {0}
  /\ MaxApplies \in Nat

VARIABLES
  depth,      \* queue_->size()
  worker,     \* the task: where it is and, in a request, its locals
  config,     \* config_: endpoint and heartbeat interval
  backoff,    \* status_.currentBackoffMs
  failures,   \* status_.consecutiveFailures
  succeeded,  \* status_.telemetryUploadSuccessCount is not zero
  notified,   \* the notification value of the task is not zero
  left,       \* what is left of the task's wait
  dueIn,      \* what is left until nextDueUs_
  network,    \* networkAvailable()
  sntp,       \* the SNTP callback has come
  trusted,    \* TimeManager::trusted_
  asked,      \* history: a flush or new configuration since the loop last started over
  outcomes,   \* history: the last three upload operations, newest first
  applies     \* configuration requests so far

taskVars == <<worker, left>>
statusVars == <<backoff, failures, succeeded, outcomes>>
timeVars == <<sntp, trusted>>
workerVars == <<depth, taskVars, config, statusVars, notified, dueIn, network,
                timeVars, asked, applies>>

WorkerSteps == {"top", "idle", "check", "upload", "backoff", "wait", "pause",
                "beat", "beatCheck", "beatSend", "beatHttp"}

Smaller(a, b) == IF a < b THEN a ELSE b
GoTo(at) == worker' = [at |-> at]
Usable(e) == network /\ e.token /\ (e.tls => trusted)

-----------------------------------------------------------------------------
(* status_: setFailure() and setSuccess(). *)

\* Mutant: the backoff doubles without end.
UncappedBackoff == IF backoff = 0 THEN InitialBackoff ELSE 2 * backoff
NextBackoff ==
  IF backoff = 0 THEN InitialBackoff ELSE Smaller(2 * backoff, MaximumBackoff)

\* advanceBackoff is set at every call but those of CheckPrerequisites.
SetFailure(telemetryOperation) ==
  /\ backoff' = NextBackoff
  /\ IF telemetryOperation
     THEN /\ failures' = Smaller(failures + 1, FailureLimit)
          /\ outcomes' = <<FALSE>> \o SubSeq(outcomes, 1, Smaller(2, Len(outcomes)))
     ELSE UNCHANGED <<failures, outcomes>>
  /\ UNCHANGED succeeded

SetSuccess ==
  /\ backoff' = 0
  /\ failures' = 0
  /\ succeeded' = TRUE
  /\ outcomes' = <<TRUE>> \o SubSeq(outcomes, 1, Smaller(2, Len(outcomes)))

-----------------------------------------------------------------------------
(* run(). *)

\* Mutant: a heartbeat that is due is looked at before the queue.
LoopTopHeartbeatFirst ==
  /\ worker.at = "top"
  /\ GoTo(IF depth = 0 \/ dueIn = 0 THEN "idle" ELSE "check")
  /\ asked' = FALSE
  /\ UNCHANGED <<depth, left, config, statusVars, notified, dueIn, network,
                 timeVars, applies>>
LoopTop ==
  /\ worker.at = "top"
  /\ GoTo(IF depth = 0 THEN "idle" ELSE "check")
  /\ asked' = FALSE
  /\ UNCHANGED <<depth, left, config, statusVars, notified, dueIn, network,
                 timeVars, applies>>

\* Mutant: what was notified before the wait is forgotten.
StartFreshWait(length) == GoTo("wait") /\ left' = length /\ notified' = FALSE
\* ulTaskNotifyTake(pdTRUE, length): a notification given earlier ends it.
StartWait(length) == GoTo("wait") /\ left' = length /\ UNCHANGED notified

IdleLook ==
  /\ worker.at = "idle"
  /\ IF dueIn = 0 /\ depth = 0
     THEN GoTo("beat") /\ UNCHANGED <<left, notified>>
     ELSE StartWait(IdleWait)
  /\ UNCHANGED <<depth, config, statusVars, dueIn, network, timeVars,
                 asked, applies>>

\* Wi-Fi, credential and trusted time; without them no backoff is added.
CheckPrerequisites ==
  /\ worker.at = "check"
  /\ IF Usable(config.endpoint)
     THEN GoTo("upload") /\ UNCHANGED <<left, notified>>
     ELSE StartWait(RetryWait)
  /\ UNCHANGED <<depth, config, statusVars, dueIn, network, timeVars,
                 asked, applies>>

\* Mutant: only a notification ends the wait.
EndWaitNotified ==
  /\ worker.at = "wait"
  /\ notified
  /\ notified' = FALSE
  /\ left' = 0
  /\ GoTo("top")
  /\ UNCHANGED <<depth, config, statusVars, dueIn, network, timeVars, asked,
                 applies>>
EndWait ==
  /\ worker.at = "wait"
  /\ notified \/ left = 0
  /\ notified' = FALSE
  /\ left' = 0
  /\ GoTo("top")
  /\ UNCHANGED <<depth, config, statusVars, dueIn, network, timeVars,
                 asked, applies>>

\* The backoff is read again here, with up to a fifth of jitter on top.
BackoffWait ==
  /\ worker.at = "backoff"
  /\ \E jitter \in 0 .. backoff \div 5 : StartWait(backoff + jitter)
  /\ UNCHANGED <<depth, config, statusVars, dueIn, network, timeVars,
                 asked, applies>>

\* vTaskDelay() after a success; notifications do not shorten it.
PauseEnds ==
  /\ worker.at = "pause"
  /\ GoTo("top")
  /\ UNCHANGED <<depth, left, config, statusVars, notified, dueIn,
                 network, timeVars, asked, applies>>

-----------------------------------------------------------------------------
(* uploadOnce(). *)

\* peek() and serialisation, with a configuration snapshot of its own.
PeekForUpload ==
  /\ worker.at = "upload"
  /\ \/ /\ depth > 0
        /\ worker' = [at |-> "request", endpoint |-> config.endpoint,
                      evicted |-> 0, batch |-> Smaller(BatchSize, depth)]
        /\ UNCHANGED statusVars
     \/ /\ SetFailure(FALSE)
        /\ GoTo("backoff")
  /\ UNCHANGED <<depth, left, config, notified, dueIn, network, timeVars,
                 asked, applies>>

\* No connection, no answer, an answer other than 200, or one that does not
\* parse: every record is retained.
UploadFails ==
  /\ worker.at = "request"
  /\ SetFailure(TRUE)
  /\ GoTo("backoff")
  /\ UNCHANGED <<depth, left, config, notified, dueIn, network, timeVars,
                 asked, applies>>

\* The records an answer names, and those of them the queue still has.
Named(items) == {items[i].index : i \in DOMAIN items}
StillThere(items) == {i \in Named(items) : i >= worker.evicted}

\* Mutant: a record that is gone passes for removed.
EvictedFinished(items) == Cardinality(Named(items)) = Len(items)
\* finish() fails for a record it does not find.
CanFinish(items) == Cardinality(StillThere(items)) = Len(items)

UploadAccepted(items) ==
  /\ worker.at = "request"
  /\ Usable(worker.endpoint)
  /\ ParseBackendBatchResponse(items, worker.batch)
  /\ CanFinish(items)
  /\ depth' = depth - Cardinality(StillThere(items))
  /\ IF BackendBatchResponseComplete(items, worker.batch)
     THEN SetSuccess /\ GoTo("pause")
     ELSE SetFailure(TRUE) /\ GoTo("backoff")
  /\ UNCHANGED <<left, config, notified, dueIn, network, timeVars, asked,
                 applies>>

\* finish() fails, after some of the removals: a removal or the save of the
\* recent keys failed, or a record was dropped while the request was under
\* way.  Not an operation failure.
FinishFails(items) ==
  /\ worker.at = "request"
  /\ Usable(worker.endpoint)
  /\ ParseBackendBatchResponse(items, worker.batch)
  /\ items # <<>>
  /\ \E n \in 0 .. Cardinality(StillThere(items)) : depth' = depth - n
  /\ SetFailure(FALSE)
  /\ GoTo("backoff")
  /\ UNCHANGED <<left, config, notified, dueIn, network, timeVars, asked,
                 applies>>

-----------------------------------------------------------------------------
(* attemptHeartbeat(). *)

\* markAttempt(): the slot is used up, whatever follows.
BeginHeartbeat ==
  /\ worker.at = "beat"
  /\ GoTo(IF depth = 0 THEN "beatCheck" ELSE "top")
  /\ dueIn' = IF depth = 0 THEN config.interval ELSE dueIn
  /\ UNCHANGED <<depth, left, config, statusVars, notified, network, timeVars,
                 asked, applies>>

\* Deferred for telemetry, or no Wi-Fi, or no credential.
HeartbeatCheck ==
  /\ worker.at = "beatCheck"
  /\ GoTo(IF depth = 0 /\ network /\ config.endpoint.token THEN "beatSend" ELSE "top")
  /\ UNCHANGED <<depth, left, config, statusVars, notified, dueIn, network,
                 timeVars, asked, applies>>

\* The snapshot is captured; the queue is looked at once more before HTTP.
HeartbeatSend ==
  /\ worker.at = "beatSend"
  /\ GoTo(IF depth = 0 THEN "beatHttp" ELSE "top")
  /\ UNCHANGED <<depth, left, config, statusVars, notified, dueIn, network,
                 timeVars, asked, applies>>

\* Mutant: a failed heartbeat counts as a failed upload.
HeartbeatCounted ==
  /\ worker.at = "beatHttp"
  /\ GoTo("top")
  /\ failures' = Smaller(failures + 1, FailureLimit)
  /\ UNCHANGED <<depth, left, config, backoff, succeeded, outcomes, notified,
                 dueIn, network, timeVars, asked, applies>>
\* Delivered or not: neither status_ nor the backoff is touched.
HeartbeatReturns ==
  /\ worker.at = "beatHttp"
  /\ GoTo("top")
  /\ UNCHANGED <<depth, left, config, statusVars, notified, dueIn, network,
                 timeVars, asked, applies>>

-----------------------------------------------------------------------------
(* The dashboard, the radio task, the TimeManager and the environment. *)

\* applyConfig(): backoff and heartbeat schedule start over.
ApplyConfig(c) ==
  /\ config' = c
  /\ backoff' = 0
  /\ dueIn' = c.interval
  /\ notified' = TRUE
  /\ asked' = TRUE
  /\ UNCHANGED <<depth, taskVars, failures, succeeded, outcomes, network,
                 timeVars>>

\* The handlers, once the configuration is saved; one that is invalid or
\* cannot be saved changes nothing.
HandleGateway == ApplyConfig(config)
HandleBackend(endpoint) == ApplyConfig([config EXCEPT !.endpoint = endpoint])
HandleHeartbeat(interval) == ApplyConfig([config EXCEPT !.interval = interval])
HandleRequest ==
  /\ applies < MaxApplies
  /\ applies' = applies + 1
  /\ \/ HandleGateway
     \/ \E endpoint \in Endpoints : HandleBackend(endpoint)
     \/ \E interval \in Intervals : HandleHeartbeat(interval)

FlushNow ==
  /\ notified' = TRUE
  /\ asked' = TRUE
  /\ UNCHANGED <<depth, taskVars, config, statusVars, dueIn, network, timeVars,
                 applies>>

\* The radio task stores a record; a full queue drops its oldest for it, also
\* if the write that follows fails.  Other failures leave the queue alone.
Enqueue ==
  /\ IF depth < MaxDepth
     THEN depth' = depth + 1 /\ UNCHANGED worker
     ELSE /\ worker' = IF worker.at = "request" /\ worker.evicted < worker.batch
                      THEN [worker EXCEPT !.evicted = @ + 1] ELSE worker
          /\ depth' \in {depth, depth - 1}
  /\ UNCHANGED <<left, config, statusVars, notified, dueIn, network, timeVars,
                 asked, applies>>

\* onSntpTimeSync(); the TimeManager's task notices within five seconds.
SntpSync ==
  /\ network
  /\ sntp' = TRUE
  /\ UNCHANGED <<depth, taskVars, config, statusVars, notified, dueIn, network,
                 trusted, asked, applies>>
TrustTime ==
  /\ sntp
  /\ trusted' = TRUE
  /\ UNCHANGED <<depth, taskVars, config, statusVars, notified, dueIn, network,
                 sntp, asked, applies>>

NetworkChanges ==
  /\ network' = ~network
  /\ UNCHANGED <<depth, taskVars, config, statusVars, notified, dueIn,
                 timeVars, asked, applies>>

Tick ==
  /\ left + dueIn > 0
  /\ left' = IF left = 0 THEN 0 ELSE left - 1
  /\ dueIn' = IF dueIn = 0 THEN 0 ELSE dueIn - 1
  /\ UNCHANGED <<depth, worker, config, statusVars, notified, network,
                 timeVars, asked, applies>>

-----------------------------------------------------------------------------
\* begin() applies the configuration before the task exists.
WorkerInit ==
  /\ config \in [endpoint : Endpoints, interval : Intervals]
  /\ depth \in 0 .. MaxDepth
  /\ worker = [at |-> "top"]
  /\ backoff = 0
  /\ failures = 0
  /\ succeeded = FALSE
  /\ notified = FALSE
  /\ left = 0
  /\ dueIn = config.interval
  /\ network = FALSE
  /\ sntp = FALSE
  /\ trusted = FALSE
  /\ asked = FALSE
  /\ outcomes = <<>>
  /\ applies = 0

WorkerStep ==
  \/ LoopTop \/ IdleLook \/ CheckPrerequisites \/ EndWait \/ BackoffWait
  \/ PauseEnds
  \/ PeekForUpload \/ UploadFails
  \/ /\ worker.at = "request"
     /\ \E items \in Answers : UploadAccepted(items) \/ FinishFails(items)
  \/ BeginHeartbeat \/ HeartbeatCheck \/ HeartbeatSend \/ HeartbeatReturns

WorkerNext ==
  \/ WorkerStep
  \/ HandleRequest \/ FlushNow \/ Enqueue
  \/ SntpSync \/ TrustTime \/ NetworkChanges
  \/ Tick

WorkerSpec == WorkerInit /\ [][WorkerNext]_workerVars

\* The worker runs, a request returns (it has a time-out), and time passes.
FairWorkerSpec ==
  /\ WorkerSpec
  /\ WF_workerVars(WorkerStep)
  /\ WF_workerVars(Tick)

-----------------------------------------------------------------------------
\* The variables have the types of what they hold.
WorkerTypeOK ==
  /\ depth \in 0 .. MaxDepth
  /\ \/ worker \in [at : WorkerSteps]
     \/ worker \in [at : {"request"}, endpoint : Endpoints,
                    batch : 1 .. BatchSize, evicted : 0 .. BatchSize]
  /\ config \in [endpoint : Endpoints, interval : Intervals]
  /\ backoff \in {0} \cup InitialBackoff .. MaximumBackoff
  /\ failures \in 0 .. FailureLimit
  /\ succeeded \in BOOLEAN
  /\ notified \in BOOLEAN
  /\ left \in Nat
  /\ dueIn \in Nat
  /\ network \in BOOLEAN /\ sntp \in BOOLEAN /\ trusted \in BOOLEAN
  /\ asked \in BOOLEAN
  /\ outcomes \in Seq(BOOLEAN) /\ Len(outcomes) <= 3
  /\ applies \in 0 .. MaxApplies

(***************************************************************************)
(* ConnectivityHonest.  The connectivity state is a function of the last   *)
(* three upload operations, and of nothing else: neither heartbeats nor    *)
(* prerequisites found missing before an upload move it; one that is lost  *)
(* between that look and the request makes a failed upload.                *)
(* (docs/gateway-heartbeat.md: "DEGRADED after one or two consecutive      *)
(* failures, and OFFLINE after three".)                                    *)
(***************************************************************************)
ConnectivityHonest ==
  ClassifyBackendConnectivity(IF succeeded THEN 1 ELSE 0, failures) =
    IF outcomes = <<>> THEN "UNKNOWN"
    ELSE IF outcomes[1] THEN "HEALTHY"
    ELSE IF outcomes = <<FALSE, FALSE, FALSE>> THEN "OFFLINE" ELSE "DEGRADED"

(***************************************************************************)
(* AskedEndsWait.  A flush or a new configuration never has to wait for a  *)
(* backoff to run out, also if it comes while a request is under way that  *)
(* fails afterwards, or just before the wait begins.                       *)
(***************************************************************************)
AskedEndsWait == asked /\ worker.at = "wait" => notified

(***************************************************************************)
(* Their inductive strengthening.  BatchInv: of the batch under way, what  *)
(* the radio task has not evicted is in the queue.  AskedInv: a request    *)
(* of the dashboard has its notification until the loop starts over.       *)
(* StreakInv: `failures` is the number of failures since the last success, *)
(* as far back as `outcomes` goes.                                         *)
(***************************************************************************)
BatchInv ==
  worker.at = "request" =>
    worker.evicted <= worker.batch /\ worker.batch - worker.evicted <= depth
AskedInv == asked => notified \/ worker.at = "top"
StreakInv ==
  /\ \A k \in DOMAIN outcomes : k <= failures => ~outcomes[k]
  /\ \A k \in DOMAIN outcomes : k = failures + 1 => outcomes[k]
  /\ \A k \in DOMAIN outcomes : outcomes[k] => succeeded
  /\ succeeded => Len(outcomes) > 0
  /\ failures <= Len(outcomes) \/ Len(outcomes) = 3
WorkerInv ==
  /\ WorkerTypeOK /\ BatchInv /\ AskedInv /\ StreakInv
  /\ ConnectivityHonest /\ AskedEndsWait

(***************************************************************************)
(* SuccessMeansAll.  An upload ends as a success only if its whole batch   *)
(* was still in the queue and all of it has been removed: an answer that   *)
(* leaves a record out, names one twice or names one the radio task has    *)
(* dropped meanwhile makes a failure, and the worker backs off.            *)
(***************************************************************************)
SuccessMeansAll ==
  [][worker.at = "request" /\ worker'.at = "pause" =>
       worker.evicted = 0 /\ depth' = depth - worker.batch]_workerVars

(***************************************************************************)
(* UploadAttempted.  While records wait and Wi-Fi, credential and, for     *)
(* HTTPS, trusted time are there, uploadOnce() is called: neither          *)
(* heartbeats nor backoff nor reconfiguration keep it from it for ever.    *)
(***************************************************************************)
UploadAttempted ==
  depth > 0 /\ Usable(config.endpoint) ~>
    (worker.at = "upload" \/ depth = 0 \/ ~Usable(config.endpoint))

(***************************************************************************)
(* HeartbeatsContinue.  If the queue stays empty, heartbeats are attempted *)
(* again and again, also after one was deferred, failed or interrupted by  *)
(* a change of its interval.                                               *)
(***************************************************************************)
HeartbeatsContinue == <>[](depth = 0) => []<>(worker.at = "beatCheck")
=============================================================================
