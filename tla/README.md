# GATHRA Gateway: a TLA+ verification project

The Gateway (ESP32-C3) receives telemetry of one paired sensor Node over LoRa,
stores every measurement on flash, acknowledges it, and uploads it over HTTPS.
The ACK also carries commands back to the Node. The promise the whole design
rests on: **an ACK transfers custody**. After it the Node forgets the
measurement, so the Gateway must keep it through crashes, full storage and lost
answers until the Backend has settled it.

## 1. Inventory

| Component (src/lib/...) | State it keeps | Operations | Interacts with |
|---|---|---|---|
| `queue` durable queue | one file per record, `.tmp` files, recent-tuple file, NVS counters and `fs-ready`; in RAM the index, next id, ring, counters | begin/recover, enqueue, contains, peek, finish, checkpoint | radio task, worker and dashboard, under `mutex_` |
| `radio/packet_processor` | latest telemetry, statistics | process(frame) | queue, pairing, command store, ACK sender |
| `radio/radio_service` | radio chip, DIO0 action, diagnostics | run, transmitAck, receive, reconfigure, restart | ISR notifications; dashboard, under `radioMutex_` |
| `commands` command store | one NVS blob: allocator and current command | begin, create, markSent, confirm, cancel, pendingForAck | radio task and dashboard, under `mutex_` |
| `backend` worker | backoff, status, configuration copy | run, uploadOnce, attemptHeartbeat, applyConfig | queue, Backend, Wi-Fi, time |
| `pairing` | paired Node, pairing mode, candidate | start, observe, confirm, manual, unpair | radio task and dashboard; configuration in NVS |
| `config` | NVS configuration record | begin (migrate), save, validate | dashboard |
| `heartbeat` | next due time | configure, due, markAttempt | worker |
| `wifi`, `time`, `ota`, `app` | timers, connection, trusted time, image state | task loops, boot validation | everything |
| `protocol`, `logging`, `metrics`, `dashboard` | encodings, diagnostics, HTTP | | |

Five tasks run concurrently (radio, worker, Wi-Fi, NTP, Arduino loop with the
dashboard) plus the radio interrupt. What is hard: a power loss between any two
flash or NVS writes; storage calls that fail half way through an operation;
queue contents that change while a batch is in flight; commands cancelled,
confirmed or replaced while an ACK is on the air; late, repeated and lost
frames and answers. `PROJECT.json` lists these hazards at their lines. What
makes each part correct:

* queue: index and files agree, an owed record is kept, the bound holds, drops
  are counted, no key is stored twice;
* upload: only settled records are removed or remembered, and everything owed
  is delivered in the end;
* commands: ids identify commands, CONFIRMED means carried out, a finished
  command never comes back, an offered one settles;
* radio: a radio shown as ready listens, no wake-up is lost, a failed
  reconfiguration leaves radio and stored configuration together;
* pairing: RAM and NVS name the same Node, discovery excludes a paired Node, a
  reboot keeps the pairing;
* worker: uploads and heartbeats go on whatever fails, a flush is not slept
  through, only a complete answer is a success;
* Wi-Fi: the dashboard stays reachable by one way or the other, cleared
  credentials are dropped, joining never stops;
* OTA: only a proven image is kept, and there is always one to go back to.

## 2. Modules

| Module | What it models |
|---|---|
| `DurableQueue` | `DurableQueueCore`, `LittleFsQueueStorage`, `DurableQueue`, `RecentDeduplicator` |
| `TelemetryPath` (extends `DurableQueue`) | `PacketProcessor::process` for telemetry, `BackendWorker::uploadOnce`, the Backend |
| `CommandStore` | `CommandStore` and its NVS backend |
| `CommandPath` (extends `CommandStore`) | `RadioService::transmitAck`, command results, the dashboard's command handlers, the Node |
| `Custody` | the promise about measurements, abstractly; `TelemetryPath` implements it |
| `RadioService` | the radio task, DIO0 interrupt and notification, `transmitAck`, `startReceiveUnlocked`, `applyConfig`, `restart`, `handleRadio` |
| `ConfigStore` | `ConfigStore`: load, migration, defaults, save |
| `Pairing` (extends `ConfigStore`) | `PairingManager`, the dashboard's pairing handlers, the frames processed in between |
| `BackendContract` | how an answer is read, connectivity state |
| `BackendWorker` (extends `BackendContract`) | the worker's loop, heartbeat schedule, `applyConfig`, `flushNow`, the trust in time |
| `WifiManager` | `WifiManager` and `handleWifi` |
| `OtaBoot` | `GatewayApp::begin`, `OtaManager`, the upload handlers, reboot |
| `...Proofs` (eight modules) | theorems about the module they extend |
| `MC...` | instances for TLC |

Definitions marked *Mutant* are deliberately wrong versions of the definition
that follows them. No specification uses them; each shows that a property
notices the bug.

**DurableQueue.** Since the power can go at any time, an operation is cut at
each call that changes flash or NVS. `op` is the operation holding the mutex and
`op.at` the storage call it makes next; one action performs that call and the
code up to the next one. So `enqueue()` is `EnqueueBegin`, `WriteTemp`,
`RenameTemp`, then `Evict` (or `Withdraw` when the oldest cannot be removed), or
`EvictForSpace` and a second write when a write fails on a full queue, then
`EnqueueCheckpoint` if something was dropped, and `Return`. `finish()` is
`FinishBegin`, one `FinishRemove` per action, `PersistRecent`, `FinishTally`,
`Return`. `begin()` is `Begin` (mount, format, list), `RecoverRecord` per file
in directory order, `RecoverSort`, `RecoverTrim`, `LoadCounters`, `LoadRecent`,
`BeginCheckpoint`. `contains()` and `peek()` change nothing: `peek()` is an
operator, `contains()` the action `Lookup`, since its reads may fail.
A record's content is its telemetry key, or `Damaged` when CRC, framing or
decoding rejects it; `Hash` is an arbitrary function, so hashes collide.
`PowerLoss` clears RAM at any step; `MediaDecay` damages a committed record.
Each storage call may fail if its kind is in `Faults`. Of the counters only
dropped-oldest is kept; the others change in the same places and are read only
by the dashboard. Record ids end at `MaxRecordId` instead of 2^64 - 1, with
`enqueue()`'s refusal behind it. Recovery differs there: in the code its
`recordId + 1` wraps to 0 behind the last id, and a file listed later may then
set the next id to one in use. That takes 2^64 records and is not modelled.

Two faults in one step are left out: `fs-ready` reads as absent *and* the mount
fails (this would format a used filesystem), and a format followed by a failed
write of `fs-ready` (nothing has been acknowledged by then).

**TelemetryPath.** The radio task goes `listen`, `check`, `enqueue`, `storing`,
`ack`; the worker `idle`, `request`, `finishing`. They meet only in the queue.
`containsKey()` and `durablyEnqueue()` take the mutex separately, as in the
code. `HandleResponse(answered)` builds terminal actions from the results only;
`RequestFails` covers no answer, a non-200 answer and one that does not parse.
The Node may send any key at any time, which includes every retransmission. The
Backend settles a record whether or not its answer arrives. `discarded` is the
set of keys given up explicitly (dropped as oldest, or unreadable); a key is
*owed* when acknowledged and neither settled nor discarded.

**CommandStore / CommandPath.** A store operation makes a single NVS write, so
it is one action; a failed save may have written the blob all the same.
`transmitAck()` is three actions, since between `pendingForAck()` and
`markSent()` it waits for the radio and the dashboard may act. The Node carries
out an id different from the last one it carried out, keeps that id across its
sessions, and reports; reports stay available for ever, so they may arrive
late, repeatedly or never. `serial` distinguishes commands independently of
their ids. Refusals of bad payloads by `create()` change nothing and are left
out. HIL-only code (synthetic frames, a suppressed ACK) is left out; a
suppressed ACK looks like one nobody heard.

**Custody.** Each key is held, settled, given up, or nothing; an ACK needs one of
the first three, and an acknowledged key leaves *held* only for the other two.
In the refinement mapping a key is held if some file has it and it is neither
settled nor discarded. Evicting for a committed record is one abstract step
(`Exchange`), as it is one in the code's bookkeeping. `Replace` is the overwriting
of a file left under the next id by an enqueue that failed and could not be taken
back; that key was never acknowledged.

**RadioService.** The chip is external: it is in receive, transmit or standby,
and its DIO0 line rises when a frame or a transmission ends. The interrupt
gives the task a notification and knows nothing else; the task's steps are cut
at each chip call, at the drain of the notification and at the mutex, since a
frame may end between any two. A configuration is a model value; each chip call
may fail within `MaxRadioFaults`. The task and the dashboard exclude each other
by `radioMutex_`, so one program counter, `step`, serves whoever holds it.
HIL-only calls are left out.

**ConfigStore / Pairing.** The stored record is of schema 1, of the current
schema, or absent. Of the configuration the schema, whether it has a valid
`gatewayId`, and the paired Node are kept. NVS may fail to open (the Gateway then
runs on a blank configuration and the blob stays), and within one `begin()` both
the read and the save of the defaults may fail. `handlePairConfirm` is two steps (RAM, then NVS, with the
way back if NVS fails), with frames in between; the other handlers save first.

**BackendWorker.** The queue is its depth, and a batch in flight counts the
records the full queue has since dropped from it. `finish()` fails if an answer
names one of those, and the upload then ends as a failure with a backoff, like
one whose storage fails. A full queue that drops its oldest and then cannot
write the new record becomes one shorter. Waits and the heartbeat
schedule are what is left of them. A request in flight is a step of its own, at
which the network, the queue and the configuration change. Any sequence of
results is a possible answer (`Answers`), also longer than the batch, with
repeated or foreign indexes and unknown statuses. The configuration handlers
differ in what they change; backoff limits are constants, because no handler
changes them. `applyConfig` and each locked section are one step; the checks of
Wi-Fi, token and time before an upload are one step (an upload tests them again
on its own snapshot).

**WifiManager.** One pass of the task is `CopyConfig`, `Look`, `ServeRequest`,
then `Retry` and `Fallback` or `Grace`, then `Delay`; `now` and `connected` are
locals and go stale within the pass, as in the code. Time is counted in passes
modulo `Period`. `BeginSta` may take a unit before it reads `millis()` again.

**OtaBoot.** Two slots, each with an image that is whole or not and its OTA
state; boot loader and `Update` library are external. Each call on the OTA data
that `OtaManager` makes may fail: reading the state (the image then passes for
one that is not pending), the rollback and the marking, both of which may have
written all the same; start-up goes on after each. `missed` records that such a
call of this boot failed for an image on probation, `exposed` that an upload was
written in such a boot. Start-up is one step per
`begin()` that counts for validation, and one for the others. The web server
works one request to its end before `loop()` looks at the reboot time, so an
upload delays a reboot that is due. That `rebootAtMs_` could be computed as 0,
which means "none", once in 2^32 is abstracted away.

## 3. Runs

| Run | Shows |
|---|---|
| `telemetry_path` | `AckedNotLost` (custody), `IndexMatchesFlash`, `RingHoldsOnlyTerminal`, `OwedRecordKept`, `DropsCounted`, `TypeOK`, with all six fault kinds and a power loss; `CustodyKept` (implements `Custody`) |
| `telemetry_delivery` | `EventuallyDelivered`, `RadioReturns`, `NoDuplicateRecords`, `QueueUsedByContract` (the composition implements `QSpec`, the queue with an arbitrary client) |
| `silent_loss` (violation) | `DataLossNeverSilent` |
| `command_path` | `NoIdReuse`, `ConfirmedWasExecuted`, `FinishedStaysFinished`, `CommandSettles`, `CommandTypeOK`, with failed saves and a power loss |
| `command_id_reuse` (violation) | `NoIdReuse` when one load fails |
| `radio_service` | `ReadyMeansListening`, `NoLostWakeup`, `SingleFaultKeepsConfig`, `FrameServiced`, `RadioTypeOK` |
| `ack_success` (violation) | `AckSuccessIsReal` |
| `pairing` | `RamMatchesConfig`, `DiscoveryOnlyUnpaired`, `RebootKeepsPairing`, `PairingTypeOK` |
| `live_view` (violation) | `LiveViewIsPairedNode` |
| `backend_worker` | `ConnectivityHonest`, `AskedEndsWait`, `SuccessMeansAll`, `UploadAttempted`, `HeartbeatsContinue`, `WorkerTypeOK` |
| `wifi_manager` | `NoStaleJoin`, `DarkBounded`, `ClearedLeavesAp`, `JoinsContinue`, `WifiTypeOK` |
| `ota_boot` | `ValidMeansProven`, `FallbackKept`, `PendingDecided`, `OtaTypeOK` |

Bounds. `telemetry_path`: three keys, two of them with the same hash, capacity
2, ring of 1, ids up to 3, one fault of any kind and one power loss. That is the
smallest instance in which the queue overflows, recovery finds capacity + 1
files, a ring entry is displaced, ids run out and a batch of two is answered in
part; k1 and k2 are interchangeable (symmetry; no liveness is checked here).
What takes two faults (a withdrawal that fails after an eviction that failed, a
second write that fails after the first) is left to the theorems, which hold for
any number, and in part to `telemetry_delivery`.
`telemetry_delivery`: two keys, capacity 1, two faults among write and remove,
one power loss, no symmetry. `command_path`: two types, three commands, ids up to 3
(so the allocator runs out), two save faults, two Node sessions, one
power loss. In both systems all tasks can end up waiting for an environment
that still acts (frames arrive, sessions change), so deadlock is checked.
`radio_service`: two configurations, three faults, any number of frames and
requests, so a frame ends at every step of an ACK and of a reconfiguration.
`pairing`: two Nodes, two NVS faults, two power losses.
`backend_worker`: batches of two and a queue of two, so that answers are
partial and records are dropped in flight; backoff 2, 4, 5 with jitter at the
top; a failure counter that stops at 3 instead of 2^32 - 1, the last value that
is told apart; network, queue faults and flushes without a bound, one
configuration request. `wifi_manager`: a clock of 8 units, against intervals of
2 and 3, so it wraps many times in a behaviour; one network beside none, one
change of credentials, one failing start of the access point, any number of
reconnect requests. The bound of `DarkBounded` is longer than the clock's period
there; longer periods are covered by the theorem. `ota_boot`: three uploads, two
failing calls on the OTA data, any number of power losses; deadlock is not checked there, because with
no image left the device does stay off.

Fairness. Both tasks loop for ever and storage calls return: weak fairness of
the radio task's, the queue's and the store's own steps. The worker polls and
retries without limit, but its requests fail and its turn at the mutex comes
and goes, hence strong fairness of `PeekBatch`, and of the Backend deciding and
its complete answer arriving (an assumption about the Backend). For commands:
the Node keeps sending telemetry, and not every ACK and report is lost. Media
decay and read errors are excluded from `telemetry_delivery`: an unreadable
record at the head makes `peek()` fail until the next restart, so delivery does
not hold with it. For the radio, the worker, Wi-Fi and start-up only weak
fairness of the task's own steps (FreeRTOS schedules them, and each of their
waits and requests has a time-out), of time passing, and of a reboot that is
due. Nothing is assumed of the network, the driver, the Backend or the power.
`HeartbeatsContinue` depends on configuration requests coming to an end: each
one starts the interval over.

## 4. Findings

* `silent_loss`. `docs/durable-queue.md` says drops are counted and
  checkpointed and "Data loss is never silent". The file is removed before the
  counter is checkpointed; a power loss in between loses the count. What does
  hold is `DropsCounted`: the counter is exact until the first power loss and
  never reports a drop that did not happen.
* `command_id_reuse`. `docs/architecture.md` says the saved allocator prevents
  "ID reuse after reboot". `begin()` treats any failed load as a first start and
  overwrites the record, so a Node can see an old id with a new command. With
  load failures excluded uniqueness is proved (below).

* `ack_success`. `transmitAck()` clears the notification while the chip still
  receives. A frame that ends between that and `startTransmit()` leaves a
  notification that is taken for the end of the ACK: it is cut off in the air
  and counted as sent. `docs/gateway-heartbeat.md` says the count means "Radio TX
  completed and continuous RX was restored". The Node repeats its frame, so no
  measurement is lost.
* `live_view`. `latest_` is never cleared, so after unpairing or pairing another
  Node the live view, and the session a COMMAND_RESULT is compared with, are the
  old Node's. `docs/architecture.md` says the view only uses the paired Node.

Met while modelling, without a run of their own:

* Clearing the Wi-Fi credentials while connected opens the access point and, if
  the connection is older than the grace period, closes it again in the same
  pass, because `connected` was read before the link was dropped; the next pass
  opens it for good. `ClearedLeavesAp` and `DarkBounded` hold all the same.
* After a reconnect request, `now - lastReconnectMs_` may wrap and start a second
  attempt in the same pass. It costs one attempt.
* An upload is accepted while the running image is still PENDING_VERIFY, which
  needs a failed call on the OTA data earlier in that boot: the state was not
  read, the rollback returned, or the image could not be marked valid. It
  overwrites the only image to go back to, and the next reset gives up the
  running one; hence the conditions in `FallbackKept` and `PendingDecided`.
* A full queue that drops records of the batch in flight turns an upload the
  Backend has accepted into a failure with a backoff, because `finish()` does not
  find them. The records it does find are removed.
* `docs/architecture.md` lists radio and Wi-Fi among the checks before an image
  is marked valid; the code, and `docs/ota.md`, leave them out on purpose.

## 5. Proofs

Every safety invariant and action property of a passing run is also a theorem,
proved by TLAPS for every value of the constants within the modules'
assumptions (`QueueAssumption`, `BatchAssumption`, `CommandAssumption`,
`SessionAssumption` and one for each of the other components), which TLC
evaluates in every run. The bounds on faults, power losses and requests are
constants too, so the theorems hold for any number of them.

Hardly any of the invariants is inductive as it stands. Each component's module
states the strengthening next to its properties, in named parts, and TLC checked
it on the run's instance before it was proved. A step lemma per action (or per
kind of state, where most actions leave it alone) shows that it is kept.

**`DurableQueueProofs`.** `QTypeCorrect`, `IndexAlwaysMatchesFlash`,
`DropsAlwaysCounted`, for any client that keeps `FinishContract` (an action given
to `finish()` names an id handed out earlier and, if that record is still queued,
its key). `QInv` adds `OpInv` (the `.tmp` about to be renamed holds the key being
stored, an id is left, there is an entry to evict, the files still to be scanned
are not indexed yet) and `IndexInv` (each indexed record has its file in every
state; order from the sort on; the bound from the trim on). `DropsInv`: until
`begin()` adds the checkpoint to what recovery dropped, the two together do not
exceed the drops.

**`TelemetryPathProofs`.** First, each step of the queue is put into one of a few
*effects* on the set of listed ids, the files and the given-up keys (`Committed`,
`Exchanged`, `Dropped`, `TakenBack`, `Found`, ...); everything after that reasons
from the effects, not about sequences. Then:

* `PathInv`: who waits for which operation of the queue (`OwnerInv`), and that
  the batch the worker peeked, and what `finish()` still has to do, stay within the
  contract while the radio task evicts and enqueues (`BatchInv`, `TodoInv`).
  It gives `TypeCorrect`, `RingAlwaysTerminal` and `UsesQueueByContract`: the
  composition implements `QSpec`, so `IndexMatchesFlash` and `DropsCounted` hold in
  it (`QueueCorrectInPath`).
* `CustodyInv`: every key acknowledged, about to be acknowledged or sent to the
  Backend is settled, given up, or in a record *within reach* of the queue: in
  the index, still to be scanned, or, with no queue, anywhere on flash. A file
  outside the index but on flash is not enough, since the next enqueue may write
  over it. It gives `AckedNeverLost` and `OwedRecordAlwaysKept`.
* `ImplementsCustody`: each step is a step of `Custody` or changes none of its
  variables. The proof showed two gaps of the earlier model, both outside its
  runs: `Custody` lacked `Replace`, which takes two failing removals, and `QSpec`
  had no lookup whose read fails.
* `NeverDuplicateRecords`, for `"read" \notin Faults`, as in its run: with a
  failing read `contains()` misses a stored key, and the key is stored again.
  `UniqueInv`: a key being enqueued is not in the index from the lookup to the
  rename, and a file that is not within reach lies under the next id.

**`CommandPathProofs`.** `CommandTypeCorrect`, `FinishedNeverOffered` (whichever
NVS calls fail) and, for `"load" \notin CommandFaults`, `IdsNeverReused` and
`ConfirmedMeansExecuted`. `CommandInv`: RAM and NVS agree on the command while it
is offered, and both know what is finished. `CopyInv`: every copy that left the
store has an id below both allocators and is the current command if it has its
id. `ReportInv`: every report is about an executed command. The assumption is
needed: `command_id_reuse` is the counterexample without it.

**`RadioServiceProofs`.** `RadioTypeCorrect`, `ReadyAlwaysListening`,
`WakeupNeverLost`, `SingleFaultAlwaysKeepsConfig`. `HolderInv`: the holder of the
mutex is the one whose code `step` is in, and only the task transmits. `ChipInv`:
from the end of a configuration on the chip has the one shown. `RequestInv`: where
during a request the configuration to go back to is found; a rollback has used up
one fault already, so a second failure in it is outside the claim.

**`PairingProofs`.** `PairingTypeCorrect`, `RamAlwaysMatchesConfig`,
`DiscoveryAlwaysUnpaired`, `RebootAlwaysKeepsPairing` (an action property).
`RequestInv`: what a handler under way has done to RAM and to `config_`.
`BlobInv`: until an NVS call fails, the blob is `config_` and, while the Gateway is
off, names a Node the last power loss may have left.

**`BackendWorkerProofs`.** `WorkerTypeCorrect`, `ConnectivityAlwaysHonest`,
`AskedAlwaysEndsWait`, `SuccessAlwaysMeansAll` (an action property). `StreakInv`:
`failures` is the length of the run of failures at the front of `outcomes`, as far
as that goes. `AskedInv`: a request of the dashboard keeps its notification until
the loop starts over. `BatchInv`: what was not evicted of the batch is in the
queue. `SuccessMeansAll` needs to know what the parse loop accepts for answers of
any length; since its recursion is over the position, `ParseAcceptsAll` takes the
least position it would have let pass wrongly, which the library's theorem on
well-founded relations provides. `NamedRecords` bounds what is still there of the
named records by the batch less what was evicted; since `finish()` succeeds only
if all of them are there (`CanFinish`) and a complete answer names as many as the
batch had, none was evicted.

**`WifiManagerProofs`.** `WifiTypeCorrect`, `JoinNeverStale`, `DarkAlwaysBounded`.
`JoinInv`: unless a request waits, the pass works with the credentials now
configured, or has the request still to serve. `DarkInv` follows the dark time
through a pass: the loss is noticed, marked and acted on within a pass each, a
mark of 0 is no mark, and the time since the mark has not wrapped while the
fallback is not due. Differences modulo `Period` are first turned into plain
differences; the assumption that the intervals are shorter than the period
(`d + 4 < Period`; minutes against 49 days) is what makes that possible.

**`OtaBootProofs`.** `OtaTypeCorrect`, `ValidAlwaysProven`, `FallbackAlwaysKept`.
`StartedInv`: the boot loader starts only whole images, and `pending_` tells the one
on probation from the others, unless its state was not read (`missed`).
`ServingInv`: only an image that needs no verification takes uploads, unless a
call about it failed in this boot (`missed`) or an upload of such a boot came
before (`exposed`).

Only model-checked: the liveness properties (`EventuallyDelivered`,
`RadioReturns`, `CommandSettles`, `FrameServiced`, `UploadAttempted`,
`HeartbeatsContinue`, `ClearedLeavesAp`, `JoinsContinue`, `PendingDecided`), since
fairness and ENABLED are outside the prover; and the four runs that end in a
violation, which are counterexamples. The order that `RecoverSort` produces is
taken as "some sorted permutation" in the model, so no sorting algorithm is
verified.

## 6. Plan

Modelling is done as far as it is planned, and the safety properties are proved.
What is left: the safety half of the liveness arguments (what stays enabled until
it happens), for instance that a record at the head of the queue stays there until
it is removed or dropped, and lemmas about `Custody` on its own.

Not modelled and why:

* Protocol 3 and record encodings, JSON and HTML: byte and text layouts; the
  models use what decoding accepts. The repository's unit tests cover them with
  golden vectors, and no interleaving reaches them.
* Logging, latency statistics, the counters of the heartbeat snapshot:
  written and never read back by another component.
* `deriveCapacity` and the circular indexing of the recent ring: sequential
  arithmetic with no state of its own; the models take any capacity and the
  sequence the ring represents.
* `testConnection()`: a request whose outcome is only shown.
* Code behind `GATHRA_HIL_SYNTHETIC` and `GATHRA_ROLLBACK_TEST_FAIL`.
