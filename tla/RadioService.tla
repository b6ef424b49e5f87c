---------------------------- MODULE RadioService ----------------------------
(***************************************************************************)
(* The radio driver of the Gateway (lib/radio/radio_service.cpp): the      *)
(* gth-radio task, the SX1278 and its DIO0 interrupt, and the dashboard    *)
(* that reconfigures or restarts the same chip (handleRadio).  What a      *)
(* frame means is TelemetryPath's and CommandPath's subject; here it only  *)
(* matters whether an ACK is transmitted for it.                           *)
(*                                                                         *)
(* radioMutex_ makes the task and the dashboard exclude each other, so one *)
(* program counter, `step`, serves whoever holds it.  The interrupt knows  *)
(* no mutex: a frame may end between any two statements.                   *)
(*                                                                         *)
(* External, as the code uses them (RadioLib, FreeRTOS): DIO0 is high      *)
(* while an interrupt flag is set and only its rising edge interrupts;     *)
(* reading a frame clears the flag and leaves the chip in continuous       *)
(* reception; startReceive() and startTransmit() clear it too.             *)
(***************************************************************************)
EXTENDS Integers

CONSTANTS
  Configs,        \* radio configurations that validateConfig accepts
  NoConfig,       \* a chip whose configuration failed half-way
  MaxRadioFaults  \* bound on failing chip and NVS calls

ASSUME RadioAssumption ==
  /\ NoConfig \notin Configs
  /\ MaxRadioFaults \in Nat

VARIABLES
  chip,         \* the SX1278: mode, interrupt flag, configuration
  dio0Action,   \* dio0Action_: the event the interrupt handler is set for
  notified,     \* the notification value of the radio task is not zero
  ready,        \* diagnostics_.ready
  config,       \* diagnostics_.config
  mutex,        \* who holds radioMutex_
  task,         \* the radio task: waiting for DIO0, or for the mutex, or in it
  step,         \* where the holder of the mutex is, and why it restarts RX
  dash,         \* the dashboard's request and the configurations it is about
  saved,        \* config_.radio of the ConfigStore
  ack,          \* the last ACK: did it go on the air, is it reported as sent
  radioFaults   \* failed calls so far

deviceVars == <<chip, dio0Action, notified>>
serviceVars == <<ready, config>>
radioVars == <<deviceVars, serviceVars, mutex, task, step, dash, saved, ack,
               radioFaults>>

NoStep == [at |-> "none", then |-> "none"]
Steps == {"none", "receive", "drain", "detach", "attach", "transmit", "onAir",
          "sent", "timeout", "configure", "rollback", "arm", "start"}
Reasons == {"none", "frame", "ack", "apply", "rollback"}
IdleRequest == [at |-> "idle", candidate |-> NoConfig, previous |-> NoConfig]
NoAck == [aired |-> FALSE, success |-> FALSE]

Okay == UNCHANGED radioFaults
Failing == radioFaults < MaxRadioFaults /\ radioFaults' = radioFaults + 1

Goto(at, then) == step' = [at |-> at, then |-> then]
At(at) == step.at = at /\ mutex # "free"

-----------------------------------------------------------------------------
(* The chip and its interrupt. *)

\* An edge of DIO0 with a handler attached notifies the task (radioInterrupt).
Interrupt == notified' = (notified \/ (chip.flag = "none" /\ dio0Action # "none"))

\* A frame ends while the chip listens; behind an unread one it makes no edge.
FrameArrives ==
  /\ chip.mode = "rx"
  /\ chip.flag = "none"
  /\ chip' = [chip EXCEPT !.flag = "rxDone"]
  /\ Interrupt
  /\ UNCHANGED <<dio0Action, serviceVars, mutex, task, step, dash, saved, ack,
                 radioFaults>>

TransmissionEnds ==
  /\ chip.mode = "tx"
  /\ chip' = [chip EXCEPT !.mode = "standby", !.flag = "txDone"]
  /\ Interrupt
  /\ ack' = [ack EXCEPT !.aired = TRUE]
  /\ UNCHANGED <<dio0Action, serviceVars, mutex, task, step, dash, saved,
                 radioFaults>>

\* radio_.begin() and setCRC(): the chip is reset.
ChipConfigured(c) == chip' = [mode |-> "standby", flag |-> "none", config |-> c]

\* The holder leaves the mutex.  `ok` is what the dashboard's call returned.
Leave(ok) ==
  /\ mutex' = "free"
  /\ step' = NoStep
  /\ IF mutex = "task"
     THEN task' = "wait" /\ UNCHANGED dash
     ELSE /\ dash' = IF dash.at = "apply" /\ ok
                     THEN [dash EXCEPT !.at = "save"] ELSE IdleRequest
          /\ UNCHANGED task

-----------------------------------------------------------------------------
(* The radio task: run(), handlePhysicalReceive(), handleFrame(). *)

\* ulTaskNotifyTake(pdTRUE, portMAX_DELAY)
TaskWakes ==
  /\ task = "wait"
  /\ notified
  /\ notified' = FALSE
  /\ task' = "lock"
  /\ UNCHANGED <<chip, dio0Action, serviceVars, mutex, step, dash, saved, ack,
                 radioFaults>>

TaskLocks ==
  /\ task = "lock"
  /\ mutex = "free"
  /\ IF ready
     THEN mutex' = "task" /\ task' = "busy" /\ Goto("receive", "none")
     ELSE mutex' = "free" /\ task' = "wait" /\ step' = NoStep
  /\ UNCHANGED <<deviceVars, serviceVars, dash, saved, ack, radioFaults>>

\* Mutant: reception is not restarted after a frame without an ACK.
NoAckReturns ==
  /\ At("receive")
  /\ Leave(FALSE)
  /\ UNCHANGED <<deviceVars, serviceVars, saved, ack, radioFaults>>
\* A bad length, a CRC error, a failed read, a frame that calls for no ACK.
\* The length and the data are read whether or not there is a new frame.
NoAckDue ==
  /\ At("receive")
  /\ \E standby \in BOOLEAN :
       chip' = [chip EXCEPT !.mode = IF standby THEN "standby" ELSE @,
                            !.flag = IF standby THEN @ ELSE "none"]
  /\ Goto("arm", "frame")
  /\ UNCHANGED <<dio0Action, notified, serviceVars, mutex, task, dash, saved,
                 ack, radioFaults>>

\* Telemetry that is stored or known: transmitAck() is called.  The fields of
\* the ACK come from a decoded frame and a stored command, so it encodes.
AckDue ==
  /\ At("receive")
  /\ chip' = [chip EXCEPT !.flag = "none"]
  /\ ack' = NoAck
  /\ Goto("drain", "ack")
  /\ UNCHANGED <<dio0Action, notified, serviceVars, mutex, task, dash, saved,
                 radioFaults>>

-----------------------------------------------------------------------------
(* transmitAck(). *)

DrainBeforeAck ==
  /\ At("drain")
  /\ notified' = FALSE
  /\ Goto("detach", "ack")
  /\ UNCHANGED <<chip, dio0Action, serviceVars, mutex, task, dash, saved, ack,
                 radioFaults>>

DetachReceive ==
  /\ At("detach")
  /\ dio0Action' = "none"
  /\ Goto("attach", "ack")
  /\ UNCHANGED <<chip, notified, serviceVars, mutex, task, dash, saved, ack,
                 radioFaults>>

AttachTransmit ==
  /\ At("attach")
  /\ dio0Action' = "transmit"
  /\ Goto("transmit", "ack")
  /\ UNCHANGED <<chip, notified, serviceVars, mutex, task, dash, saved, ack,
                 radioFaults>>

\* startTransmit()
StartTransmit ==
  /\ At("transmit")
  /\ \/ /\ Okay
        /\ chip' = [chip EXCEPT !.mode = "tx", !.flag = "none"]
        /\ Goto("onAir", "ack")
     \/ /\ Failing
        /\ \E mode \in {chip.mode, "standby"} :
             chip' = [chip EXCEPT !.mode = mode]
        /\ Goto("arm", "ack")
  /\ UNCHANGED <<dio0Action, notified, serviceVars, mutex, task, dash, saved,
                 ack>>

\* The notification ends the wait, or the time-out does; the time-out is
\* longer than the frame, so it expires only if the chip fails to end it.
AwaitSent ==
  /\ At("onAir")
  /\ \/ /\ notified
        /\ notified' = FALSE
        /\ Goto("sent", "ack")
        /\ Okay
     \/ /\ ~notified
        /\ UNCHANGED notified
        /\ Goto("timeout", "ack")
        /\ Failing
  /\ UNCHANGED <<chip, dio0Action, serviceVars, mutex, task, dash, saved, ack>>

\* finishTransmit(): flags cleared, standby.
FinishTransmit ==
  /\ At("sent")
  /\ \/ Okay /\ ack' = [ack EXCEPT !.success = TRUE]
     \/ Failing /\ UNCHANGED ack
  /\ chip' = [chip EXCEPT !.mode = "standby", !.flag = "none"]
  /\ Goto("arm", "ack")
  /\ UNCHANGED <<dio0Action, notified, serviceVars, mutex, task, dash, saved>>

TransmitTimesOut ==
  /\ At("timeout")
  /\ chip' = [chip EXCEPT !.mode = "standby"]
  /\ Goto("arm", "ack")
  /\ UNCHANGED <<dio0Action, notified, serviceVars, mutex, task, dash, saved,
                 ack, radioFaults>>

-----------------------------------------------------------------------------
(***************************************************************************)
(* startReceiveUnlocked(): attach the receive handler, drain, startReceive.*)
(* ulTaskNotifyTake() drains the notification of the task that calls it,   *)
(* so on behalf of the dashboard it leaves the radio task's alone.         *)
(***************************************************************************)
\* Mutant: the handler is attached only if none was.
ArmReceiveIfNone ==
  /\ At("arm")
  /\ dio0Action' = IF dio0Action = "none" THEN "receive" ELSE dio0Action
  /\ notified' = (notified /\ mutex # "task")
  /\ Goto("start", step.then)
  /\ UNCHANGED <<chip, serviceVars, mutex, task, dash, saved, ack, radioFaults>>
ArmReceive ==
  /\ At("arm")
  /\ dio0Action' = "receive"
  /\ notified' = (notified /\ mutex # "task")
  /\ Goto("start", step.then)
  /\ UNCHANGED <<chip, serviceVars, mutex, task, dash, saved, ack, radioFaults>>

\* What follows a startReceive(): handleFrame() tries once more if RX could
\* not be restored after the ACK; applyConfig() goes back to `previous`.
AfterStart(ok) ==
  IF ok \/ step.then \in {"frame", "rollback"}
  THEN Leave(ok /\ step.then = "apply")
  ELSE /\ UNCHANGED <<mutex, task, dash>>
       /\ IF step.then = "ack" THEN Goto("arm", "frame")
          ELSE Goto("rollback", "rollback")

\* Mutant: the notification is drained after reception has started.
StartReceiveThenDrain ==
  /\ At("start")
  /\ \/ /\ Okay
        /\ chip' = [chip EXCEPT !.mode = "rx", !.flag = "none"]
        /\ ready' = TRUE
        /\ AfterStart(TRUE)
     \/ /\ ~notified /\ Okay
        /\ chip' = [chip EXCEPT !.mode = "rx", !.flag = "rxDone"]
        /\ ready' = TRUE
        /\ AfterStart(TRUE)
  /\ notified' = FALSE
  /\ UNCHANGED <<dio0Action, config, saved, ack>>
StartReceive ==
  /\ At("start")
  /\ \/ /\ Okay
        /\ chip' = [chip EXCEPT !.mode = "rx", !.flag = "none"]
        /\ ready' = TRUE
        /\ AfterStart(TRUE)
     \/ /\ Failing
        /\ \E mode \in {"standby", "rx"}, flag \in {chip.flag, "none"} :
             chip' = [chip EXCEPT !.mode = mode, !.flag = flag]
        /\ ready' = FALSE
        /\ AfterStart(FALSE)
  /\ UNCHANGED <<dio0Action, notified, config, saved, ack>>

-----------------------------------------------------------------------------
(* The dashboard: handleRadio() and /api/radio/restart.  begin() is the same *)
(* code on behalf of the start-up.                                           *)

Request(kind, candidate) ==
  /\ dash.at = "idle"
  /\ dash' = [at |-> kind, candidate |-> candidate, previous |-> saved]
  /\ UNCHANGED <<deviceVars, serviceVars, mutex, task, step, saved, ack,
                 radioFaults>>

RequestConfig == \E c \in Configs : Request("apply", c)
RequestRestart == Request("restart", config)

\* applyConfig() and restart() take the mutex and put the chip on standby.
\* applyConfig() falls back to the configuration in use, not the saved one.
DashLocks ==
  /\ dash.at \in {"apply", "undo", "restart"}
  /\ mutex = "free"
  /\ mutex' = "dashboard"
  /\ chip' = [chip EXCEPT !.mode = "standby"]
  /\ dash' = [dash EXCEPT !.candidate = IF dash.at = "restart" THEN config ELSE @,
                          !.previous = config]
  /\ Goto("configure", IF dash.at = "restart" THEN "rollback" ELSE "apply")
  /\ UNCHANGED <<dio0Action, notified, serviceVars, task, saved, ack,
                 radioFaults>>

\* Mutant: the configuration shown is whatever the chip ended up with.
ConfigureReadBack ==
  /\ At("configure")
  /\ Okay \/ Failing
  /\ ChipConfigured(IF radioFaults' = radioFaults THEN dash.candidate ELSE NoConfig)
  /\ ready' = (radioFaults' = radioFaults)
  /\ config' = chip'.config
  /\ Leave(FALSE)
  /\ UNCHANGED <<dio0Action, notified, saved, ack>>
\* configureUnlocked(candidate), then startReceiveUnlocked() if it worked.
\* A restart and begin() have nothing to fall back to.
ConfigureCandidate ==
  /\ At("configure")
  /\ \/ /\ Okay
        /\ ChipConfigured(dash.candidate)
        /\ ready' = TRUE
        /\ config' = dash.candidate
        /\ Goto("arm", step.then)
        /\ UNCHANGED <<mutex, task, dash>>
     \/ /\ Failing
        /\ ChipConfigured(NoConfig)
        /\ ready' = FALSE
        /\ UNCHANGED config
        /\ IF step.then = "apply"
           THEN Goto("rollback", "rollback") /\ UNCHANGED <<mutex, task, dash>>
           ELSE Leave(FALSE)
  /\ UNCHANGED <<dio0Action, notified, saved, ack>>

RollbackConfig ==
  /\ At("rollback")
  /\ \/ /\ Okay
        /\ ChipConfigured(dash.previous)
        /\ ready' = TRUE
        /\ config' = dash.previous
        /\ Goto("arm", "rollback")
        /\ UNCHANGED <<mutex, task, dash>>
     \/ /\ Failing
        /\ ChipConfigured(NoConfig)
        /\ ready' = FALSE
        /\ UNCHANGED config
        /\ Leave(FALSE)
  /\ UNCHANGED <<dio0Action, notified, saved, ack>>

\* Mutant: a failed save is answered, and nothing else.
SaveConfigOnly ==
  /\ dash.at = "save"
  /\ \/ Okay /\ saved' = dash.candidate /\ dash' = IdleRequest
     \/ Failing /\ dash' = IdleRequest /\ UNCHANGED saved
  /\ UNCHANGED <<deviceVars, serviceVars, mutex, task, step, ack>>
\* save(candidate); if it fails, applyConfig(previous.radio).
SaveConfig ==
  /\ dash.at = "save"
  /\ \/ /\ Okay
        /\ saved' = dash.candidate
        /\ dash' = IdleRequest
     \/ /\ Failing
        /\ dash' = [at |-> "undo", candidate |-> saved, previous |-> config]
        /\ UNCHANGED saved
  /\ UNCHANGED <<deviceVars, serviceVars, mutex, task, step, ack>>

-----------------------------------------------------------------------------
\* begin() holds the mutex; the task exists and the interrupt knows it.
RadioInit ==
  /\ saved \in Configs
  /\ chip = [mode |-> "standby", flag |-> "none", config |-> NoConfig]
  /\ dio0Action = "none"
  /\ notified = FALSE
  /\ ready = FALSE
  /\ config = saved
  /\ mutex = "dashboard"
  /\ task = "wait"
  /\ step = [at |-> "configure", then |-> "rollback"]
  /\ dash = [at |-> "begin", candidate |-> saved, previous |-> saved]
  /\ ack = NoAck
  /\ radioFaults = 0

TaskStep ==
  \/ TaskWakes \/ TaskLocks
  \/ NoAckDue \/ AckDue
  \/ DrainBeforeAck \/ DetachReceive \/ AttachTransmit
  \/ StartTransmit \/ AwaitSent \/ FinishTransmit \/ TransmitTimesOut

ReceiveStep == ArmReceive \/ StartReceive

DashStep == DashLocks \/ ConfigureCandidate \/ RollbackConfig \/ SaveConfig

RadioNext ==
  \/ FrameArrives \/ TransmissionEnds
  \/ TaskStep
  \/ ReceiveStep
  \/ RequestConfig \/ RequestRestart
  \/ DashStep

RadioSpec == RadioInit /\ [][RadioNext]_radioVars

(***************************************************************************)
(* A transmission ends, and tasks run.  The mutex is handed to the waiting *)
(* task of the highest priority, and the radio task's is above the         *)
(* dashboard's, so it is not overtaken for ever: strong fairness for its   *)
(* lock.                                                                   *)
(***************************************************************************)
RadioFairness ==
  /\ WF_radioVars(TransmissionEnds)
  /\ WF_radioVars(TaskStep)
  /\ WF_radioVars(ReceiveStep)
  /\ WF_radioVars(DashStep)
  /\ SF_radioVars(TaskLocks)

FairRadioSpec == RadioSpec /\ RadioFairness

-----------------------------------------------------------------------------
\* The variables have the types of what they hold.
RadioTypeOK ==
  /\ chip \in [mode : {"standby", "rx", "tx"},
               flag : {"none", "rxDone", "txDone"},
               config : Configs \cup {NoConfig}]
  /\ dio0Action \in {"none", "receive", "transmit"}
  /\ notified \in BOOLEAN
  /\ ready \in BOOLEAN
  /\ config \in Configs
  /\ mutex \in {"free", "task", "dashboard"}
  /\ task \in {"wait", "lock", "busy"}
  /\ step \in [at : Steps, then : Reasons]
  /\ dash \in [at : {"idle", "begin", "apply", "save", "undo", "restart"},
               candidate : Configs \cup {NoConfig},
               previous : Configs \cup {NoConfig}]
  /\ saved \in Configs
  /\ ack \in [aired : BOOLEAN, success : BOOLEAN]
  /\ radioFaults \in Nat

(***************************************************************************)
(* ReadyMeansListening.  Whenever nobody is at work on the chip and the    *)
(* status page says "ready", the SX1278 really is in reception, with the   *)
(* configuration shown, and DIO0 leads to the task: whatever failed,       *)
(* timed out or was rolled back before.  (transmitAck, applyConfig and     *)
(* restart all end in startReceiveUnlocked, which sets diagnostics_.ready.)*)
(***************************************************************************)
ReadyMeansListening ==
  mutex = "free" /\ ready =>
    chip.mode = "rx" /\ chip.config = config /\ dio0Action = "receive"

(***************************************************************************)
(* NoLostWakeup.  An unread frame keeps DIO0 high, and without an edge no  *)
(* later frame would be noticed either; so while the task waits and the    *)
(* radio is ready, an unread frame has its notification.  (The drain in    *)
(* startReceiveUnlocked comes before startReceive(), which clears what was *)
(* there.)                                                                 *)
(***************************************************************************)
NoLostWakeup ==
  mutex = "free" /\ task = "wait" /\ ready /\ chip.flag = "rxDone" => notified

(***************************************************************************)
(* SingleFaultKeepsConfig.  After a request of the dashboard the radio's   *)
(* configuration is the saved one, though one call failed on the way: the  *)
(* candidate is refused, reception does not start with it, or NVS refuses  *)
(* it after the radio took it.  (applyConfig rolls back; handleRadio       *)
(* applies the previous configuration after a failed save.)                *)
(***************************************************************************)
SingleFaultKeepsConfig ==
  radioFaults <= 1 /\ dash.at = "idle" => config = saved

(***************************************************************************)
(* Their inductive strengthening.  HolderInv: who holds the mutex is the   *)
(* one whose code `step` is in, and only the task has the chip transmit.   *)
(* ChipInv: from the end of a configuration on, and whenever the task is   *)
(* at work, the chip has the configuration shown.  RequestInv: where the   *)
(* configuration to go back to is found during a request, and that a       *)
(* rollback has already used up a fault.                                   *)
(***************************************************************************)
TaskSteps == {"receive", "drain", "detach", "attach", "transmit", "onAir",
              "sent", "timeout"}
HolderInv ==
  /\ task = "busy" <=> mutex = "task"
  /\ mutex = "free" => step.at = "none"
  /\ mutex = "task" => \/ step.at \in TaskSteps
                       \/ step.at \in {"arm", "start"} /\ step.then \in {"frame", "ack"}
  /\ mutex = "dashboard" =>
       /\ step.at \in {"configure", "rollback", "arm", "start"}
       /\ step.then \in {"apply", "rollback"}
       /\ dash.at \in {"begin", "apply", "undo", "restart"}
       /\ dash.previous \in Configs
       /\ step.then = "apply" \/ step.at = "rollback" => dash.at \in {"apply", "undo"}
       /\ step.at = "rollback" => step.then = "rollback"
       /\ step.at = "configure" /\ step.then = "rollback" =>
            dash.at \in {"begin", "restart"}
  /\ dash.at = "begin" => mutex = "dashboard"
  /\ dash.at # "idle" => dash.candidate \in Configs
  /\ chip.mode = "tx" => mutex = "task" /\ step.at \in {"onAir", "sent", "timeout"}
ChipInv ==
  /\ mutex = "task" \/ step.at \in {"arm", "start"} => chip.config = config
  /\ step.at = "start" => dio0Action = "receive"
Locked == mutex = "dashboard"
RequestInv ==
  /\ dash.at = "save" => config = dash.candidate
  /\ Locked /\ dash.at \in {"begin", "restart"} => config = dash.candidate
  /\ Locked /\ step.at \in {"arm", "start"} =>
       config = IF step.then = "apply" \/ dash.at \in {"begin", "restart"}
                THEN dash.candidate ELSE dash.previous
  /\ Locked /\ step.at = "configure" => config = dash.previous
  /\ step.at = "rollback" => radioFaults > 0
  /\ dash.at = "undo" =>
       /\ radioFaults > 0 /\ dash.candidate = saved
       /\ Locked /\ step.then = "rollback" => radioFaults > 1
  /\ radioFaults <= 1 =>
       /\ dash.at \in {"idle", "begin", "restart"} => config = saved
       /\ dash.at = "apply" => saved = IF Locked THEN dash.previous ELSE config
RadioInv ==
  /\ RadioTypeOK /\ HolderInv /\ ChipInv /\ RequestInv
  /\ ReadyMeansListening /\ NoLostWakeup /\ SingleFaultKeepsConfig

(***************************************************************************)
(* FrameServiced.  A frame that arrives is read or flushed in the end,     *)
(* unless the radio is reported as not ready: run() and the ways back to   *)
(* reception in transmitAck() and applyConfig() leave none in the chip.    *)
(***************************************************************************)
FrameServiced == chip.flag = "rxDone" ~> (chip.flag = "none" \/ ~ready)

(***************************************************************************)
(* AckSuccessIsReal.  An ACK counted as sent went on the air as a whole.   *)
(* (docs/gateway-heartbeat.md on ack.ackSuccessCount: "Radio TX completed  *)
(* and continuous RX was restored".)                                       *)
(***************************************************************************)
AckSuccessIsReal == mutex = "free" /\ ready /\ ack.success => ack.aired
=============================================================================
