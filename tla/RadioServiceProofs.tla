------------------------- MODULE RadioServiceProofs -------------------------
(***************************************************************************)
(* Proofs about RadioService: the radio task, the interrupt and the        *)
(* dashboard on one chip, for any set of configurations and any number of  *)
(* failing calls.                                                          *)
(***************************************************************************)
EXTENDS RadioService, TLAPS

Chip == [mode : {"standby", "rx", "tx"}, flag : {"none", "rxDone", "txDone"},
         config : Configs \cup {NoConfig}]
Dash == [at : {"idle", "begin", "apply", "save", "undo", "restart"},
         candidate : Configs \cup {NoConfig}, previous : Configs \cup {NoConfig}]
Step == [at : Steps, then : Reasons]
Ack == [aired : BOOLEAN, success : BOOLEAN]

\* The typing of the state, part by part.
LEMMA RadioTypes ==
  RadioTypeOK <=>
    /\ chip \in Chip /\ dio0Action \in {"none", "receive", "transmit"}
    /\ notified \in BOOLEAN /\ ready \in BOOLEAN
    /\ config \in Configs /\ saved \in Configs
    /\ mutex \in {"free", "task", "dashboard"} /\ task \in {"wait", "lock", "busy"}
    /\ step \in Step /\ dash \in Dash /\ ack \in Ack /\ radioFaults \in Nat
  BY Zenon DEF RadioTypeOK, Chip, Dash, Step, Ack

\* A step of the program counter.
LEMMA GotoEffect ==
  ASSUME NEW at \in Steps, NEW then \in Reasons, Goto(at, then)
  PROVE  step' \in Step /\ step'.at = at /\ step'.then = then
  BY DEF Goto, Step

\* The holder leaves the mutex.
LEMMA LeaveEffect ==
  ASSUME RadioInv, mutex # "free", NEW ok \in BOOLEAN, Leave(ok)
  PROVE  /\ mutex' = "free" /\ step' \in Step /\ step'.at = "none"
         /\ task' \in {"wait", "lock"}
         /\ dash' \in Dash
         /\ \/ mutex = "task" /\ dash' = dash
            \/ /\ mutex = "dashboard" /\ task' = task
               /\ dash' = IF dash.at = "apply" /\ ok
                          THEN [dash EXCEPT !.at = "save"] ELSE IdleRequest
<1>1. /\ dash \in Dash /\ mutex \in {"task", "dashboard"}
      /\ task \in {"wait", "lock", "busy"}
  BY RadioTypes DEF RadioInv
<1>2. IdleRequest \in Dash /\ [dash EXCEPT !.at = "save"] \in Dash
  BY <1>1 DEF IdleRequest, Dash
<1>3. step' \in Step /\ step'.at = "none" /\ mutex' = "free"
  BY DEF Leave, NoStep, Step, Steps, Reasons
<1>4. CASE mutex = "task"
  BY <1>1, <1>3, <1>4 DEF Leave
<1>5. CASE mutex = "dashboard"
  <2>1. task # "busy"
    BY <1>5 DEF RadioInv, HolderInv
  <2> QED
    BY <1>1, <1>2, <1>3, <1>5, <2>1 DEF Leave
<1> QED
  BY <1>1, <1>4, <1>5

\* begin() holds the mutex and has configured nothing yet.
LEMMA RadioInvInit == RadioInit => RadioInv
<1> SUFFICES ASSUME RadioInit PROVE RadioInv
  OBVIOUS
<1>1. chip \in Chip /\ step \in Step /\ dash \in Dash /\ ack \in Ack
  BY DEF RadioInit, Chip, Step, Steps, Reasons, Dash, Ack, NoAck
<1>2. RadioTypeOK
  BY <1>1, RadioTypes DEF RadioInit
<1>3. HolderInv /\ ChipInv
  BY DEF RadioInit, HolderInv, ChipInv
<1>4. RequestInv
  BY DEF RadioInit, RequestInv, Locked
<1>5. ReadyMeansListening /\ NoLostWakeup /\ SingleFaultKeepsConfig
  BY DEF RadioInit, ReadyMeansListening, NoLostWakeup, SingleFaultKeepsConfig
<1> QED
  BY <1>2, <1>3, <1>4, <1>5 DEF RadioInv

(***************************************************************************)
(* What the task may do to the chip between taking the mutex and           *)
(* startReceive(): anything but give it another configuration.             *)
(***************************************************************************)
LEMMA TaskWorks ==
  ASSUME RadioInv, mutex = "task",
         UNCHANGED <<ready, config, mutex, task, dash, saved>>,
         chip' \in Chip, chip'.config = chip.config,
         dio0Action' \in {"none", "receive", "transmit"},
         notified' \in BOOLEAN, ack' \in Ack, step' \in Step,
         radioFaults' \in Nat, radioFaults <= radioFaults',
         \/ step'.at \in TaskSteps
         \/ step'.at = "arm" /\ step'.then \in {"frame", "ack"},
         chip'.mode = "tx" => step'.at \in {"onAir", "sent", "timeout"}
  PROVE  RadioInv'
<1>0. RadioTypeOK
  BY DEF RadioInv
<1>1. RadioTypeOK'
  BY <1>0, RadioTypes DEF RadioTypeOK, Chip, Dash, Step, Ack
<1>2. HolderInv'
  BY DEF RadioInv, HolderInv
<1>3. ChipInv'
  BY DEF RadioInv, ChipInv, TaskSteps
<1>4. RequestInv'
  BY <1>0, RadioTypes DEF RadioInv, RequestInv, Locked, TaskSteps
<1>5. ReadyMeansListening' /\ NoLostWakeup'
  BY DEF ReadyMeansListening, NoLostWakeup
<1>6. SingleFaultKeepsConfig'
  BY <1>0, RadioTypes DEF RadioInv, SingleFaultKeepsConfig
<1> QED
  BY <1>1, <1>2, <1>3, <1>4, <1>5, <1>6 DEF RadioInv

\* A frame ends; if nobody is at work, its edge notifies the task.
LEMMA FrameArrivesInv ==
  ASSUME RadioInv, FrameArrives
  PROVE  RadioInv'
<1>0. /\ RadioTypeOK /\ chip \in Chip /\ notified \in BOOLEAN
      /\ chip.mode = "rx" /\ chip.flag = "none"
      /\ UNCHANGED <<dio0Action, ready, config, mutex, task, step, dash, saved, ack,
                     radioFaults>>
  BY RadioTypes DEF RadioInv, FrameArrives, serviceVars
<1>1. /\ chip' \in Chip /\ chip'.mode = "rx" /\ chip'.config = chip.config
  BY <1>0 DEF FrameArrives, Chip
<1>2. notified' \in BOOLEAN /\ (dio0Action = "receive" => notified')
  BY <1>0, Zenon DEF FrameArrives, Interrupt
<1>3. RadioTypeOK'
  BY <1>0, <1>1, <1>2 DEF RadioTypeOK, Chip
<1>4. HolderInv' /\ ChipInv' /\ ReadyMeansListening'
  BY <1>0, <1>1 DEF RadioInv, HolderInv, ChipInv, ReadyMeansListening
<1>5. RequestInv' /\ SingleFaultKeepsConfig'
  BY <1>0 DEF RadioInv, RequestInv, Locked, SingleFaultKeepsConfig
<1>6. NoLostWakeup'
  BY <1>0, <1>2 DEF RadioInv, NoLostWakeup, ReadyMeansListening
<1> QED
  BY <1>3, <1>4, <1>5, <1>6 DEF RadioInv

\* Only the task transmits, so it holds the mutex when a transmission ends.
LEMMA TransmissionEndsInv ==
  ASSUME RadioInv, TransmissionEnds
  PROVE  RadioInv'
<1>0. /\ chip \in Chip /\ notified \in BOOLEAN /\ ack \in Ack /\ step \in Step
      /\ radioFaults \in Nat /\ dio0Action \in {"none", "receive", "transmit"}
      /\ UNCHANGED <<dio0Action, ready, config, mutex, task, step, dash, saved,
                     radioFaults>>
  BY RadioTypes DEF RadioInv, TransmissionEnds, serviceVars
<1>1. mutex = "task" /\ step.at \in TaskSteps
  BY DEF RadioInv, HolderInv, TransmissionEnds, TaskSteps
<1>2. chip' \in Chip /\ chip'.mode = "standby" /\ chip'.config = chip.config
  BY <1>0 DEF TransmissionEnds, Chip
<1>3. ack' \in Ack
  BY <1>0 DEF TransmissionEnds, Ack
<1>4. notified' \in BOOLEAN
  BY <1>0, Zenon DEF TransmissionEnds, Interrupt
<1> QED
  BY <1>0, <1>1, <1>2, <1>3, <1>4, TaskWorks

\* ulTaskNotifyTake() and the lock.
LEMMA TaskEntersInv ==
  ASSUME RadioInv, TaskWakes \/ TaskLocks
  PROVE  RadioInv'
<1>0. RadioTypeOK /\ task # "busy"
  BY DEF RadioInv, TaskWakes, TaskLocks
<1>1. CASE TaskWakes
  <2>0. /\ notified' = FALSE /\ task' = "lock"
        /\ UNCHANGED <<chip, dio0Action, ready, config, mutex, step, dash, saved, ack,
                       radioFaults>>
    BY <1>1 DEF TaskWakes, serviceVars
  <2>1. RadioTypeOK'
    <3>1. notified' \in BOOLEAN /\ task' \in {"wait", "lock", "busy"}
      BY <2>0
    <3>2. UNCHANGED <<chip, dio0Action, ready, config, mutex, step, dash, saved, ack,
                      radioFaults>>
      BY <2>0
    <3> QED
      BY <1>0, <3>1, <3>2 DEF RadioTypeOK
  <2>2. HolderInv' /\ ChipInv' /\ ReadyMeansListening' /\ NoLostWakeup'
    BY <1>0, <2>0 DEF RadioInv, HolderInv, ChipInv, ReadyMeansListening, NoLostWakeup
  <2>3. RequestInv' /\ SingleFaultKeepsConfig'
    BY <2>0 DEF RadioInv, RequestInv, Locked, SingleFaultKeepsConfig
  <2> QED
    BY <2>1, <2>2, <2>3 DEF RadioInv
<1>2. CASE TaskLocks
  <2>0. /\ mutex = "free"
        /\ UNCHANGED <<chip, dio0Action, notified, ready, config, dash, saved, ack,
                       radioFaults>>
        /\ \/ /\ ready /\ mutex' = "task" /\ task' = "busy"
              /\ step' = [at |-> "receive", then |-> "none"]
           \/ /\ ~ready /\ mutex' = "free" /\ task' = "wait"
              /\ step' = [at |-> "none", then |-> "none"]
    BY <1>2 DEF TaskLocks, deviceVars, serviceVars, Goto, NoStep
  <2>1. step' \in Step /\ step'.at \in {"receive", "none"}
    BY <2>0 DEF Step, Steps, Reasons
  <2>2. RadioTypeOK'
    BY <1>0, <2>0, <2>1 DEF RadioTypeOK, Step
  <2>3. HolderInv'
    BY <2>0 DEF RadioInv, HolderInv, TaskSteps
  <2>4. ChipInv' /\ ReadyMeansListening' /\ NoLostWakeup'
    BY <2>0, <2>1 DEF RadioInv, ChipInv, ReadyMeansListening, NoLostWakeup
  <2>5. RequestInv' /\ SingleFaultKeepsConfig'
    BY <2>0, <2>1 DEF RadioInv, RequestInv, Locked, SingleFaultKeepsConfig
  <2> QED
    BY <2>2, <2>3, <2>4, <2>5 DEF RadioInv
<1> QED
  BY <1>1, <1>2

\* From the frame to the ACK on the air and back: the task's own steps.
LEMMA TaskFrameInv ==
  ASSUME RadioInv,
         \/ NoAckDue \/ AckDue \/ DrainBeforeAck \/ DetachReceive \/ AttachTransmit
         \/ StartTransmit \/ AwaitSent \/ FinishTransmit \/ TransmitTimesOut
  PROVE  RadioInv'
<1>0. /\ chip \in Chip /\ notified \in BOOLEAN /\ ack \in Ack /\ radioFaults \in Nat
      /\ dio0Action \in {"none", "receive", "transmit"}
      /\ mutex \in {"free", "task", "dashboard"}
  BY RadioTypes DEF RadioInv
<1>1. /\ step.at \in TaskSteps /\ mutex # "free"
      /\ UNCHANGED <<ready, config, mutex, task, dash, saved>>
  BY DEF NoAckDue, AckDue, DrainBeforeAck, DetachReceive, AttachTransmit,
         StartTransmit, AwaitSent, FinishTransmit, TransmitTimesOut, At, serviceVars,
         TaskSteps
<1>2. /\ mutex = "task"
      /\ chip.mode = "tx" => step.at \in {"onAir", "sent", "timeout"}
  BY <1>0, <1>1 DEF RadioInv, HolderInv, TaskSteps
<1>3. CASE NoAckDue
  <2>1. step' \in Step /\ step'.at = "arm" /\ step'.then = "frame"
    BY <1>3, GotoEffect DEF NoAckDue, Steps, Reasons
  <2>2. PICK standby \in BOOLEAN :
          chip' = [chip EXCEPT !.mode = IF standby THEN "standby" ELSE @,
                               !.flag = IF standby THEN @ ELSE "none"]
    BY <1>3 DEF NoAckDue
  <2>3. /\ chip' \in Chip /\ chip'.config = chip.config
        /\ chip'.mode \in {chip.mode, "standby"}
    BY <1>0, <2>2 DEF Chip
  <2>4. step.at = "receive" /\ UNCHANGED <<dio0Action, notified, ack, radioFaults>>
    BY <1>3 DEF NoAckDue, At
  <2> QED
    BY <1>0, <1>1, <1>2, <2>1, <2>3, <2>4, TaskWorks
<1>4. CASE AckDue
  <2>1. step' \in Step /\ step'.at = "drain"
    BY <1>4, GotoEffect DEF AckDue, Steps, Reasons
  <2>2. chip' \in Chip /\ chip'.config = chip.config /\ chip'.mode = chip.mode
    BY <1>0, <1>4 DEF AckDue, Chip
  <2>3. step.at = "receive" /\ UNCHANGED <<dio0Action, notified, radioFaults>>
    BY <1>4 DEF AckDue, At
  <2>4. ack' \in Ack
    BY <1>4 DEF AckDue, NoAck, Ack
  <2> QED
    BY <1>0, <1>1, <1>2, <2>1, <2>2, <2>3, <2>4, TaskWorks DEF TaskSteps
<1>5. CASE DrainBeforeAck \/ DetachReceive \/ AttachTransmit
  <2>1. /\ step' \in Step /\ step'.at \in TaskSteps
    BY <1>5, GotoEffect
       DEF DrainBeforeAck, DetachReceive, AttachTransmit, Steps, Reasons, TaskSteps
  <2>2. /\ step.at \in {"drain", "detach", "attach"}
        /\ UNCHANGED <<chip, ack, radioFaults>>
        /\ dio0Action' \in {"none", "receive", "transmit"}
    BY <1>0, <1>5 DEF DrainBeforeAck, DetachReceive, AttachTransmit, At
  <2>3. notified' \in BOOLEAN
    BY <1>0, <1>5, Zenon DEF DrainBeforeAck, DetachReceive, AttachTransmit
  <2> QED
    BY <1>0, <1>1, <1>2, <2>1, <2>2, <2>3, TaskWorks
<1>6. CASE StartTransmit
  <2>1. step.at = "transmit" /\ UNCHANGED <<dio0Action, notified, ack>>
    BY <1>6 DEF StartTransmit, At
  <2>2. CASE /\ Okay /\ chip' = [chip EXCEPT !.mode = "tx", !.flag = "none"]
             /\ Goto("onAir", "ack")
    <3>1. step' \in Step /\ step'.at = "onAir"
      BY <2>2, GotoEffect DEF Steps, Reasons
    <3>2. chip' \in Chip /\ chip'.config = chip.config /\ radioFaults' = radioFaults
      BY <1>0, <2>2 DEF Chip, Okay
    <3> QED
      BY <1>0, <1>1, <1>2, <2>1, <3>1, <3>2, TaskWorks DEF TaskSteps
  <2>3. CASE /\ Failing
             /\ \E mode \in {chip.mode, "standby"} : chip' = [chip EXCEPT !.mode = mode]
             /\ Goto("arm", "ack")
    <3>1. step' \in Step /\ step'.at = "arm" /\ step'.then = "ack"
      BY <2>3, GotoEffect DEF Steps, Reasons
    <3>2. /\ chip' \in Chip /\ chip'.config = chip.config
          /\ chip'.mode \in {chip.mode, "standby"}
      BY <1>0, <2>3 DEF Chip
    <3>3. radioFaults' \in Nat /\ radioFaults <= radioFaults'
      BY <1>0, <2>3 DEF Failing
    <3> QED
      BY <1>0, <1>1, <1>2, <2>1, <3>1, <3>2, <3>3, TaskWorks
  <2> QED
    BY <1>6, <2>2, <2>3 DEF StartTransmit
<1>7. CASE AwaitSent
  <2>1. /\ step' \in Step /\ step'.at \in {"sent", "timeout"}
    BY <1>7, GotoEffect DEF AwaitSent, Steps, Reasons
  <2>2. step.at = "onAir" /\ UNCHANGED <<chip, dio0Action, ack>>
    BY <1>7 DEF AwaitSent, At
  <2>3. notified' \in BOOLEAN
    BY <1>0, <1>7, Zenon DEF AwaitSent
  <2>4. radioFaults' \in Nat /\ radioFaults <= radioFaults'
    BY <1>0, <1>7 DEF AwaitSent, Okay, Failing
  <2> QED
    BY <1>0, <1>1, <1>2, <2>1, <2>2, <2>3, <2>4, TaskWorks DEF TaskSteps
<1>8. CASE FinishTransmit \/ TransmitTimesOut
  <2>1. step' \in Step /\ step'.at = "arm" /\ step'.then = "ack"
    BY <1>8, GotoEffect DEF FinishTransmit, TransmitTimesOut, Steps, Reasons
  <2>2. chip' \in Chip /\ chip'.config = chip.config /\ chip'.mode = "standby"
    BY <1>0, <1>8 DEF FinishTransmit, TransmitTimesOut, Chip
  <2>3. ack' \in Ack
    BY <1>0, <1>8 DEF FinishTransmit, TransmitTimesOut, Ack
  <2>4. radioFaults' \in Nat /\ radioFaults <= radioFaults'
    BY <1>0, <1>8 DEF FinishTransmit, TransmitTimesOut, Okay, Failing
  <2>5. UNCHANGED <<dio0Action, notified>>
    BY <1>8 DEF FinishTransmit, TransmitTimesOut
  <2> QED
    BY <1>0, <1>1, <1>2, <2>1, <2>2, <2>3, <2>4, <2>5, TaskWorks
<1> QED
  BY <1>3, <1>4, <1>5, <1>6, <1>7, <1>8

\* startReceiveUnlocked(), up to the drain.
LEMMA ArmReceiveInv ==
  ASSUME RadioInv, ArmReceive
  PROVE  RadioInv'
<1>0. /\ RadioTypeOK /\ step \in Step /\ notified \in BOOLEAN
      /\ step.at = "arm" /\ mutex # "free" /\ dio0Action' = "receive"
      /\ UNCHANGED <<chip, ready, config, mutex, task, dash, saved, ack, radioFaults>>
  BY RadioTypes DEF RadioInv, ArmReceive, At, serviceVars
<1>1. step' \in Step /\ step'.at = "start" /\ step'.then = step.then
  <2>1. step.then \in Reasons /\ "start" \in Steps
    BY <1>0 DEF Step, Steps
  <2> QED
    BY <2>1, GotoEffect DEF ArmReceive
<1>2. notified' \in BOOLEAN
  BY <1>0, Zenon DEF ArmReceive
<1>3. RadioTypeOK'
  BY <1>0, <1>1, <1>2 DEF RadioTypeOK, Step
<1>4. HolderInv' /\ ChipInv'
  BY <1>0, <1>1 DEF RadioInv, HolderInv, ChipInv, TaskSteps
<1>5. RequestInv' /\ SingleFaultKeepsConfig'
  BY <1>0, <1>1 DEF RadioInv, RequestInv, Locked, SingleFaultKeepsConfig
<1>6. ReadyMeansListening' /\ NoLostWakeup'
  BY <1>0 DEF ReadyMeansListening, NoLostWakeup
<1> QED
  BY <1>3, <1>4, <1>5, <1>6 DEF RadioInv

\* startReceive() works: the holder leaves a chip that listens.
LEMMA ReceptionStarts ==
  ASSUME RadioInv, StartReceive,
         Okay, chip' = [chip EXCEPT !.mode = "rx", !.flag = "none"],
         ready' = TRUE, AfterStart(TRUE)
  PROVE  RadioInv'
<1>0. /\ RadioTypeOK /\ step \in Step /\ chip \in Chip /\ dash \in Dash
      /\ radioFaults \in Nat
      /\ step.at = "start" /\ mutex # "free"
      /\ UNCHANGED <<dio0Action, notified, config, saved, ack, radioFaults>>
  BY RadioTypes DEF RadioInv, StartReceive, At, Okay
<1>1. /\ chip' \in Chip /\ chip'.mode = "rx" /\ chip'.flag = "none"
      /\ chip'.config = chip.config
  BY <1>0 DEF Chip
<1> DEFINE ok == step.then = "apply"
<1>2. /\ mutex' = "free" /\ step' \in Step /\ step'.at = "none"
      /\ task' \in {"wait", "lock"} /\ dash' \in Dash
      /\ \/ mutex = "task" /\ dash' = dash
         \/ /\ mutex = "dashboard" /\ task' = task
            /\ dash' = IF dash.at = "apply" /\ ok
                       THEN [dash EXCEPT !.at = "save"] ELSE IdleRequest
  <2>1. Leave(ok) /\ ok \in BOOLEAN
    BY Zenon DEF AfterStart
  <2> QED
    BY <1>0, <2>1, LeaveEffect
<1>3. RadioTypeOK'
  BY <1>0, <1>1, <1>2 DEF RadioTypeOK, Step, Chip, Dash
<1>4. ChipInv' /\ ReadyMeansListening' /\ NoLostWakeup'
  BY <1>0, <1>1, <1>2 DEF RadioInv, ChipInv, ReadyMeansListening, NoLostWakeup
<1>5. CASE mutex = "task"
  <2>1. HolderInv'
    BY <1>1, <1>2, <1>5 DEF RadioInv, HolderInv
  <2>2. RequestInv' /\ SingleFaultKeepsConfig'
    BY <1>0, <1>2, <1>5 DEF RadioInv, RequestInv, Locked, SingleFaultKeepsConfig
  <2> QED
    BY <1>3, <1>4, <2>1, <2>2 DEF RadioInv
<1>6. CASE mutex = "dashboard" /\ dash.at = "apply" /\ ok
  <2>1. /\ dash'.at = "save" /\ dash'.candidate = dash.candidate
    BY <1>0, <1>2, <1>6 DEF Dash
  <2>2. HolderInv'
    BY <1>1, <1>2, <1>6, <2>1 DEF RadioInv, HolderInv
  <2>3. RequestInv' /\ SingleFaultKeepsConfig'
    BY <1>0, <1>2, <1>6, <2>1 DEF RadioInv, RequestInv, Locked, SingleFaultKeepsConfig
  <2> QED
    BY <1>3, <1>4, <2>2, <2>3 DEF RadioInv
<1>7. CASE mutex = "dashboard" /\ ~(dash.at = "apply" /\ ok)
  <2>1. dash'.at = "idle"
    BY <1>2, <1>7 DEF IdleRequest
  <2>2. HolderInv'
    BY <1>1, <1>2, <1>7, <2>1 DEF RadioInv, HolderInv
  <2>3. radioFaults <= 1 => config = saved
    BY <1>0, <1>7 DEF RadioInv, RequestInv, HolderInv, Locked
  <2>4. RequestInv' /\ SingleFaultKeepsConfig'
    BY <1>0, <1>2, <1>7, <2>1, <2>3 DEF RequestInv, Locked, SingleFaultKeepsConfig
  <2> QED
    BY <1>3, <1>4, <2>2, <2>4 DEF RadioInv
<1> QED
  BY <1>2, <1>5, <1>6, <1>7

\* startReceive() fails: reported at once, or tried again, or rolled back.
LEMMA ReceptionFails ==
  ASSUME RadioInv, StartReceive, Failing,
         \E mode \in {"standby", "rx"}, flag \in {chip.flag, "none"} :
           chip' = [chip EXCEPT !.mode = mode, !.flag = flag],
         ready' = FALSE, AfterStart(FALSE)
  PROVE  RadioInv'
<1>0. /\ RadioTypeOK /\ step \in Step /\ chip \in Chip /\ dash \in Dash
      /\ radioFaults \in Nat
      /\ step.at = "start" /\ mutex \in {"task", "dashboard"}
      /\ UNCHANGED <<dio0Action, notified, config, saved, ack>>
  BY RadioTypes DEF RadioInv, StartReceive, At
<1>1. /\ chip' \in Chip /\ chip'.mode # "tx" /\ chip'.config = chip.config
  BY <1>0 DEF Chip
<1>2. radioFaults' \in Nat /\ radioFaults' = radioFaults + 1 /\ ready' \in BOOLEAN
  <2>1. radioFaults' \in Nat /\ radioFaults' = radioFaults + 1
    BY <1>0 DEF Failing
  <2>2. ready' \in BOOLEAN
    OBVIOUS
  <2> QED
    BY <2>1, <2>2
<1>3. NoLostWakeup' /\ ReadyMeansListening'
  BY DEF NoLostWakeup, ReadyMeansListening
<1>4. CASE step.then \in {"frame", "rollback"}
  <2>1. Leave(FALSE)
    BY <1>4 DEF AfterStart
  <2>2. /\ mutex' = "free" /\ step' \in Step /\ step'.at = "none"
        /\ task' \in {"wait", "lock"} /\ dash' \in Dash
        /\ \/ mutex = "task" /\ dash' = dash
           \/ mutex = "dashboard" /\ task' = task /\ dash' = IdleRequest
    BY <1>0, <2>1, LeaveEffect
  <2>3. RadioTypeOK'
    BY <1>0, <1>1, <1>2, <2>2 DEF RadioTypeOK, Step, Chip, Dash
  <2>4. ChipInv'
    BY <2>2 DEF ChipInv
  <2>5. CASE mutex = "task"
    <3>1. HolderInv'
      BY <1>1, <2>2, <2>5 DEF RadioInv, HolderInv
    <3>2. RequestInv' /\ SingleFaultKeepsConfig'
      BY <1>0, <1>2, <2>2, <2>5 DEF RadioInv, RequestInv, Locked, SingleFaultKeepsConfig
    <3> QED
      BY <1>3, <2>3, <2>4, <3>1, <3>2 DEF RadioInv
  <2>6. CASE mutex = "dashboard"
    <3>1. dash'.at = "idle"
      BY <2>2, <2>6 DEF IdleRequest
    <3>2. HolderInv'
      BY <1>1, <2>2, <2>6, <3>1 DEF RadioInv, HolderInv
    <3>3. radioFaults' <= 1 => config = saved
      BY <1>0, <1>2, <1>4, <2>6 DEF RadioInv, RequestInv, HolderInv, Locked
    <3>4. RequestInv' /\ SingleFaultKeepsConfig'
      BY <1>0, <2>2, <3>1, <3>3 DEF RequestInv, Locked, SingleFaultKeepsConfig
    <3> QED
      BY <1>3, <2>3, <2>4, <3>2, <3>4 DEF RadioInv
  <2> QED
    BY <1>0, <2>5, <2>6
<1>5. CASE step.then \notin {"frame", "rollback"}
  <2>1. /\ UNCHANGED <<mutex, task, dash>>
        /\ IF step.then = "ack" THEN Goto("arm", "frame") ELSE Goto("rollback", "rollback")
    BY <1>5 DEF AfterStart
  <2>2. \/ mutex = "task" /\ step.then = "ack"
        \/ mutex = "dashboard" /\ step.then = "apply"
    BY <1>0, <1>5 DEF RadioInv, HolderInv, TaskSteps
  <2>3. /\ step' \in Step
        /\ \/ mutex = "task" /\ step'.at = "arm" /\ step'.then = "frame"
           \/ mutex = "dashboard" /\ step'.at = "rollback" /\ step'.then = "rollback"
    BY <2>1, <2>2, GotoEffect DEF Steps, Reasons
  <2>4. RadioTypeOK'
    BY <1>0, <1>1, <1>2, <2>1, <2>3 DEF RadioTypeOK, Step, Chip
  <2>5. HolderInv' /\ ChipInv'
    BY <1>0, <1>1, <2>1, <2>2, <2>3 DEF RadioInv, HolderInv, ChipInv
  <2>6. RequestInv' /\ SingleFaultKeepsConfig'
    BY <1>0, <1>2, <2>1, <2>2, <2>3
       DEF RadioInv, RequestInv, Locked, SingleFaultKeepsConfig
  <2> QED
    BY <1>3, <2>4, <2>5, <2>6 DEF RadioInv
<1> QED
  BY <1>4, <1>5

\* startReceiveUnlocked(), the rest.
LEMMA StartReceiveInv ==
  ASSUME RadioInv, StartReceive
  PROVE  RadioInv'
  BY ReceptionStarts, ReceptionFails DEF StartReceive

\* A request of the dashboard waits for the mutex.
LEMMA DashRequestInv ==
  ASSUME RadioInv, RequestConfig \/ RequestRestart
  PROVE  RadioInv'
<1>0. RadioTypeOK /\ config \in Configs /\ saved \in Configs /\ dash \in Dash
  BY RadioTypes DEF RadioInv
<1>1. PICK kind \in {"apply", "restart"}, c \in Configs : Request(kind, c)
  BY <1>0 DEF RequestConfig, RequestRestart
<1>2. /\ dash.at = "idle" /\ dash' = [at |-> kind, candidate |-> c, previous |-> saved]
      /\ UNCHANGED <<chip, dio0Action, notified, ready, config, mutex, task, step, saved,
                     ack, radioFaults>>
  BY <1>1 DEF Request, deviceVars, serviceVars
<1>3. dash' \in Dash /\ dash'.at = kind /\ dash'.candidate = c
  BY <1>0, <1>2 DEF Dash
<1>4. RadioTypeOK'
  BY <1>0, <1>2, <1>3 DEF RadioTypeOK, Dash
<1>5. mutex # "dashboard"
  BY <1>2 DEF RadioInv, HolderInv
<1>6. HolderInv' /\ ChipInv' /\ ReadyMeansListening' /\ NoLostWakeup'
  BY <1>2, <1>3, <1>5
     DEF RadioInv, HolderInv, ChipInv, ReadyMeansListening, NoLostWakeup
<1>7. RequestInv' /\ SingleFaultKeepsConfig'
  BY <1>2, <1>3, <1>5 DEF RadioInv, RequestInv, Locked, SingleFaultKeepsConfig
<1> QED
  BY <1>4, <1>6, <1>7 DEF RadioInv

\* applyConfig() and restart() remember the configuration in use.
LEMMA DashLocksInv ==
  ASSUME RadioInv, DashLocks
  PROVE  RadioInv'
<1>0. /\ RadioTypeOK /\ config \in Configs /\ dash \in Dash /\ chip \in Chip
      /\ dash.at \in {"apply", "undo", "restart"}
      /\ mutex = "free" /\ mutex' = "dashboard" /\ step.at = "none"
      /\ UNCHANGED <<dio0Action, notified, ready, config, task, saved, ack, radioFaults>>
  BY RadioTypes DEF RadioInv, HolderInv, DashLocks, serviceVars
<1>1. /\ chip' \in Chip /\ chip'.mode = "standby"
  BY <1>0 DEF DashLocks, Chip
<1>2. /\ dash' \in Dash /\ dash'.at = dash.at /\ dash'.previous = config
      /\ dash'.candidate = IF dash.at = "restart" THEN config ELSE dash.candidate
  BY <1>0 DEF DashLocks, Dash
<1>3. /\ step' \in Step /\ step'.at = "configure"
      /\ step'.then = IF dash.at = "restart" THEN "rollback" ELSE "apply"
  BY <1>0 DEF DashLocks, Goto, Step, Steps, Reasons
<1>4. RadioTypeOK'
  BY <1>0, <1>1, <1>2, <1>3 DEF RadioTypeOK, Dash, Chip, Step
<1>5. HolderInv'
  BY <1>0, <1>1, <1>2, <1>3 DEF RadioInv, HolderInv
<1>6. ChipInv' /\ ReadyMeansListening' /\ NoLostWakeup'
  BY <1>0, <1>3 DEF ChipInv, ReadyMeansListening, NoLostWakeup
<1>7. RequestInv' /\ SingleFaultKeepsConfig'
  BY <1>0, <1>2, <1>3 DEF RadioInv, RequestInv, Locked, SingleFaultKeepsConfig
<1> QED
  BY <1>4, <1>5, <1>6, <1>7 DEF RadioInv

\* The facts about the chip that configureUnlocked() leaves behind.
LEMMA ChipConfiguredEffect ==
  ASSUME NEW c \in Configs \cup {NoConfig}, ChipConfigured(c)
  PROVE  chip' \in Chip /\ chip'.mode = "standby" /\ chip'.config = c
  BY DEF ChipConfigured, Chip

(***************************************************************************)
(* configureUnlocked() works, with the candidate or with the previous      *)
(* configuration: reception is started next.                               *)
(***************************************************************************)
LEMMA Configured ==
  ASSUME RadioInv, mutex = "dashboard", step.at \in {"configure", "rollback"},
         NEW c \in Configs, ChipConfigured(c), ready' = TRUE, config' = c,
         Goto("arm", step.then),
         UNCHANGED <<mutex, task, dash, dio0Action, notified, saved, ack, radioFaults>>,
         c = IF step.at = "configure" THEN dash.candidate ELSE dash.previous
  PROVE  RadioInv'
<1>0. RadioTypeOK /\ step \in Step
  BY RadioTypes DEF RadioInv
<1>1. chip' \in Chip /\ chip'.mode = "standby" /\ chip'.config = c
  BY ChipConfiguredEffect
<1>2. step' \in Step /\ step'.at = "arm" /\ step'.then = step.then
  <2>1. step.then \in Reasons /\ "arm" \in Steps
    BY <1>0 DEF Step, Steps
  <2> QED
    BY <2>1, GotoEffect
<1>3. RadioTypeOK'
  BY <1>0, <1>1, <1>2 DEF RadioTypeOK, Step, Chip
<1>4. HolderInv' /\ ChipInv'
  BY <1>0, <1>1, <1>2 DEF RadioInv, HolderInv, ChipInv
<1>5. ReadyMeansListening' /\ NoLostWakeup'
  BY DEF ReadyMeansListening, NoLostWakeup
<1>6. RequestInv'
  BY <1>0, <1>2 DEF RadioInv, RequestInv, HolderInv, Locked
<1>7. SingleFaultKeepsConfig'
  BY DEF RadioInv, HolderInv, SingleFaultKeepsConfig
<1> QED
  BY <1>3, <1>4, <1>5, <1>6, <1>7 DEF RadioInv

\* configureUnlocked() fails with nothing to fall back to: the radio is out
\* of service, and says so.
LEMMA ConfigureGivesUp ==
  ASSUME RadioInv, mutex = "dashboard", step.at \in {"configure", "rollback"},
         step.at = "configure" => step.then # "apply",
         Failing, ChipConfigured(NoConfig), ready' = FALSE, Leave(FALSE),
         UNCHANGED <<config, dio0Action, notified, saved, ack>>
  PROVE  RadioInv'
<1>0. RadioTypeOK /\ radioFaults \in Nat
  BY RadioTypes DEF RadioInv
<1>1. chip' \in Chip /\ chip'.mode = "standby"
  BY ChipConfiguredEffect
<1>2. radioFaults' \in Nat /\ radioFaults' = radioFaults + 1 /\ ready' \in BOOLEAN
  <2>1. radioFaults' \in Nat /\ radioFaults' = radioFaults + 1
    BY <1>0 DEF Failing
  <2>2. ready' \in BOOLEAN
    OBVIOUS
  <2> QED
    BY <2>1, <2>2
<1>3. /\ mutex' = "free" /\ step' \in Step /\ step'.at = "none"
      /\ task' \in {"wait", "lock"} /\ dash' \in Dash /\ dash' = IdleRequest
  BY LeaveEffect
<1>4. dash'.at = "idle"
  BY <1>3 DEF IdleRequest
<1>5. RadioTypeOK'
  BY <1>0, <1>1, <1>2, <1>3 DEF RadioTypeOK, Step, Chip, Dash
<1>6. HolderInv' /\ ChipInv'
  BY <1>1, <1>3, <1>4 DEF HolderInv, ChipInv
<1>7. ReadyMeansListening' /\ NoLostWakeup'
  BY DEF ReadyMeansListening, NoLostWakeup
<1>8. radioFaults' <= 1 => config' = saved'
  BY <1>0, <1>2 DEF RadioInv, RequestInv, HolderInv, Locked
<1>9. RequestInv' /\ SingleFaultKeepsConfig'
  BY <1>3, <1>4, <1>8 DEF RequestInv, Locked, SingleFaultKeepsConfig
<1> QED
  BY <1>5, <1>6, <1>7, <1>9 DEF RadioInv

\* The candidate is refused, and applyConfig() goes back.
LEMMA CandidateRefused ==
  ASSUME RadioInv, mutex = "dashboard", step.at = "configure", step.then = "apply",
         Failing, ChipConfigured(NoConfig), ready' = FALSE,
         Goto("rollback", "rollback"),
         UNCHANGED <<config, mutex, task, dash, dio0Action, notified, saved, ack>>
  PROVE  RadioInv'
<1>0. RadioTypeOK /\ radioFaults \in Nat
  BY RadioTypes DEF RadioInv
<1>1. chip' \in Chip /\ chip'.mode = "standby"
  BY ChipConfiguredEffect
<1>2. radioFaults' \in Nat /\ radioFaults' = radioFaults + 1 /\ ready' \in BOOLEAN
  <2>1. radioFaults' \in Nat /\ radioFaults' = radioFaults + 1
    BY <1>0 DEF Failing
  <2>2. ready' \in BOOLEAN
    OBVIOUS
  <2> QED
    BY <2>1, <2>2
<1>3. step' \in Step /\ step'.at = "rollback" /\ step'.then = "rollback"
  BY GotoEffect DEF Steps, Reasons
<1>4. RadioTypeOK'
  BY <1>0, <1>1, <1>2, <1>3 DEF RadioTypeOK, Step, Chip
<1>5. HolderInv' /\ ChipInv'
  BY <1>1, <1>3 DEF RadioInv, HolderInv, ChipInv
<1>6. ReadyMeansListening' /\ NoLostWakeup'
  BY DEF ReadyMeansListening, NoLostWakeup
<1>7. RequestInv' /\ SingleFaultKeepsConfig'
  BY <1>0, <1>2, <1>3 DEF RadioInv, RequestInv, HolderInv, Locked, SingleFaultKeepsConfig
<1> QED
  BY <1>4, <1>5, <1>6, <1>7 DEF RadioInv

\* The two places that configure the chip.
LEMMA ConfigureInv ==
  ASSUME RadioInv, ConfigureCandidate \/ RollbackConfig
  PROVE  RadioInv'
<1>1. mutex = "dashboard"
  BY RadioTypes DEF RadioInv, HolderInv, ConfigureCandidate, RollbackConfig, At,
                    TaskSteps
<1>2. dash.candidate \in Configs /\ dash.previous \in Configs
  BY <1>1 DEF RadioInv, HolderInv
<1>3. CASE ConfigureCandidate
  <2>0. step.at = "configure" /\ UNCHANGED <<dio0Action, notified, saved, ack>>
    BY <1>3 DEF ConfigureCandidate, At
  <2>1. CASE /\ Okay /\ ChipConfigured(dash.candidate) /\ ready' = TRUE
             /\ config' = dash.candidate /\ Goto("arm", step.then)
             /\ UNCHANGED <<mutex, task, dash>>
    BY <1>1, <1>2, <2>0, <2>1, Configured DEF Okay
  <2>2. CASE /\ Failing /\ ChipConfigured(NoConfig) /\ ready' = FALSE
             /\ UNCHANGED config
             /\ IF step.then = "apply"
                THEN Goto("rollback", "rollback") /\ UNCHANGED <<mutex, task, dash>>
                ELSE Leave(FALSE)
    BY <1>1, <2>0, <2>2, CandidateRefused, ConfigureGivesUp
  <2> QED
    BY <1>3, <2>1, <2>2 DEF ConfigureCandidate
<1>4. CASE RollbackConfig
  <2>0. /\ step.at = "rollback" /\ step.then = "rollback"
        /\ UNCHANGED <<dio0Action, notified, saved, ack>>
    BY <1>1, <1>4 DEF RollbackConfig, At, RadioInv, HolderInv
  <2>1. CASE /\ Okay /\ ChipConfigured(dash.previous) /\ ready' = TRUE
             /\ config' = dash.previous /\ Goto("arm", "rollback")
             /\ UNCHANGED <<mutex, task, dash>>
    BY <1>1, <1>2, <2>0, <2>1, Configured DEF Okay
  <2>2. CASE /\ Failing /\ ChipConfigured(NoConfig) /\ ready' = FALSE
             /\ UNCHANGED config /\ Leave(FALSE)
    BY <1>1, <2>0, <2>2, ConfigureGivesUp
  <2> QED
    BY <1>4, <2>1, <2>2 DEF RollbackConfig
<1> QED
  BY <1>3, <1>4

\* save(), and the second applyConfig() if it fails.
LEMMA SaveConfigInv ==
  ASSUME RadioInv, SaveConfig
  PROVE  RadioInv'
<1>0. /\ RadioTypeOK /\ config \in Configs /\ saved \in Configs /\ radioFaults \in Nat
      /\ dash.at = "save" /\ config = dash.candidate /\ mutex # "dashboard"
      /\ UNCHANGED <<chip, dio0Action, notified, ready, config, mutex, task, step, ack>>
  BY RadioTypes DEF RadioInv, RequestInv, HolderInv, SaveConfig, deviceVars, serviceVars
<1>1. ChipInv' /\ ReadyMeansListening' /\ NoLostWakeup'
  BY <1>0 DEF RadioInv, ChipInv, ReadyMeansListening, NoLostWakeup
<1>2. CASE Okay /\ saved' = dash.candidate /\ dash' = IdleRequest
  <2>1. dash' \in Dash /\ dash'.at = "idle"
    BY <1>2 DEF IdleRequest, Dash
  <2>2. RadioTypeOK'
    BY <1>0, <1>2, <2>1 DEF RadioTypeOK, Dash, Okay
  <2>3. HolderInv'
    BY <1>0, <2>1 DEF RadioInv, HolderInv
  <2>4. RequestInv' /\ SingleFaultKeepsConfig'
    BY <1>0, <1>2, <2>1 DEF RadioInv, RequestInv, Locked, SingleFaultKeepsConfig, Okay
  <2> QED
    BY <1>1, <2>2, <2>3, <2>4 DEF RadioInv
<1>3. CASE /\ Failing /\ UNCHANGED saved
           /\ dash' = [at |-> "undo", candidate |-> saved, previous |-> config]
  <2>1. dash' \in Dash /\ dash'.at = "undo" /\ dash'.candidate = saved
    BY <1>0, <1>3 DEF Dash
  <2>2. radioFaults' \in Nat /\ radioFaults' = radioFaults + 1
    BY <1>0, <1>3 DEF Failing
  <2>3. RadioTypeOK'
    BY <1>0, <1>3, <2>1, <2>2 DEF RadioTypeOK, Dash
  <2>4. HolderInv'
    BY <1>0, <2>1 DEF RadioInv, HolderInv
  <2>5. RequestInv' /\ SingleFaultKeepsConfig'
    BY <1>0, <1>3, <2>1, <2>2 DEF RadioInv, RequestInv, Locked, SingleFaultKeepsConfig
  <2> QED
    BY <1>1, <2>3, <2>4, <2>5 DEF RadioInv
<1> QED
  BY <1>2, <1>3 DEF SaveConfig

\* Every step of the task, the interrupt and the dashboard keeps the invariant.
LEMMA RadioInvStep == RadioInv /\ [RadioNext]_radioVars => RadioInv'
<1> SUFFICES ASSUME RadioInv, [RadioNext]_radioVars PROVE RadioInv'
  OBVIOUS
<1>1. CASE UNCHANGED radioVars
  BY <1>1 DEF RadioInv, RadioTypeOK, HolderInv, ChipInv, RequestInv, Locked,
              ReadyMeansListening, NoLostWakeup, SingleFaultKeepsConfig, radioVars,
              deviceVars, serviceVars
<1>2. CASE RadioNext
  BY <1>2, FrameArrivesInv, TransmissionEndsInv, TaskEntersInv, TaskFrameInv,
     ArmReceiveInv, StartReceiveInv, DashRequestInv, DashLocksInv, ConfigureInv,
     SaveConfigInv
     DEF RadioNext, TaskStep, ReceiveStep, DashStep
<1> QED
  BY <1>1, <1>2

\* The inductive invariant holds in every state.
THEOREM RadioInvInvariant == RadioSpec => []RadioInv
  BY RadioInvInit, RadioInvStep, PTL DEF RadioSpec

\* Type correctness of the chip, the task and the dashboard's request.
THEOREM RadioTypeCorrect == RadioSpec => []RadioTypeOK
<1>1. RadioInv => RadioTypeOK
  BY DEF RadioInv
<1> QED
  BY <1>1, RadioInvInvariant, PTL

(***************************************************************************)
(* However many calls of the chip fail, whatever transmitAck, applyConfig  *)
(* or restart went through: a radio that is reported as ready listens,     *)
(* with the configuration shown and with its interrupt attached.           *)
(***************************************************************************)
THEOREM ReadyAlwaysListening == RadioSpec => []ReadyMeansListening
<1>1. RadioInv => ReadyMeansListening
  BY DEF RadioInv
<1> QED
  BY <1>1, RadioInvInvariant, PTL

(***************************************************************************)
(* No interleaving of the interrupt with the drains of transmitAck and     *)
(* startReceiveUnlocked leaves an unread frame without its notification    *)
(* once the task waits again.                                              *)
(***************************************************************************)
THEOREM WakeupNeverLost == RadioSpec => []NoLostWakeup
<1>1. RadioInv => NoLostWakeup
  BY DEF RadioInv
<1> QED
  BY <1>1, RadioInvInvariant, PTL

(***************************************************************************)
(* One failing call, wherever it falls in applyConfig() and handleRadio(), *)
(* leaves the radio with the configuration that is saved.                  *)
(***************************************************************************)
THEOREM SingleFaultAlwaysKeepsConfig == RadioSpec => []SingleFaultKeepsConfig
<1>1. RadioInv => SingleFaultKeepsConfig
  BY DEF RadioInv
<1> QED
  BY <1>1, RadioInvInvariant, PTL
=============================================================================
