------------------------------ MODULE OtaBoot ------------------------------
(***************************************************************************)
(* Firmware update and start-up: the upload handlers and the reboot of the *)
(* dashboard (lib/dashboard/dashboard.cpp), GatewayApp::begin()            *)
(* (lib/app/gateway_app.cpp) and the validation of a new image             *)
(* (lib/ota/ota_manager.cpp), with the power failing at any step.  The     *)
(* boot loader and the Update library are external.                        *)
(***************************************************************************)
EXTENDS Integers

CONSTANTS
  MaxOtaFaults,  \* bound on failing esp_ota_... calls of the OTA manager
  MaxUploads     \* bound on uploads

ASSUME OtaAssumption == MaxOtaFaults \in Nat /\ MaxUploads \in Nat

Slots == {0, 1}
Other(s) == 1 - s
Checks == {"config", "queue", "commands", "time", "layout"}
ImageStates == {"NEW", "PENDING_VERIFY", "VALID", "INVALID", "ABORTED",
                "UNDEFINED"}

VARIABLES
  image,         \* the application slots: is the image whole, and its state
  selected,      \* the slot the OTA data selects
  running,       \* the slot whose image runs
  at,            \* the main thread: step of begin(), or of the web server
  pending,       \* pendingVerification_
  ready,         \* the checks of this boot that succeeded
  updating,      \* the Update library has an upload open
  uploadOkay,    \* otaUploadOkay_
  inProgress,    \* uploadInProgress_
  rebootDue,     \* rebootAtMs_ is set
  proven,        \* history: slots whose image passed every check in one boot
  uploads,       \* uploads so far
  otaFaults,     \* failures of esp_ota_... calls so far
  missed,        \* history: one of this boot met an image on probation
  exposed        \* history: and an upload was written in such a boot

imageVars == <<image, selected, running>>
webVars == <<updating, uploadOkay, inProgress, rebootDue, uploads>>
faultVars == <<otaFaults, missed, exposed>>
otaVars == <<imageVars, at, pending, ready, webVars, proven, faultVars>>

BootSteps == {"off", "identify", "config", "queue", "commands", "time",
              "services", "layout", "validate"}
WebSteps == {"serving", "uploading", "uploaded"}

\* Images the boot loader starts without further ado.
Settled == {"VALID", "UNDEFINED"}
Bootable(s) == image[s].whole /\ image[s].state \in Settled
SetState(s, state) == image' = [image EXCEPT ![s].state = state]
OnProbation(s) == image[s].state = "PENDING_VERIFY"

\* An esp_ota_... call returns an error.
OtaCallFails ==
  /\ otaFaults < MaxOtaFaults
  /\ otaFaults' = otaFaults + 1
  /\ missed' = OnProbation(running)

-----------------------------------------------------------------------------
(* Boot loader (external). *)

\* An image that was still to be verified at a reset is given up; a new one
\* gets its one chance; otherwise the other slot is tried.
BootLoader ==
  /\ at = "off"
  /\ LET aborted == [s \in Slots |-> IF image[s].state = "PENDING_VERIFY"
                                     THEN [image[s] EXCEPT !.state = "ABORTED"]
                                     ELSE image[s]]
         usable(s) == aborted[s].whole /\ aborted[s].state \in Settled \cup {"NEW"}
         chosen == IF usable(selected) THEN selected ELSE Other(selected)
     IN  /\ usable(chosen)
         /\ running' = chosen
         /\ selected' = chosen
         /\ image' = IF aborted[chosen].state = "NEW"
                     THEN [aborted EXCEPT ![chosen].state = "PENDING_VERIFY"]
                     ELSE aborted
  /\ at' = "identify"
  /\ pending' = FALSE
  /\ ready' = {}
  /\ updating' = FALSE /\ uploadOkay' = FALSE
  /\ inProgress' = FALSE /\ rebootDue' = FALSE
  /\ missed' = FALSE
  /\ UNCHANGED <<proven, uploads, otaFaults, exposed>>

PowerFails ==
  /\ at # "off"
  /\ at' = "off"
  /\ UNCHANGED <<imageVars, pending, ready, webVars, proven, faultVars>>

-----------------------------------------------------------------------------
(* GatewayApp::begin(). *)

\* OtaManager::begin().  Without the running partition or its state the image
\* passes for one that is not pending.
OtaBegin ==
  /\ at = "identify"
  /\ \/ pending' = OnProbation(running) /\ UNCHANGED <<otaFaults, missed>>
     \/ pending' = FALSE /\ OtaCallFails
  /\ at' = "config"
  /\ UNCHANGED <<imageVars, ready, webVars, proven, exposed>>

\* Mutant: the result is put down to the next check.
CheckNext(step, next) ==
  /\ at = step
  /\ \/ ready' = ready \cup {next}
     \/ UNCHANGED ready
  /\ at' = next
  /\ UNCHANGED <<imageVars, pending, webVars, proven, faultVars>>
\* One begin() after the other; a failure is remembered and start-up goes on.
Check(step, next) ==
  /\ at = step
  /\ \/ ready' = ready \cup {step}
     \/ UNCHANGED ready
  /\ at' = next
  /\ UNCHANGED <<imageVars, pending, webVars, proven, faultVars>>
BeginConfig == Check("config", "queue")
BeginQueue == Check("queue", "commands")
BeginCommands == Check("commands", "time")
BeginTime == Check("time", "services")

\* Radio, Wi-Fi, backend and dashboard: their results are only logged.
BeginServices ==
  /\ at = "services"
  /\ at' = "layout"
  /\ UNCHANGED <<imageVars, pending, ready, webVars, proven, faultVars>>

-----------------------------------------------------------------------------
(* OtaManager::completeBootValidation(). *)

\* partitionLayoutSane(); the checks of this boot are complete.
CheckLayout ==
  /\ at = "layout"
  /\ \/ ready' = ready \cup {"layout"}
     \/ UNCHANGED ready
  /\ at' = "validate"
  /\ proven' = IF ready' = Checks THEN proven \cup {running} ELSE proven
  /\ UNCHANGED <<imageVars, pending, webVars, faultVars>>

\* Mutant: the command store is not asked.
SaneButCommands == Checks \ {"commands"} \subseteq ready
Sane == ready = Checks

\* Not pending: the result is only shown.
NothingPending ==
  /\ at = "validate"
  /\ ~pending
  /\ at' = "serving"
  /\ UNCHANGED <<imageVars, pending, ready, webVars, proven, faultVars>>

\* Mutant: the failed image goes on running.
KeepRunning ==
  /\ at = "validate"
  /\ pending /\ ~Sane
  /\ at' = "serving"
  /\ UNCHANGED <<imageVars, pending, ready, webVars, proven, faultVars>>
\* esp_ota_mark_app_invalid_rollback_and_reboot().  It returns if there is no
\* image to go back to, or on an error, before or after the OTA data is
\* written; the image then goes on running.
RollBack ==
  /\ at = "validate"
  /\ pending /\ ~Sane
  /\ LET GoBack == /\ Bootable(Other(running))
                   /\ SetState(running, "INVALID")
                   /\ selected' = Other(running)
     IN  \/ GoBack /\ at' = "off" /\ UNCHANGED <<otaFaults, missed>>
         \/ /\ ~Bootable(Other(running))
            /\ at' = "serving"
            /\ UNCHANGED <<image, selected, otaFaults, missed>>
         \/ /\ OtaCallFails
            /\ at' = "serving"
            /\ GoBack \/ UNCHANGED <<image, selected>>
  /\ UNCHANGED <<running, pending, ready, webVars, proven, exposed>>

\* esp_ota_mark_app_valid_cancel_rollback(); a failing call may have written
\* the OTA data all the same.
MarkValid ==
  /\ at = "validate"
  /\ pending /\ Sane
  /\ \/ /\ SetState(running, "VALID")
        /\ pending' = FALSE
        /\ UNCHANGED <<otaFaults, missed>>
     \/ /\ OtaCallFails
        /\ SetState(running, "VALID") \/ UNCHANGED image
        /\ UNCHANGED pending
  /\ at' = "serving"
  /\ UNCHANGED <<selected, running, ready, webVars, proven, exposed>>

-----------------------------------------------------------------------------
(* Dashboard: handleOtaUpload(), handleOtaComplete(), reboot.  The web      *)
(* server works one request to its end before loop() looks at rebootAtMs_.  *)

\* UPLOAD_FILE_START; Update.begin() may fail.
UploadStart ==
  /\ at = "serving"
  /\ uploads < MaxUploads
  /\ uploads' = uploads + 1
  /\ uploadOkay' = FALSE
  /\ inProgress' = TRUE
  /\ updating' \in BOOLEAN
  /\ at' = "uploading"
  /\ UNCHANGED <<imageVars, pending, ready, rebootDue, proven, faultVars>>

\* Mutant: the slot that runs is written.
UploadWriteRunning ==
  /\ at = "uploading"
  /\ updating
  /\ updating' \in BOOLEAN
  /\ image' = [image EXCEPT ![running].whole = FALSE]
  /\ proven' = proven \ {running}
  /\ exposed' = (exposed \/ missed)
  /\ UNCHANGED <<selected, running, at, pending, ready, uploadOkay, inProgress,
                 rebootDue, uploads, otaFaults, missed>>
\* UPLOAD_FILE_WRITE: the inactive slot is overwritten; a failed write ends
\* the update, and the rest of the upload is ignored.
UploadWrite ==
  /\ at = "uploading"
  /\ updating
  /\ updating' \in BOOLEAN
  /\ image' = [image EXCEPT ![Other(running)].whole = FALSE]
  /\ proven' = proven \ {Other(running)}
  /\ exposed' = (exposed \/ missed)
  /\ UNCHANGED <<selected, running, at, pending, ready, uploadOkay, inProgress,
                 rebootDue, uploads, otaFaults, missed>>

\* UPLOAD_FILE_END: Update.end() verifies the image and selects its slot.
UploadEnd ==
  /\ at = "uploading"
  /\ \/ /\ updating
        /\ ~image[Other(running)].whole    \* something was written
        /\ image' = [image EXCEPT ![Other(running)] =
                       [whole |-> TRUE, state |-> "NEW"]]
        /\ proven' = proven \ {Other(running)}
        /\ selected' = Other(running)
        /\ uploadOkay' = TRUE
     \/ /\ uploadOkay' = FALSE
        /\ UNCHANGED <<image, selected, proven>>
  /\ updating' = FALSE
  /\ inProgress' = FALSE
  /\ at' = "uploaded"
  /\ UNCHANGED <<running, pending, ready, rebootDue, uploads, faultVars>>

\* UPLOAD_FILE_ABORTED: the completion handler does not run.
UploadAborted ==
  /\ at = "uploading"
  /\ updating' = FALSE
  /\ inProgress' = FALSE
  /\ at' = "serving"
  /\ UNCHANGED <<imageVars, pending, ready, uploadOkay, rebootDue, uploads,
                 proven, faultVars>>

\* Also reached by a request that carries no file.
OtaComplete ==
  /\ at \in {"serving", "uploaded"}
  /\ inProgress' = FALSE
  /\ rebootDue' = (rebootDue \/ uploadOkay)
  /\ at' = "serving"
  /\ UNCHANGED <<imageVars, pending, ready, updating, uploadOkay, uploads,
                 proven, faultVars>>

\* /api/reboot
RequestReboot ==
  /\ at = "serving"
  /\ rebootDue' = TRUE
  /\ UNCHANGED <<imageVars, at, pending, ready, updating, uploadOkay,
                 inProgress, uploads, proven, faultVars>>

\* Dashboard::loop(), once the time has come
Reboot ==
  /\ at = "serving"
  /\ rebootDue
  /\ at' = "off"
  /\ UNCHANGED <<imageVars, pending, ready, webVars, proven, faultVars>>

-----------------------------------------------------------------------------
\* A Gateway flashed over USB: no OTA data yet, and nothing in slot 1.
OtaInit ==
  /\ image = [s \in Slots |-> [whole |-> s = 0, state |-> "UNDEFINED"]]
  /\ selected = 0 /\ running = 0
  /\ at = "off"
  /\ pending = FALSE
  /\ ready = {}
  /\ updating = FALSE /\ uploadOkay = FALSE
  /\ inProgress = FALSE /\ rebootDue = FALSE
  /\ proven = {}
  /\ uploads = 0
  /\ otaFaults = 0 /\ missed = FALSE /\ exposed = FALSE

BootStep ==
  \/ BootLoader \/ OtaBegin
  \/ BeginConfig \/ BeginQueue \/ BeginCommands \/ BeginTime \/ BeginServices
  \/ CheckLayout
  \/ NothingPending \/ RollBack \/ MarkValid

WebStep ==
  \/ UploadStart \/ UploadWrite \/ UploadEnd \/ UploadAborted \/ OtaComplete
  \/ RequestReboot \/ Reboot

OtaNext == BootStep \/ WebStep \/ PowerFails

\* The main thread runs, and a reboot that is due comes; the power may fail
\* for ever, and so may uploads.
OtaSpec ==
  /\ OtaInit /\ [][OtaNext]_otaVars
  /\ WF_otaVars(BootStep)
  /\ WF_otaVars(Reboot)

-----------------------------------------------------------------------------
\* The variables have the types of what they hold.
OtaTypeOK ==
  /\ image \in [Slots -> [whole : BOOLEAN, state : ImageStates]]
  /\ selected \in Slots /\ running \in Slots
  /\ at \in BootSteps \cup WebSteps
  /\ pending \in BOOLEAN
  /\ ready \subseteq Checks
  /\ updating \in BOOLEAN /\ uploadOkay \in BOOLEAN
  /\ inProgress \in BOOLEAN /\ rebootDue \in BOOLEAN
  /\ proven \subseteq Slots
  /\ uploads \in 0 .. MaxUploads
  /\ otaFaults \in 0 .. MaxOtaFaults
  /\ missed \in BOOLEAN /\ exposed \in BOOLEAN

(***************************************************************************)
(* ValidMeansProven.  An uploaded image is VALID only if that very image   *)
(* once passed every check of docs/ota.md within one boot: not one that    *)
(* was uploaded over it later, and not by checks of different boots.       *)
(***************************************************************************)
ValidMeansProven ==
  \A s \in Slots : image[s].whole /\ image[s].state = "VALID" => s \in proven

(***************************************************************************)
(* FallbackKept.  One slot holds a whole image that needs no              *)
(* verification: whichever image was uploaded, half uploaded over another  *)
(* one or rolled back, and whenever the power failed, the Gateway starts   *)
(* again.  It takes an image on probation whose state could not be read,   *)
(* set or rolled back, and an upload written in that same boot, to lose    *)
(* the fallback.                                                           *)
(***************************************************************************)
FallbackKept == exposed \/ \E s \in Slots : Bootable(s)

(***************************************************************************)
(* Their inductive strengthening.  StartedInv: the boot loader starts only *)
(* whole images, and pending_ tells the one on probation from the others,  *)
(* unless its state could not be read.  ServingInv: only an image that     *)
(* needs no verification takes uploads, which overwrite the other slot,    *)
(* unless a call about it has failed.                                      *)
(***************************************************************************)
StartedInv ==
  /\ at \in BootSteps \ {"off"} =>
       /\ image[running].whole
       /\ image[running].state \in Settled \cup {"PENDING_VERIFY"}
  /\ at \in BootSteps \ {"off", "identify"} =>
       /\ pending => OnProbation(running)
       /\ OnProbation(running) => pending \/ missed
  /\ at = "validate" /\ Sane => running \in proven
ServingInv ==
  at \in WebSteps => missed \/ exposed \/ Bootable(running)
OtaInv ==
  /\ OtaTypeOK /\ StartedInv /\ ServingInv
  /\ ValidMeansProven /\ FallbackKept

(***************************************************************************)
(* PendingDecided.  A new image does not stay in probation: it becomes     *)
(* VALID or the Gateway goes back to the other one, unless the call that   *)
(* reads or decides it fails in this boot, or an upload of such a boot has *)
(* overwritten the image to go back to.                                    *)
(***************************************************************************)
PendingDecided ==
  OnProbation(running) ~> (~OnProbation(running) \/ missed \/ exposed)
=============================================================================
