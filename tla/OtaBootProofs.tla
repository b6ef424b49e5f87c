--------------------------- MODULE OtaBootProofs ---------------------------
(***************************************************************************)
(* Proofs about OtaBoot: firmware update and start-up with the power       *)
(* failing at any step, for any number of uploads and any number of        *)
(* failing calls on the OTA data.                                          *)
(***************************************************************************)
EXTENDS OtaBoot, TLAPS

Image == [whole : BOOLEAN, state : ImageStates]

\* The two slots.
LEMMA SlotFacts ==
  \A s \in Slots : /\ Other(s) \in Slots /\ Other(s) # s
                   /\ \A r \in Slots : r = s \/ r = Other(s)
  BY DEF Slots, Other

\* Changing the state of an image leaves its content and the other slot alone.
LEMMA SetStateEffect ==
  ASSUME image \in [Slots -> Image], NEW s \in Slots, NEW st \in ImageStates,
         SetState(s, st)
  PROVE  /\ image' \in [Slots -> Image]
         /\ image'[s].state = st /\ image'[s].whole = image[s].whole
         /\ \A r \in Slots : r # s => image'[r] = image[r]
  BY DEF SetState, Image

\* A step that leaves the images and the slots alone.
LEMMA ImagesKept ==
  ASSUME OtaInv, OtaTypeOK', UNCHANGED <<image, running, missed, exposed>>,
         proven \subseteq proven',
         at' \in BootSteps \ {"off"} => at \in BootSteps \ {"off"},
         at' \in BootSteps \ {"off", "identify"} =>
           /\ at \in BootSteps \ {"off", "identify"}
           /\ pending' = pending,
         at' = "validate" /\ Sane' => running \in proven',
         at' \in WebSteps => missed \/ exposed \/ Bootable(running)
  PROVE  OtaInv'
<1>1. StartedInv'
  BY DEF OtaInv, StartedInv, OnProbation
<1>2. ServingInv' /\ FallbackKept'
  BY DEF OtaInv, ServingInv, FallbackKept, Bootable
<1>3. ValidMeansProven'
  BY DEF OtaInv, ValidMeansProven
<1> QED
  BY <1>1, <1>2, <1>3 DEF OtaInv

\* The Gateway as flashed over USB.
LEMMA OtaInvInit == OtaInit => OtaInv
<1> SUFFICES ASSUME OtaInit PROVE OtaInv
  OBVIOUS
<1>0. 0 \in 0 .. MaxUploads /\ 0 \in 0 .. MaxOtaFaults
  BY OtaAssumption
<1>a. image \in [Slots -> Image]
  <2>1. \A s \in Slots : [whole |-> s = 0, state |-> "UNDEFINED"] \in Image
    BY Zenon DEF Image, ImageStates
  <2> QED
    BY <2>1, Zenon DEF OtaInit
<1>b. uploads \in 0 .. MaxUploads /\ otaFaults \in 0 .. MaxOtaFaults
  BY <1>0, Zenon DEF OtaInit
<1>c. /\ selected \in Slots /\ running \in Slots /\ at \in BootSteps \cup WebSteps
      /\ ready \subseteq Checks /\ proven \subseteq Slots
  BY DEF OtaInit, Slots, BootSteps
<1>d. /\ pending \in BOOLEAN /\ updating \in BOOLEAN /\ uploadOkay \in BOOLEAN
      /\ inProgress \in BOOLEAN /\ rebootDue \in BOOLEAN
      /\ missed \in BOOLEAN /\ exposed \in BOOLEAN
  BY DEF OtaInit
<1>1. OtaTypeOK
  BY <1>a, <1>b, <1>c, <1>d, Zenon DEF OtaTypeOK, Image
<1>2. StartedInv /\ ServingInv
  BY DEF OtaInit, StartedInv, ServingInv, WebSteps
<1>3. ValidMeansProven
  BY DEF OtaInit, ValidMeansProven
<1>4. Bootable(0) /\ 0 \in Slots
  BY DEF OtaInit, Bootable, Settled, Slots
<1>5. FallbackKept
  BY <1>4 DEF FallbackKept
<1> QED
  BY <1>1, <1>2, <1>3, <1>5 DEF OtaInv

\* The boot loader starts a whole image and makes no image valid; the image
\* that needs no verification stays as it is.
LEMMA BootLoaderInv ==
  ASSUME OtaInv, BootLoader
  PROVE  OtaInv'
<1> DEFINE aborted == [s \in Slots |-> IF image[s].state = "PENDING_VERIFY"
                                       THEN [image[s] EXCEPT !.state = "ABORTED"]
                                       ELSE image[s]]
           usable(s) == aborted[s].whole /\ aborted[s].state \in Settled \cup {"NEW"}
           chosen == IF usable(selected) THEN selected ELSE Other(selected)
<1>0. /\ image \in [Slots -> Image] /\ selected \in Slots /\ at = "off"
      /\ {"ABORTED", "PENDING_VERIFY"} \subseteq ImageStates
  BY DEF OtaInv, OtaTypeOK, Image, BootLoader, ImageStates
<1>1. /\ usable(chosen) /\ running' = chosen /\ selected' = chosen
      /\ image' = IF aborted[chosen].state = "NEW"
                  THEN [aborted EXCEPT ![chosen].state = "PENDING_VERIFY"]
                  ELSE aborted
      /\ at' = "identify" /\ pending' = FALSE /\ ready' = {}
      /\ updating' = FALSE /\ uploadOkay' = FALSE
      /\ inProgress' = FALSE /\ rebootDue' = FALSE /\ missed' = FALSE
      /\ UNCHANGED <<proven, uploads, otaFaults, exposed>>
  BY DEF BootLoader
<1>2. /\ aborted \in [Slots -> Image]
      /\ \A s \in Slots :
           /\ aborted[s].whole = image[s].whole
           /\ aborted[s].state = image[s].state \/ aborted[s].state = "ABORTED"
           /\ image[s].state # "PENDING_VERIFY" => aborted[s] = image[s]
  BY <1>0 DEF Image
<1>3. chosen \in Slots
  BY <1>0, SlotFacts
<1> HIDE DEF aborted, chosen
<1>4. /\ image' \in [Slots -> Image]
      /\ \A s \in Slots :
           /\ image'[s].whole = aborted[s].whole
           /\ s # chosen => image'[s] = aborted[s]
      /\ image'[chosen].state \in Settled \cup {"PENDING_VERIFY"}
      /\ aborted[chosen].state # "NEW" => image'[chosen] = aborted[chosen]
      /\ aborted[chosen].state = "NEW" => image'[chosen].state = "PENDING_VERIFY"
  <2>1. CASE aborted[chosen].state = "NEW"
    BY <1>0, <1>1, <1>2, <1>3, <2>1 DEF Image
  <2>2. CASE aborted[chosen].state # "NEW"
    BY <1>1, <1>2, <1>3, <2>2
  <2> QED
    BY <2>1, <2>2
<1>5. OtaTypeOK'
  BY <1>1, <1>3, <1>4 DEF OtaInv, OtaTypeOK, Image, BootSteps
<1>6. StartedInv'
  BY <1>1, <1>3, <1>4 DEF StartedInv, Sane, Settled
<1>7. ServingInv'
  BY <1>1 DEF ServingInv, WebSteps
<1>8. ASSUME NEW s \in Slots, image'[s].whole, image'[s].state = "VALID"
      PROVE  s \in proven'
  <2>1. image[s].whole /\ image[s].state = "VALID"
    BY <1>2, <1>3, <1>4, <1>8
  <2> QED
    BY <1>1, <2>1 DEF OtaInv, ValidMeansProven
<1>9. ASSUME NEW s \in Slots, Bootable(s) PROVE Bootable(s)'
  <2>1. image[s].state # "PENDING_VERIFY" /\ image[s].state # "NEW"
    BY <1>9 DEF Bootable, Settled
  <2>2. image'[s] = image[s]
    BY <1>2, <1>3, <1>4, <2>1
  <2> QED
    BY <1>9, <2>2 DEF Bootable
<1>10. FallbackKept'
  BY <1>1, <1>9 DEF OtaInv, FallbackKept
<1> QED
  BY <1>5, <1>6, <1>7, <1>8, <1>10 DEF OtaInv, ValidMeansProven

\* The power fails: the images stay as they are.
LEMMA PowerFailsInv ==
  ASSUME OtaInv, PowerFails
  PROVE  OtaInv'
<1>1. OtaTypeOK'
  BY DEF OtaInv, OtaTypeOK, PowerFails, imageVars, webVars, faultVars, BootSteps
<1> QED
  BY <1>1, ImagesKept DEF PowerFails, imageVars, faultVars, WebSteps

\* A failing call on the OTA data is counted and remembered.
LEMMA OtaCallFailsEffect ==
  ASSUME OtaTypeOK, OtaCallFails
  PROVE  otaFaults' \in 0 .. MaxOtaFaults /\ missed' \in BOOLEAN
<1>1. otaFaults' \in 0 .. MaxOtaFaults
  BY OtaAssumption DEF OtaTypeOK, OtaCallFails
<1>2. missed' \in BOOLEAN
  BY DEF OtaCallFails, OnProbation
<1> QED
  BY <1>1, <1>2

\* OtaManager::begin() finds out whether this image is on probation.
LEMMA OtaBeginInv ==
  ASSUME OtaInv, OtaBegin
  PROVE  OtaInv'
<1>1. /\ at = "identify" /\ at' = "config"
      /\ UNCHANGED <<image, selected, running, ready, webVars, proven, exposed>>
  BY DEF OtaBegin, imageVars
<1>2. CASE pending' = OnProbation(running) /\ UNCHANGED <<otaFaults, missed>>
  <2>1. OtaTypeOK'
    BY <1>1, <1>2 DEF OtaInv, OtaTypeOK, OnProbation, webVars, BootSteps
  <2>2. StartedInv'
    BY <1>1, <1>2 DEF OtaInv, StartedInv, OnProbation, BootSteps
  <2> QED
    BY <1>1, <1>2, <2>1, <2>2
       DEF OtaInv, ServingInv, ValidMeansProven, FallbackKept, Bootable, WebSteps
<1>3. CASE pending' = FALSE /\ OtaCallFails
  <2>1. OtaTypeOK'
    BY <1>1, <1>3, OtaCallFailsEffect DEF OtaInv, OtaTypeOK, webVars, BootSteps
  <2>2. StartedInv'
    BY <1>1, <1>3 DEF OtaInv, StartedInv, OnProbation, OtaCallFails, BootSteps
  <2> QED
    BY <1>1, <2>1, <2>2
       DEF OtaInv, ServingInv, ValidMeansProven, FallbackKept, Bootable, WebSteps
<1> QED
  BY <1>2, <1>3 DEF OtaBegin

\* The begin() of the stores and services, up to the layout check.
LEMMA ChecksInv ==
  ASSUME OtaInv,
         BeginConfig \/ BeginQueue \/ BeginCommands \/ BeginTime \/ BeginServices
  PROVE  OtaInv'
<1>1. /\ at \in {"config", "queue", "commands", "time", "services"}
      /\ at' \in {"queue", "commands", "time", "services", "layout"}
      /\ ready' \subseteq ready \cup Checks
      /\ UNCHANGED <<image, selected, running, pending, webVars, proven, faultVars>>
  BY DEF BeginConfig, BeginQueue, BeginCommands, BeginTime, BeginServices, Check,
         Checks, imageVars
<1>2. OtaTypeOK'
  BY <1>1 DEF OtaInv, OtaTypeOK, webVars, faultVars, BootSteps
<1> QED
  BY <1>1, <1>2, ImagesKept DEF faultVars, BootSteps, WebSteps

\* The last check: the image is proven iff all of them succeeded.
LEMMA CheckLayoutInv ==
  ASSUME OtaInv, CheckLayout
  PROVE  OtaInv'
<1>1. /\ at = "layout" /\ at' = "validate"
      /\ ready' \subseteq ready \cup Checks
      /\ proven' = IF ready' = Checks THEN proven \cup {running} ELSE proven
      /\ UNCHANGED <<image, selected, running, pending, webVars, faultVars>>
  BY DEF CheckLayout, imageVars, Checks
<1>2. OtaTypeOK'
  BY <1>1 DEF OtaInv, OtaTypeOK, webVars, faultVars, BootSteps
<1>3. Sane' => running \in proven'
  BY <1>1 DEF Sane
<1> QED
  BY <1>1, <1>2, <1>3, ImagesKept DEF faultVars, BootSteps, WebSteps

\* An image that is not on probation goes to work.
LEMMA NothingPendingInv ==
  ASSUME OtaInv, NothingPending
  PROVE  OtaInv'
<1>1. /\ at = "validate" /\ ~pending /\ at' = "serving"
      /\ UNCHANGED <<image, selected, running, pending, ready, webVars, proven,
                     faultVars>>
  BY DEF NothingPending, imageVars
<1>2. OtaTypeOK'
  BY <1>1 DEF OtaInv, OtaTypeOK, webVars, faultVars, WebSteps
<1>3. missed \/ Bootable(running)
  BY <1>1 DEF OtaInv, StartedInv, OnProbation, Bootable, BootSteps
<1> QED
  BY <1>1, <1>2, <1>3, ImagesKept DEF faultVars, BootSteps

\* One that failed is given up for the other, or goes on running; unless the
\* fallback was overwritten before, an error has then been remembered.
LEMMA RollBackInv ==
  ASSUME OtaInv, RollBack
  PROVE  OtaInv'
<1>0. /\ at = "validate" /\ pending /\ running \in Slots /\ Other(running) \in Slots
      /\ Other(running) # running /\ image \in [Slots -> Image]
      /\ OnProbation(running) /\ OtaTypeOK
      /\ UNCHANGED <<running, pending, ready, webVars, proven, exposed>>
  BY SlotFacts DEF RollBack, OtaInv, OtaTypeOK, StartedInv, BootSteps, Image
<1>1. ASSUME /\ Bootable(Other(running))
             /\ SetState(running, "INVALID") /\ selected' = Other(running)
             /\ \/ at' = "off" /\ UNCHANGED <<otaFaults, missed>>
                \/ at' = "serving" /\ OtaCallFails
      PROVE  OtaInv'
  <2>1. /\ image' \in [Slots -> Image]
        /\ image'[running].state = "INVALID"
        /\ \A r \in Slots : r # running => image'[r] = image[r]
    BY <1>0, <1>1, SetStateEffect DEF ImageStates
  <2>2. otaFaults' \in 0 .. MaxOtaFaults /\ missed' \in BOOLEAN
    BY <1>0, <1>1, OtaCallFailsEffect DEF OtaTypeOK
  <2>3. OtaTypeOK'
    BY <1>0, <1>1, <2>1, <2>2 DEF OtaTypeOK, Image, webVars, BootSteps, WebSteps
  <2>4. StartedInv' /\ ServingInv'
    BY <1>0, <1>1 DEF StartedInv, ServingInv, BootSteps, WebSteps, OtaCallFails
  <2>5. ValidMeansProven'
    BY <1>0, <2>1 DEF OtaInv, ValidMeansProven
  <2>6. Bootable(Other(running))'
    BY <1>0, <1>1, <2>1 DEF Bootable, Other
  <2>7. FallbackKept'
    BY <1>0, <2>6 DEF FallbackKept, Other
  <2> QED
    BY <2>3, <2>4, <2>5, <2>7 DEF OtaInv
<1>2. ASSUME at' = "serving", UNCHANGED <<image, selected>>,
             \/ ~Bootable(Other(running)) /\ UNCHANGED <<otaFaults, missed>>
             \/ OtaCallFails
      PROVE  OtaInv'
  <2>1. otaFaults' \in 0 .. MaxOtaFaults /\ missed' \in BOOLEAN
    BY <1>0, <1>2, OtaCallFailsEffect DEF OtaTypeOK
  <2>2. OtaTypeOK'
    BY <1>0, <1>2, <2>1 DEF OtaTypeOK, webVars, WebSteps
  <2>3. ~Bootable(running)
    BY <1>0 DEF OnProbation, Bootable, Settled
  <2>4. missed' \/ exposed
    BY <1>0, <1>2, <2>3, SlotFacts DEF OtaInv, FallbackKept, OtaCallFails
  <2>5. StartedInv' /\ ServingInv'
    BY <1>0, <1>2, <2>4 DEF StartedInv, ServingInv, BootSteps
  <2>6. ValidMeansProven' /\ FallbackKept'
    BY <1>0, <1>2 DEF OtaInv, ValidMeansProven, FallbackKept, Bootable
  <2> QED
    BY <2>2, <2>5, <2>6 DEF OtaInv
<1> QED
  BY <1>1, <1>2 DEF RollBack

\* Only an image that has just passed every check is marked valid.
LEMMA MarkValidInv ==
  ASSUME OtaInv, MarkValid
  PROVE  OtaInv'
<1>0. /\ at = "validate" /\ Sane /\ running \in Slots /\ image \in [Slots -> Image]
      /\ image[running].whole /\ running \in proven /\ OtaTypeOK
      /\ OnProbation(running) /\ at' = "serving"
      /\ UNCHANGED <<selected, running, ready, webVars, proven, exposed>>
  BY DEF MarkValid, OtaInv, OtaTypeOK, StartedInv, BootSteps, Image
<1>1. /\ otaFaults' \in 0 .. MaxOtaFaults /\ missed' \in BOOLEAN
      /\ pending' \in BOOLEAN
  BY <1>0, OtaCallFailsEffect DEF MarkValid, OtaTypeOK
<1>2. CASE SetState(running, "VALID")
  <2>1. /\ image' \in [Slots -> Image]
        /\ image'[running].state = "VALID" /\ image'[running].whole
        /\ \A r \in Slots : r # running => image'[r] = image[r]
    BY <1>0, <1>2, SetStateEffect DEF ImageStates
  <2>2. OtaTypeOK'
    BY <1>0, <1>1, <2>1 DEF OtaTypeOK, Image, webVars, WebSteps
  <2>3. Bootable(running)'
    BY <1>0, <2>1 DEF Bootable, Settled
  <2>4. StartedInv' /\ ServingInv' /\ FallbackKept'
    BY <1>0, <2>3 DEF StartedInv, ServingInv, FallbackKept, BootSteps
  <2>5. ValidMeansProven'
    BY <1>0, <2>1 DEF OtaInv, ValidMeansProven
  <2> QED
    BY <2>2, <2>4, <2>5 DEF OtaInv
<1>3. CASE OtaCallFails /\ UNCHANGED image
  <2>1. OtaTypeOK'
    BY <1>0, <1>1, <1>3 DEF OtaTypeOK, webVars, WebSteps
  <2>2. StartedInv' /\ ServingInv'
    BY <1>0, <1>3 DEF StartedInv, ServingInv, OtaCallFails, BootSteps
  <2>3. ValidMeansProven' /\ FallbackKept'
    BY <1>0, <1>3 DEF OtaInv, ValidMeansProven, FallbackKept, Bootable
  <2> QED
    BY <2>1, <2>2, <2>3 DEF OtaInv
<1> QED
  BY <1>2, <1>3 DEF MarkValid

\* The web requests that write no image.
LEMMA RequestsInv ==
  ASSUME OtaInv,
         UploadStart \/ UploadAborted \/ OtaComplete \/ RequestReboot \/ Reboot
  PROVE  OtaInv'
<1>1. /\ at \in WebSteps /\ at' \in WebSteps \cup {"off"}
      /\ UNCHANGED <<image, selected, running, pending, ready, proven, faultVars>>
  BY DEF UploadStart, UploadAborted, OtaComplete, RequestReboot, Reboot, imageVars,
         WebSteps
<1>0. /\ updating \in BOOLEAN /\ uploadOkay \in BOOLEAN
      /\ inProgress \in BOOLEAN /\ rebootDue \in BOOLEAN
      /\ uploads \in 0 .. MaxUploads
  BY DEF OtaInv, OtaTypeOK
<1>2. updating' \in BOOLEAN /\ uploadOkay' \in BOOLEAN
  BY <1>0, Zenon
     DEF UploadStart, UploadAborted, OtaComplete, RequestReboot, Reboot, webVars
<1>a. inProgress' \in BOOLEAN /\ rebootDue' \in BOOLEAN
  BY <1>0, Zenon
     DEF UploadStart, UploadAborted, OtaComplete, RequestReboot, Reboot, webVars
<1>b. uploads' \in 0 .. MaxUploads
  <2>1. CASE UploadStart
    BY <1>0, <2>1, OtaAssumption DEF UploadStart
  <2>2. CASE UploadAborted \/ OtaComplete \/ RequestReboot \/ Reboot
    BY <1>0, <2>2 DEF UploadAborted, OtaComplete, RequestReboot, Reboot, webVars
  <2> QED
    BY <2>1, <2>2
<1>3. OtaTypeOK'
  BY <1>1, <1>2, <1>a, <1>b DEF OtaInv, OtaTypeOK, faultVars, BootSteps, WebSteps
<1>4. missed \/ exposed \/ Bootable(running)
  BY <1>1 DEF OtaInv, ServingInv
<1> QED
  BY <1>1, <1>3, <1>4, ImagesKept DEF faultVars, BootSteps, WebSteps

\* An upload writes the slot that does not run.
LEMMA UploadWriteInv ==
  ASSUME OtaInv, UploadWrite \/ UploadEnd
  PROVE  OtaInv'
<1> DEFINE o == Other(running)
<1>0. /\ running \in Slots /\ o \in Slots /\ o # running /\ image \in [Slots -> Image]
      /\ at \in WebSteps /\ at' \in WebSteps
      /\ UNCHANGED <<running, pending, ready, rebootDue, uploads, otaFaults, missed>>
  BY SlotFacts
     DEF OtaInv, OtaTypeOK, Image, UploadWrite, UploadEnd, faultVars, WebSteps
<1>1. /\ image' \in [Slots -> Image] /\ selected' \in Slots
      /\ image'[running] = image[running]
      /\ \/ proven' = proven \ {o} /\ ~(image'[o].whole /\ image'[o].state = "VALID")
         \/ image' = image /\ proven' = proven
  <2>1. CASE UploadWrite
    BY <1>0, <2>1 DEF UploadWrite, Image, OtaInv, OtaTypeOK
  <2>2. CASE UploadEnd /\ UNCHANGED <<image, selected, proven>>
    BY <1>0, <2>2 DEF OtaInv, OtaTypeOK
  <2>3. CASE UploadEnd /\ ~UNCHANGED <<image, selected, proven>>
    <3>1. /\ image' = [image EXCEPT ![o] = [whole |-> TRUE, state |-> "NEW"]]
          /\ proven' = proven \ {o} /\ selected' = o
      BY <2>3 DEF UploadEnd
    <3>2. [whole |-> TRUE, state |-> "NEW"] \in Image
      BY DEF Image, ImageStates
    <3> QED
      BY <1>0, <3>1, <3>2
  <2> QED
    BY <2>1, <2>2, <2>3
<1>2. /\ updating' \in BOOLEAN /\ uploadOkay' \in BOOLEAN /\ inProgress' \in BOOLEAN
      /\ exposed' \in BOOLEAN
  BY DEF UploadWrite, UploadEnd, OtaInv, OtaTypeOK, faultVars
<1>a. /\ exposed => exposed'
      /\ UploadWrite => exposed' = (exposed \/ missed)
      /\ UploadEnd => \A s \in Slots : Bootable(s) => Bootable(s)'
  <2>1. CASE UploadWrite
    BY <2>1 DEF UploadWrite, UploadEnd
  <2>2. CASE UploadEnd
    <3>1. \A s \in Slots : Bootable(s) => Bootable(s)'
      BY <1>0, <2>2 DEF UploadEnd, Bootable, Image
    <3> QED
      BY <2>2, <3>1 DEF UploadEnd, UploadWrite, faultVars, WebSteps
  <2> QED
    BY <2>1, <2>2
<1>3. OtaTypeOK'
  BY <1>0, <1>1, <1>2 DEF OtaInv, OtaTypeOK, Image
<1>4. missed \/ exposed \/ Bootable(running)'
  BY <1>0, <1>1 DEF OtaInv, ServingInv, Bootable
<1>b. FallbackKept'
  <2>1. CASE UploadWrite
    BY <1>0, <1>a, <1>4, <2>1 DEF FallbackKept
  <2>2. CASE UploadEnd
    BY <1>a, <2>2 DEF OtaInv, FallbackKept
  <2> QED
    BY <2>1, <2>2
<1>5. StartedInv' /\ ServingInv' /\ FallbackKept'
  BY <1>0, <1>a, <1>b, <1>4 DEF StartedInv, ServingInv, BootSteps, WebSteps
<1>6. ASSUME NEW s \in Slots, image'[s].whole, image'[s].state = "VALID"
      PROVE  s \in proven'
  <2>1. s = running \/ s = o
    BY <1>0, SlotFacts
  <2>2. CASE image' = image /\ proven' = proven
    BY <1>6, <2>2 DEF OtaInv, ValidMeansProven
  <2>3. CASE proven' = proven \ {o} /\ ~(image'[o].whole /\ image'[o].state = "VALID")
    <3>1. s = running
      BY <1>6, <2>1, <2>3
    <3>2. s \in proven
      BY <1>0, <1>1, <1>6, <3>1 DEF OtaInv, ValidMeansProven
    <3> QED
      BY <1>0, <2>3, <3>1, <3>2
  <2> QED
    BY <1>1, <2>2, <2>3
<1> QED
  BY <1>3, <1>5, <1>6 DEF OtaInv, ValidMeansProven

\* The invariant is inductive.
LEMMA OtaInvStep ==
  ASSUME OtaInv, [OtaNext]_otaVars
  PROVE  OtaInv'
<1>1. CASE UNCHANGED otaVars
  BY <1>1
     DEF otaVars, imageVars, webVars, faultVars, OtaInv, OtaTypeOK, StartedInv,
         ServingInv, ValidMeansProven, FallbackKept, Bootable, OnProbation, Sane
<1> QED
  BY <1>1, BootLoaderInv, PowerFailsInv, OtaBeginInv, ChecksInv, CheckLayoutInv,
     NothingPendingInv, RollBackInv, MarkValidInv, RequestsInv, UploadWriteInv
     DEF OtaNext, BootStep, WebStep

\* The inductive invariant of updates and start-up.
THEOREM OtaInvInvariant == OtaSpec => []OtaInv
<1>1. OtaInit => OtaInv
  BY OtaInvInit
<1>2. OtaInv /\ [OtaNext]_otaVars => OtaInv'
  BY OtaInvStep
<1> QED
  BY <1>1, <1>2, PTL DEF OtaSpec

\* Type correctness of the update and start-up state.
THEOREM OtaTypeCorrect == OtaSpec => []OtaTypeOK
<1>1. OtaInv => OtaTypeOK
  BY DEF OtaInv
<1> QED
  BY <1>1, OtaInvInvariant, PTL

(***************************************************************************)
(* An image is VALID only if that very image passed every check within one *)
(* boot, whatever was uploaded over it, in however many uploads.           *)
(***************************************************************************)
THEOREM ValidAlwaysProven == OtaSpec => []ValidMeansProven
<1>1. OtaInv => ValidMeansProven
  BY DEF OtaInv
<1> QED
  BY <1>1, OtaInvInvariant, PTL

(***************************************************************************)
(* There is always an image the boot loader starts without further ado, at *)
(* every step of every upload, roll-back and power failure, unless an      *)
(* upload was written in a boot in which a call on the OTA data failed for *)
(* an image on probation.                                                  *)
(***************************************************************************)
THEOREM FallbackAlwaysKept == OtaSpec => []FallbackKept
<1>1. OtaInv => FallbackKept
  BY DEF OtaInv
<1> QED
  BY <1>1, OtaInvInvariant, PTL
=============================================================================
