------------------------------ MODULE Pairing ------------------------------
(***************************************************************************)
(* Pairing: the PairingManager in RAM, the paired Node in the stored       *)
(* configuration, the dashboard handlers that change both, and the radio   *)
(* task, for which the pairing decides whose telemetry is captured.        *)
(*                                                                         *)
(* radioMutex_ makes every call of the PairingManager and the processing   *)
(* of a frame one step; between two calls of a handler frames are          *)
(* processed and the power may go.  The dashboard serves one request at a  *)
(* time.                                                                   *)
(***************************************************************************)
EXTENDS ConfigStore

CONSTANT MaxPairingCrashes   \* bound on the power losses

ASSUME CrashAssumption == MaxPairingCrashes \in Nat

VARIABLES
  up,           \* the tasks run
  paired,       \* pairedNodeId_
  pairingMode,  \* pairingMode_
  candidate,    \* candidate_.nodeId, NoNode while not available
  latest,       \* Node of latest_.packet, NoNode while not available
  request,      \* the dashboard's handler, its Node, and the pairing before it
  captured,     \* history: Nodes whose telemetry was queued and ACKed
  lastPairing,  \* history: pairings the last power loss may have left
  pairingCrashes

managerVars == <<paired, pairingMode, candidate>>
pairingVars == <<configVars, up, managerVars, latest, request, captured,
                 lastPairing, pairingCrashes>>

NoRequest == [at |-> "idle", node |-> NoNode, before |-> NoNode]
Begun(at, node) == [at |-> at, node |-> node, before |-> paired]
WithNode(node) == [config EXCEPT !.node = node]
Idle == up /\ request.at = "idle"

-----------------------------------------------------------------------------
(* The PairingManager. *)

\* Mutant: discovery starts while a Node is paired.
StartWhilePaired ==
  /\ pairingMode' = TRUE
  /\ candidate' = NoNode
  /\ UNCHANGED paired
\* start()
StartDiscovery ==
  /\ paired = NoNode
  /\ pairingMode' = TRUE
  /\ candidate' = NoNode
  /\ UNCHANGED paired

\* cancel()
CancelDiscovery ==
  /\ pairingMode' = FALSE
  /\ candidate' = NoNode
  /\ UNCHANGED paired

\* observe(): the latest transmitter is the candidate.
Observe(node) == candidate' = node /\ UNCHANGED <<paired, pairingMode>>

\* confirmCandidate(): whichever Node is the candidate now.
ConfirmCandidate ==
  /\ pairingMode
  /\ candidate # NoNode
  /\ paired' = candidate
  /\ pairingMode' = FALSE
  /\ UNCHANGED candidate

\* pairManual(), and unpair() for NoNode.
SetPaired(node) ==
  /\ paired' = node
  /\ pairingMode' = FALSE
  /\ candidate' = NoNode

\* matches()
Matches(node) == paired # NoNode /\ node = paired

-----------------------------------------------------------------------------
(* The dashboard. *)

HandlePairStart ==
  /\ Idle
  /\ StartDiscovery
  /\ UNCHANGED <<configVars, up, latest, request, captured, lastPairing,
                 pairingCrashes>>

HandlePairCancel ==
  /\ Idle
  /\ CancelDiscovery
  /\ UNCHANGED <<configVars, up, latest, request, captured, lastPairing,
                 pairingCrashes>>

\* handlePairConfirm(): RAM first, then savePairedNode(), and unpair() if that
\* fails.
ConfirmPairing ==
  /\ Idle
  /\ ConfirmCandidate
  /\ request' = Begun("saveConfirmed", candidate)
  /\ UNCHANGED <<configVars, up, latest, captured, lastPairing, pairingCrashes>>

\* Mutant: a failed save is not taken back.
SaveConfirmedOrNot ==
  /\ request.at = "saveConfirmed"
  /\ Saved(WithNode(request.node)) \/ SaveFails(WithNode(request.node))
  /\ request' = NoRequest
  /\ UNCHANGED <<configReady, up, managerVars, latest, captured, lastPairing,
                 pairingCrashes>>
SaveConfirmed ==
  /\ request.at = "saveConfirmed"
  /\ \/ Saved(WithNode(request.node)) /\ request' = NoRequest
     \/ SaveFails(WithNode(request.node)) /\ request' = [request EXCEPT !.at = "drop"]
  /\ UNCHANGED <<configReady, up, managerVars, latest, captured, lastPairing,
                 pairingCrashes>>

\* handlePairManual() and handleUnpair(): save first, then RAM.
HandlePairManual(node) ==
  /\ Idle
  /\ \/ Saved(WithNode(node)) /\ request' = Begun("pair", node)
     \/ SaveFails(WithNode(node)) /\ UNCHANGED request
  /\ UNCHANGED <<configReady, up, managerVars, latest, captured, lastPairing,
                 pairingCrashes>>

HandleUnpair ==
  /\ Idle
  /\ \/ Saved(WithNode(NoNode)) /\ request' = Begun("drop", NoNode)
     \/ SaveFails(WithNode(NoNode)) /\ UNCHANGED request
  /\ UNCHANGED <<configReady, up, managerVars, latest, captured, lastPairing,
                 pairingCrashes>>

\* The handler's last step: pairManual() or unpair() under radioMutex_.
PairInRam ==
  /\ request.at \in {"pair", "drop"}
  /\ SetPaired(IF request.at = "pair" THEN request.node ELSE NoNode)
  /\ request' = NoRequest
  /\ UNCHANGED <<configVars, up, latest, captured, lastPairing, pairingCrashes>>

-----------------------------------------------------------------------------
(* The radio task: process() for telemetry of any Node; that of a Node which *)
(* is not paired is ignored.                                                 *)

ReceiveTelemetry(node) ==
  /\ up
  /\ \/ /\ pairingMode
        /\ Observe(node)
        /\ UNCHANGED <<latest, captured>>
     \/ /\ ~pairingMode
        /\ Matches(node)
        /\ latest' = node
        /\ captured' = captured \cup {node}
        /\ UNCHANGED managerVars
  /\ UNCHANGED <<configVars, up, request, lastPairing, pairingCrashes>>

-----------------------------------------------------------------------------
\* ConfigStore::begin(), then PairingManager::begin(); whatever the first
\* returns, the start-up goes on.
Boot ==
  /\ ~up
  /\ up' = TRUE
  /\ ConfigBegin
  /\ paired' = config'.node
  /\ UNCHANGED <<pairingMode, candidate, latest, request, captured,
                 lastPairing, pairingCrashes>>

\* Power loss: the blob stays, and with it what a request was writing.
PairingPowerLoss ==
  /\ up
  /\ pairingCrashes < MaxPairingCrashes
  /\ pairingCrashes' = pairingCrashes + 1
  /\ up' = FALSE
  /\ lastPairing' = IF request.at = "idle" THEN {paired}
                    ELSE {request.before, request.node}
  /\ paired' = NoNode
  /\ pairingMode' = FALSE
  /\ candidate' = NoNode
  /\ latest' = NoNode
  /\ request' = NoRequest
  /\ config' = BlankConfig
  /\ configReady' = FALSE
  /\ UNCHANGED <<blob, configFaults, captured>>

PairingInit ==
  /\ ConfigInit
  /\ up = FALSE
  /\ paired = NoNode
  /\ pairingMode = FALSE
  /\ candidate = NoNode
  /\ latest = NoNode
  /\ request = NoRequest
  /\ captured = {}
  /\ lastPairing = {IF blob = NoBlob THEN NoNode ELSE blob.node}
  /\ pairingCrashes = 0

PairingNext ==
  \/ HandlePairStart \/ HandlePairCancel
  \/ ConfirmPairing \/ SaveConfirmed
  \/ \E node \in Nodes : HandlePairManual(node)
  \/ HandleUnpair \/ PairInRam
  \/ \E node \in Nodes : ReceiveTelemetry(node)
  \/ Boot \/ PairingPowerLoss

PairingSpec == PairingInit /\ [][PairingNext]_pairingVars

-----------------------------------------------------------------------------
\* The variables have the types of what they hold.
PairingTypeOK ==
  /\ ConfigTypeOK
  /\ up \in BOOLEAN
  /\ paired \in Nodes \cup {NoNode}
  /\ pairingMode \in BOOLEAN
  /\ candidate \in Nodes \cup {NoNode}
  /\ latest \in Nodes \cup {NoNode}
  /\ request \in [at : {"idle", "saveConfirmed", "pair", "drop"},
                  node : Nodes \cup {NoNode}, before : Nodes \cup {NoNode}]
  /\ captured \subseteq Nodes
  /\ lastPairing \subseteq Nodes \cup {NoNode}
  /\ pairingCrashes \in Nat

(***************************************************************************)
(* RamMatchesConfig.  Between two requests the PairingManager and config_  *)
(* name the same Node, whichever save failed: otherwise the next handler   *)
(* that saves the configuration for another reason would undo or revive a  *)
(* pairing.  (handlePairConfirm changes RAM first and takes it back,       *)
(* handlePairManual and handleUnpair save first.)                          *)
(***************************************************************************)
RamMatchesConfig == Idle => paired = config.node

(***************************************************************************)
(* DiscoveryOnlyUnpaired.  Discovery and a paired Node exclude each other. *)
(* In pairing mode every frame is a candidate, so telemetry of a paired    *)
(* Node would go unacknowledged.  (start() refuses; the ways to pair end   *)
(* the mode.)                                                              *)
(***************************************************************************)
DiscoveryOnlyUnpaired == pairingMode => paired = NoNode

(***************************************************************************)
(* RebootKeepsPairing.  As long as NVS works, a Gateway comes up with the  *)
(* pairing of the last request it finished, or with that of the request    *)
(* the power loss interrupted, also when the boot migrates a configuration *)
(* of schema 1.                                                            *)
(***************************************************************************)
RebootKeepsPairing ==
  [][~up /\ up' /\ configFaults' = 0 => paired' \in lastPairing]_pairingVars

(***************************************************************************)
(* The inductive strengthening.  RequestInv: what a request that has begun *)
(* has done to RAM and to config_, so that its last step, or a power loss  *)
(* before it, leaves them in agreement.  BlobInv: until an NVS call fails, *)
(* the blob is config_ and, while the Gateway is off, names a Node that    *)
(* the last power loss may have left.                                      *)
(***************************************************************************)
RequestInv ==
  /\ request.at # "idle" => up
  /\ ~up => ~pairingMode
  /\ request.at = "saveConfirmed" =>
       /\ paired = request.node /\ ~pairingMode
       /\ config.node = NoNode /\ request.before = NoNode
  /\ request.at = "pair" => config.node = request.node
  /\ request.at = "drop" => /\ config.node = NoNode
                            /\ NoNode \in {request.before, request.node}
BlobNode == IF blob = NoBlob THEN NoNode ELSE blob.node
BlobInv ==
  configFaults = 0 => /\ up => blob = config
                      /\ ~up => BlobNode \in lastPairing
PairingInv ==
  /\ PairingTypeOK /\ RequestInv /\ BlobInv
  /\ RamMatchesConfig /\ DiscoveryOnlyUnpaired

(***************************************************************************)
(* LiveViewIsPairedNode.  The telemetry that the status page shows, and    *)
(* whose session command results are compared with, is of the paired Node. *)
(* (docs/architecture.md: "The live telemetry view and current known poll  *)
(* interval only use the explicitly paired production Node.")              *)
(***************************************************************************)
LiveViewIsPairedNode == Idle /\ latest # NoNode => latest = paired
=============================================================================
