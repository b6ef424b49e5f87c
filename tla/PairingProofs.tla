--------------------------- MODULE PairingProofs ---------------------------
(***************************************************************************)
(* Proofs about Pairing: RAM, config_ and the NVS blob name the same Node, *)
(* for any set of Nodes and any number of power losses and failing NVS     *)
(* calls.                                                                  *)
(***************************************************************************)
EXTENDS Pairing, TLAPS

NodeOrNone == Nodes \cup {NoNode}
Request == [at : {"idle", "saveConfirmed", "pair", "drop"},
            node : NodeOrNone, before : NodeOrNone]

\* The typing of the state, part by part.
LEMMA PairingTypes ==
  PairingTypeOK <=>
    /\ blob \in Config \cup {NoBlob} /\ config \in Config
    /\ configReady \in BOOLEAN /\ configFaults \in Nat
    /\ up \in BOOLEAN /\ pairingMode \in BOOLEAN
    /\ paired \in NodeOrNone /\ candidate \in NodeOrNone /\ latest \in NodeOrNone
    /\ request \in Request
    /\ captured \subseteq Nodes /\ lastPairing \subseteq NodeOrNone
    /\ pairingCrashes \in Nat
  BY Zenon DEF PairingTypeOK, ConfigTypeOK, NodeOrNone, Request

\* The handlers' records.
LEMMA RequestTypes ==
  /\ NoRequest \in Request /\ NoRequest.at = "idle"
  /\ \A n \in NodeOrNone : \A a \in {"saveConfirmed", "pair", "drop"} :
       paired \in NodeOrNone =>
         /\ Begun(a, n) \in Request
         /\ Begun(a, n).at = a /\ Begun(a, n).node = n
         /\ Begun(a, n).before = paired
  BY DEF NoRequest, Begun, Request, NodeOrNone

\* The configurations that the Gateway builds.
LEMMA BuiltConfigs ==
  /\ BlankConfig \in Config /\ BlankConfig.node = NoNode
  /\ DefaultConfig \in Config /\ DefaultConfig.node = NoNode
  /\ \A c \in Config : MigrateConfigV1(c) \in Config /\ MigrateConfigV1(c).node = c.node
  /\ \A n \in NodeOrNone : config \in Config =>
       WithNode(n) \in Config /\ WithNode(n).node = n
  BY DEF BlankConfig, DefaultConfig, MigrateConfigV1, WithNode, Config, NodeOrNone

\* save(): a configuration that was saved is current and in NVS.
LEMMA SavedEffect ==
  ASSUME PairingTypeOK, NEW n \in NodeOrNone, Saved(WithNode(n))
  PROVE  /\ blob' = config' /\ config' \in Config /\ config'.node = n
         /\ configFaults' = configFaults
  BY PairingTypes, BuiltConfigs DEF Saved, NvsOkay

\* save(): one that was not saved is not current, and unless a call failed,
\* not in NVS either.
LEMMA SaveFailsEffect ==
  ASSUME PairingTypeOK, NEW n \in NodeOrNone, SaveFails(WithNode(n))
  PROVE  /\ config' = config
         /\ blob' \in Config \cup {NoBlob} /\ configFaults' \in Nat
         /\ configFaults' = 0 => configFaults = 0 /\ blob' = blob
  BY PairingTypes, BuiltConfigs DEF SaveFails, NvsFailing

\* begin(): whichever way it goes, a boot without a failing call makes the
\* stored pairing current.
LEMMA ConfigBeginEffect ==
  ASSUME PairingTypeOK, ConfigBegin
  PROVE  /\ blob' \in Config \cup {NoBlob} /\ config' \in Config
         /\ configReady' \in BOOLEAN /\ configFaults' \in Nat
         /\ configFaults' = 0 => /\ configFaults = 0 /\ blob' = config'
                                 /\ config'.node = BlobNode
<1>0. blob \in Config \cup {NoBlob} /\ configFaults \in Nat
  BY PairingTypes
<1>1. CASE LoadCurrent
  BY <1>0, <1>1 DEF LoadCurrent, NvsOkay, BlobNode
<1>2. CASE LoadLegacy
  <2>1. blob \in Config /\ blob # NoBlob
    BY <1>0, <1>2 DEF LoadLegacy
  <2> DEFINE c == MigrateConfigV1(blob)
  <2>2. c \in Config /\ c.node = BlobNode
    BY <2>1, BuiltConfigs DEF BlobNode
  <2> HIDE DEF c
  <2>3. CASE NvsOkay /\ blob' = c /\ config' = c /\ configReady' = TRUE
    BY <1>0, <2>2, <2>3 DEF NvsOkay
  <2>4. CASE /\ NvsFailing /\ blob' \in {blob, c}
             /\ config' = BlankConfig /\ configReady' = FALSE
    <3>1. configFaults' \in Nat /\ configFaults' # 0
      BY <1>0, <2>4 DEF NvsFailing
    <3>2. blob' \in Config /\ config' \in Config /\ configReady' \in BOOLEAN
      BY <2>1, <2>2, <2>4, BuiltConfigs, Zenon
    <3> QED
      BY <3>1, <3>2
  <2> QED
    BY <1>2, <2>3, <2>4 DEF LoadLegacy, c
<1>3. CASE LoadDefaults
  <2>1. config' = DefaultConfig /\ configReady' \in BOOLEAN
    BY <1>3 DEF LoadDefaults
  <2>2. /\ configFaults' \in Nat /\ blob' \in {blob, DefaultConfig}
        /\ configFaults' = 0 =>
             configFaults = 0 /\ blob = NoBlob /\ blob' = DefaultConfig
    BY <1>0, <1>3 DEF LoadDefaults
  <2>3. DefaultConfig \in Config /\ DefaultConfig.node = NoNode
    BY BuiltConfigs
  <2> QED
    BY <1>0, <2>1, <2>2, <2>3 DEF BlobNode
<1>4. CASE OpenFails
  <2>1. configFaults' \in Nat /\ configFaults' # 0
    BY <1>0, <1>4 DEF OpenFails, NvsFailing
  <2> QED
    BY <1>0, <1>4, <2>1, BuiltConfigs DEF OpenFails
<1> QED
  BY <1>1, <1>2, <1>3, <1>4 DEF ConfigBegin

\* The Gateway is off, with whatever configuration NVS holds.
LEMMA PairingInvInit == PairingInit => PairingInv
<1> SUFFICES ASSUME PairingInit PROVE PairingInv
  OBVIOUS
<1>1. blob \in Config \cup {NoBlob} /\ BlobNode \in NodeOrNone
  BY DEF PairingInit, ConfigInit, Config, BlobNode, NodeOrNone
<1>2. PairingTypeOK
  BY <1>1, PairingTypes, BuiltConfigs, RequestTypes
     DEF PairingInit, ConfigInit, NodeOrNone, BlobNode
<1>3. RequestInv /\ RamMatchesConfig /\ DiscoveryOnlyUnpaired
  BY RequestTypes DEF PairingInit, RequestInv, RamMatchesConfig, Idle,
                      DiscoveryOnlyUnpaired
<1>4. BlobInv
  BY DEF PairingInit, BlobInv, BlobNode
<1> QED
  BY <1>2, <1>3, <1>4 DEF PairingInv

\* start(), cancel() and observe() touch neither pairing nor configuration.
LEMMA DiscoveryInv ==
  ASSUME PairingInv,
         \/ HandlePairStart \/ HandlePairCancel
         \/ \E node \in Nodes : ReceiveTelemetry(node)
  PROVE  PairingInv'
<1>0. /\ candidate \in NodeOrNone /\ latest \in NodeOrNone /\ captured \subseteq Nodes
      /\ pairingMode \in BOOLEAN
  BY PairingTypes DEF PairingInv
<1>1. /\ UNCHANGED <<configVars, up, paired, request, lastPairing, pairingCrashes>>
      /\ up /\ (pairingMode' => pairingMode \/ paired = NoNode)
      /\ (pairingMode' => pairingMode \/ request.at = "idle")
      /\ candidate' \in NodeOrNone /\ latest' \in NodeOrNone
      /\ captured' \subseteq Nodes /\ pairingMode' \in BOOLEAN
  <2>1. CASE HandlePairStart
    BY <1>0, <2>1 DEF HandlePairStart, Idle, StartDiscovery, NodeOrNone
  <2>2. CASE HandlePairCancel
    BY <1>0, <2>2 DEF HandlePairCancel, Idle, CancelDiscovery, NodeOrNone
  <2>3. CASE \E node \in Nodes : ReceiveTelemetry(node)
    BY <1>0, <2>3 DEF ReceiveTelemetry, Observe, managerVars, NodeOrNone
  <2> QED
    BY <2>1, <2>2, <2>3
<1>2. PairingTypeOK'
  BY <1>1, Zenon DEF PairingInv, PairingTypeOK, ConfigTypeOK, configVars, NodeOrNone
<1>3. RequestInv' /\ RamMatchesConfig' /\ DiscoveryOnlyUnpaired'
  BY <1>1 DEF PairingInv, RequestInv, RamMatchesConfig, Idle,
              DiscoveryOnlyUnpaired, configVars
<1>4. BlobInv'
  BY <1>1 DEF PairingInv, BlobInv, BlobNode, configVars
<1> QED
  BY <1>2, <1>3, <1>4 DEF PairingInv

\* handlePairConfirm(), first half: RAM is ahead of the configuration.
LEMMA ConfirmPairingInv ==
  ASSUME PairingInv, ConfirmPairing
  PROVE  PairingInv'
<1>0. /\ PairingTypeOK /\ up /\ request.at = "idle"
      /\ pairingMode /\ candidate \in NodeOrNone /\ paired \in NodeOrNone
      /\ paired' = candidate /\ pairingMode' = FALSE
      /\ request' = Begun("saveConfirmed", candidate)
      /\ UNCHANGED <<configVars, up, candidate, latest, captured, lastPairing,
                     pairingCrashes>>
  BY PairingTypes DEF PairingInv, ConfirmPairing, ConfirmCandidate, Idle
<1>1. /\ request' \in Request /\ request'.at = "saveConfirmed"
      /\ request'.node = candidate /\ request'.before = paired
  BY <1>0, RequestTypes
<1>2. PairingTypeOK'
  BY <1>0, <1>1 DEF PairingTypeOK, ConfigTypeOK, configVars, NodeOrNone, Request
<1>3. paired = NoNode /\ config.node = NoNode
  BY <1>0 DEF PairingInv, RamMatchesConfig, DiscoveryOnlyUnpaired, Idle
<1>4. RequestInv' /\ RamMatchesConfig' /\ DiscoveryOnlyUnpaired'
  BY <1>0, <1>1, <1>3 DEF RequestInv, RamMatchesConfig, Idle,
                          DiscoveryOnlyUnpaired, configVars
<1>5. BlobInv'
  BY <1>0 DEF PairingInv, BlobInv, BlobNode, configVars
<1> QED
  BY <1>2, <1>4, <1>5 DEF PairingInv

\* handlePairConfirm(), second half: the save, or the way back.
LEMMA SaveConfirmedInv ==
  ASSUME PairingInv, SaveConfirmed
  PROVE  PairingInv'
<1>0. /\ PairingTypeOK /\ request.at = "saveConfirmed" /\ up
      /\ request \in Request /\ request.node \in NodeOrNone
      /\ paired = request.node /\ ~pairingMode
      /\ config.node = NoNode /\ request.before = NoNode
      /\ UNCHANGED <<configReady, up, paired, pairingMode, candidate, latest,
                     captured, lastPairing, pairingCrashes>>
  BY PairingTypes DEF PairingInv, SaveConfirmed, RequestInv, managerVars, Request
<1>1. CASE Saved(WithNode(request.node)) /\ request' = NoRequest
  <2>1. /\ blob' = config' /\ config' \in Config /\ config'.node = request.node
        /\ configFaults' = configFaults
    BY <1>0, <1>1, SavedEffect
  <2>2. request' \in Request /\ request'.at = "idle"
    BY <1>1, RequestTypes
  <2>3. PairingTypeOK'
    BY <1>0, <2>1, <2>2 DEF PairingTypeOK, ConfigTypeOK, Request, NodeOrNone
  <2>4. RequestInv' /\ RamMatchesConfig' /\ DiscoveryOnlyUnpaired'
    BY <1>0, <2>1, <2>2 DEF RequestInv, RamMatchesConfig, DiscoveryOnlyUnpaired
  <2>5. BlobInv'
    BY <1>0, <2>1 DEF BlobInv
  <2> QED
    BY <2>3, <2>4, <2>5 DEF PairingInv
<1>2. CASE SaveFails(WithNode(request.node)) /\ request' = [request EXCEPT !.at = "drop"]
  <2>1. /\ config' = config /\ blob' \in Config \cup {NoBlob}
        /\ configFaults' \in Nat
        /\ configFaults' = 0 => configFaults = 0 /\ blob' = blob
    BY <1>0, <1>2, SaveFailsEffect
  <2>2. /\ request' \in Request /\ request'.at = "drop"
        /\ request'.before = NoNode
    BY <1>0, <1>2 DEF Request
  <2>3. PairingTypeOK'
    BY <1>0, <2>1, <2>2 DEF PairingTypeOK, ConfigTypeOK, Request, NodeOrNone
  <2>4. RequestInv' /\ RamMatchesConfig' /\ DiscoveryOnlyUnpaired'
    BY <1>0, <2>1, <2>2 DEF RequestInv, RamMatchesConfig, Idle, DiscoveryOnlyUnpaired
  <2>5. BlobInv'
    BY <1>0, <2>1 DEF PairingInv, BlobInv
  <2> QED
    BY <2>3, <2>4, <2>5 DEF PairingInv
<1> QED
  BY <1>1, <1>2 DEF SaveConfirmed

\* handlePairManual() and handleUnpair(), first half: the configuration is
\* ahead of RAM, or nothing has changed.
LEMMA SaveFirstInv ==
  ASSUME PairingInv,
         (\E node \in Nodes : HandlePairManual(node)) \/ HandleUnpair
  PROVE  PairingInv'
<1>0. /\ PairingTypeOK /\ up /\ request.at = "idle" /\ paired \in NodeOrNone
      /\ UNCHANGED <<configReady, up, paired, pairingMode, candidate, latest,
                     captured, lastPairing, pairingCrashes>>
      /\ paired = config.node
  BY PairingTypes DEF PairingInv, HandlePairManual, HandleUnpair, managerVars,
                      Idle, RamMatchesConfig
<1>1. PICK n \in NodeOrNone, a \in {"pair", "drop"} :
        /\ a = "drop" => n = NoNode
        /\ \/ Saved(WithNode(n)) /\ request' = Begun(a, n)
           \/ SaveFails(WithNode(n)) /\ UNCHANGED request
  BY DEF HandlePairManual, HandleUnpair, NodeOrNone
<1>2. CASE Saved(WithNode(n)) /\ request' = Begun(a, n)
  <2>1. /\ blob' = config' /\ config' \in Config /\ config'.node = n
        /\ configFaults' = configFaults
    BY <1>0, <1>2, SavedEffect
  <2>2. /\ request' \in Request /\ request'.at = a /\ request'.node = n
    BY <1>0, <1>2, RequestTypes
  <2>3. PairingTypeOK'
    BY <1>0, <2>1, <2>2 DEF PairingTypeOK, ConfigTypeOK, Request, NodeOrNone
  <2>4. RequestInv' /\ RamMatchesConfig' /\ DiscoveryOnlyUnpaired'
    BY <1>0, <1>1, <2>1, <2>2
       DEF PairingInv, RequestInv, RamMatchesConfig, Idle, DiscoveryOnlyUnpaired
  <2>5. BlobInv'
    BY <1>0, <2>1 DEF BlobInv
  <2> QED
    BY <2>3, <2>4, <2>5 DEF PairingInv
<1>3. CASE SaveFails(WithNode(n)) /\ UNCHANGED request
  <2>1. /\ config' = config /\ blob' \in Config \cup {NoBlob}
        /\ configFaults' \in Nat
        /\ configFaults' = 0 => configFaults = 0 /\ blob' = blob
    BY <1>0, <1>3, SaveFailsEffect
  <2>2. PairingTypeOK'
    BY <1>0, <1>3, <2>1 DEF PairingTypeOK, ConfigTypeOK
  <2>3. RequestInv' /\ RamMatchesConfig' /\ DiscoveryOnlyUnpaired'
    BY <1>0, <1>3, <2>1
       DEF PairingInv, RequestInv, RamMatchesConfig, Idle, DiscoveryOnlyUnpaired
  <2>4. BlobInv'
    BY <1>0, <2>1 DEF PairingInv, BlobInv
  <2> QED
    BY <2>2, <2>3, <2>4 DEF PairingInv
<1> QED
  BY <1>1, <1>2, <1>3

\* The last step of a handler brings RAM to what the configuration says.
LEMMA PairInRamInv ==
  ASSUME PairingInv, PairInRam
  PROVE  PairingInv'
<1>0. /\ PairingTypeOK /\ request.at \in {"pair", "drop"} /\ up
      /\ request.node \in NodeOrNone /\ NoNode \in NodeOrNone
      /\ paired' = (IF request.at = "pair" THEN request.node ELSE NoNode)
      /\ pairingMode' = FALSE /\ candidate' = NoNode
      /\ request' \in Request /\ request'.at = "idle"
      /\ UNCHANGED <<configVars, up, latest, captured, lastPairing, pairingCrashes>>
  BY PairingTypes, RequestTypes
     DEF PairingInv, RequestInv, PairInRam, SetPaired, Request, NodeOrNone
<1>1. paired' = config.node
  BY <1>0 DEF PairingInv, RequestInv
<1>2. PairingTypeOK'
  BY <1>0 DEF PairingTypeOK, ConfigTypeOK, configVars, Request, NodeOrNone
<1>3. RequestInv' /\ RamMatchesConfig' /\ DiscoveryOnlyUnpaired'
  BY <1>0, <1>1 DEF RequestInv, RamMatchesConfig, DiscoveryOnlyUnpaired, configVars
<1>4. BlobInv'
  BY <1>0 DEF PairingInv, BlobInv, BlobNode, configVars
<1> QED
  BY <1>2, <1>3, <1>4 DEF PairingInv

\* A boot takes the pairing from the configuration it has loaded.
LEMMA BootInv ==
  ASSUME PairingInv, Boot
  PROVE  PairingInv'
<1>0. /\ PairingTypeOK /\ ~up /\ up' /\ ~pairingMode /\ request.at = "idle"
      /\ paired' = config'.node
      /\ UNCHANGED <<pairingMode, candidate, latest, request, captured,
                     lastPairing, pairingCrashes>>
  BY DEF PairingInv, RequestInv, Boot
<1>1. /\ blob' \in Config \cup {NoBlob} /\ config' \in Config
      /\ configReady' \in BOOLEAN /\ configFaults' \in Nat
      /\ configFaults' = 0 => /\ configFaults = 0 /\ blob' = config'
                              /\ config'.node = BlobNode
  BY <1>0, ConfigBeginEffect DEF Boot
<1>2. paired' \in NodeOrNone
  BY <1>0, <1>1 DEF Config, NodeOrNone
<1>3. PairingTypeOK'
  BY <1>0, <1>1, <1>2 DEF PairingTypeOK, ConfigTypeOK, NodeOrNone, Boot
<1>4. RequestInv' /\ RamMatchesConfig' /\ DiscoveryOnlyUnpaired'
  BY <1>0 DEF RequestInv, RamMatchesConfig, DiscoveryOnlyUnpaired
<1>5. BlobInv'
  BY <1>0, <1>1 DEF BlobInv
<1> QED
  BY <1>3, <1>4, <1>5 DEF PairingInv

\* Whatever request the power loss interrupts, the blob names the pairing
\* before it or the one it was making.
LEMMA PairingPowerLossInv ==
  ASSUME PairingInv, PairingPowerLoss
  PROVE  PairingInv'
<1>0. /\ PairingTypeOK /\ up /\ up' = FALSE
      /\ lastPairing' = (IF request.at = "idle" THEN {paired}
                         ELSE {request.before, request.node})
      /\ paired' = NoNode /\ pairingMode' = FALSE /\ candidate' = NoNode
      /\ latest' = NoNode /\ configReady' = FALSE /\ config' = BlankConfig
      /\ pairingCrashes' = pairingCrashes + 1
      /\ request' \in Request /\ request'.at = "idle"
      /\ UNCHANGED <<blob, configFaults, captured>>
  BY RequestTypes DEF PairingInv, PairingPowerLoss
<1>1. /\ request \in Request /\ paired \in NodeOrNone /\ NoNode \in NodeOrNone
      /\ config' \in Config /\ pairingCrashes' \in Nat
  BY <1>0, PairingTypes, BuiltConfigs DEF NodeOrNone
<1>2. lastPairing' \subseteq NodeOrNone
  BY <1>0, <1>1 DEF Request
<1>3. PairingTypeOK'
  BY <1>0, <1>1, <1>2 DEF PairingTypeOK, ConfigTypeOK, Request, NodeOrNone
<1>4. RequestInv' /\ RamMatchesConfig' /\ DiscoveryOnlyUnpaired'
  BY <1>0 DEF RequestInv, RamMatchesConfig, Idle, DiscoveryOnlyUnpaired
<1>5. config.node \in lastPairing'
  <2>1. CASE request.at = "idle"
    BY <1>0, <2>1 DEF PairingInv, RamMatchesConfig, Idle
  <2>2. CASE request.at # "idle"
    BY <1>0, <1>1, <2>2 DEF PairingInv, RequestInv, Request
  <2> QED
    BY <2>1, <2>2
<1>6. BlobInv'
  <2> SUFFICES ASSUME configFaults' = 0 PROVE BlobNode' \in lastPairing'
    BY <1>0 DEF BlobInv
  <2>1. blob = config /\ blob # NoBlob
    BY <1>0, ConfigAssumption, PairingTypes DEF PairingInv, BlobInv
  <2> QED
    BY <1>0, <1>5, <2>1 DEF BlobNode
<1> QED
  BY <1>3, <1>4, <1>6 DEF PairingInv

\* Every step of the Gateway keeps the invariant.
LEMMA PairingInvStep == PairingInv /\ [PairingNext]_pairingVars => PairingInv'
<1> SUFFICES ASSUME PairingInv, [PairingNext]_pairingVars PROVE PairingInv'
  OBVIOUS
<1>1. CASE UNCHANGED pairingVars
  BY <1>1 DEF PairingInv, PairingTypeOK, ConfigTypeOK, RequestInv, BlobInv, BlobNode,
              RamMatchesConfig, Idle, DiscoveryOnlyUnpaired, pairingVars, configVars,
              managerVars
<1>2. CASE PairingNext
  BY <1>2, DiscoveryInv, ConfirmPairingInv, SaveConfirmedInv, SaveFirstInv,
     PairInRamInv, BootInv, PairingPowerLossInv DEF PairingNext
<1> QED
  BY <1>1, <1>2

\* The inductive invariant holds in every state.
THEOREM PairingInvInvariant == PairingSpec => []PairingInv
  BY PairingInvInit, PairingInvStep, PTL DEF PairingSpec

\* Type correctness of the PairingManager, the configuration and a request.
THEOREM PairingTypeCorrect == PairingSpec => []PairingTypeOK
<1>1. PairingInv => PairingTypeOK
  BY DEF PairingInv
<1> QED
  BY <1>1, PairingInvInvariant, PTL

(***************************************************************************)
(* Whichever save of a handler fails, and wherever the power goes, between *)
(* two requests the PairingManager and config_ name the same Node.         *)
(***************************************************************************)
THEOREM RamAlwaysMatchesConfig == PairingSpec => []RamMatchesConfig
<1>1. PairingInv => RamMatchesConfig
  BY DEF PairingInv
<1> QED
  BY <1>1, PairingInvInvariant, PTL

(***************************************************************************)
(* start() refuses while a Node is paired and every way to pair ends       *)
(* discovery, so the two never meet, not even between the steps of a       *)
(* handler or across a boot.                                               *)
(***************************************************************************)
THEOREM DiscoveryAlwaysUnpaired == PairingSpec => []DiscoveryOnlyUnpaired
<1>1. PairingInv => DiscoveryOnlyUnpaired
  BY DEF PairingInv
<1> QED
  BY <1>1, PairingInvInvariant, PTL

(***************************************************************************)
(* ConfigStore::begin(), the migration of schema 1 included, restores the  *)
(* pairing of the last request, or of the one the power loss interrupted,  *)
(* unless an NVS call failed.                                              *)
(***************************************************************************)
THEOREM RebootAlwaysKeepsPairing == PairingSpec => RebootKeepsPairing
<1>1. PairingInv /\ [PairingNext]_pairingVars =>
        [~up /\ up' /\ configFaults' = 0 => paired' \in lastPairing]_pairingVars
  <2> SUFFICES ASSUME PairingInv, PairingNext, ~up, up', configFaults' = 0
               PROVE  paired' \in lastPairing
    OBVIOUS
  <2>1. Boot
    BY DEF PairingInv, RequestInv, PairingNext, HandlePairStart, HandlePairCancel,
           ConfirmPairing, SaveConfirmed, HandlePairManual, HandleUnpair, PairInRam,
           ReceiveTelemetry, PairingPowerLoss, Idle
  <2>2. paired' = BlobNode /\ configFaults = 0
    BY <2>1, ConfigBeginEffect DEF PairingInv, Boot
  <2> QED
    BY <2>2 DEF PairingInv, BlobInv
<1> QED
  BY <1>1, PairingInvInvariant, PTL DEF PairingSpec, RebootKeepsPairing
=============================================================================
