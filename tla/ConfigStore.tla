---------------------------- MODULE ConfigStore ----------------------------
(***************************************************************************)
(* The configuration store (lib/config): one validated configuration in    *)
(* RAM (config_) and as one NVS blob, in the current layout or in that of  *)
(* schema 1, which begin() migrates.  Only the loop task uses it.          *)
(*                                                                         *)
(* Of a configuration the models need the schema, whether it has a valid   *)
(* gatewayId (the constructor leaves it empty, and nothing without one     *)
(* validates) and the paired Node.  A failed write reports failure, but    *)
(* the blob may have been replaced all the same.                           *)
(***************************************************************************)
EXTENDS Integers

CONSTANTS
  Nodes,           \* Node IDs
  NoNode,          \* the empty pairedNodeId
  NoBlob,          \* NVS holds no configuration
  MaxConfigFaults  \* bound on failing NVS calls

VARIABLES
  blob,         \* the NVS blob "config"
  config,       \* config_
  configReady,  \* what begin() returned in this boot
  configFaults  \* failed NVS calls so far

configVars == <<blob, config, configReady, configFaults>>

Config == [schema : {1, 2}, named : BOOLEAN, node : Nodes \cup {NoNode}]

ASSUME ConfigAssumption ==
  /\ NoNode \notin Nodes
  /\ NoBlob \notin Config
  /\ MaxConfigFaults \in Nat

\* GatewayConfig{}, and setDefaults().
BlankConfig == [schema |-> 2, named |-> FALSE, node |-> NoNode]
\* Mutant: the structure is cleared instead of constructed.
DefaultZeroed == [BlankConfig EXCEPT !.named = TRUE, !.schema = 0]
DefaultConfig == [BlankConfig EXCEPT !.named = TRUE]

\* validateConfig(), as far as it can refuse what the Gateway itself builds.
ValidConfig(c) == c.schema = 2 /\ c.named

\* Mutant: the paired Node is not copied.
MigrateWithoutNode(legacy) == [DefaultConfig EXCEPT !.named = legacy.named]
\* migrateConfigV1()
MigrateConfigV1(legacy) == [legacy EXCEPT !.schema = 2]

NvsOkay == UNCHANGED configFaults
NvsFailing == configFaults < MaxConfigFaults /\ configFaults' = configFaults + 1

(***************************************************************************)
(* save(): validate, write, and only then make current.                    *)
(***************************************************************************)
Saved(c) ==
  /\ ValidConfig(c)
  /\ NvsOkay
  /\ blob' = c
  /\ config' = c
SaveFails(c) ==
  \/ /\ ~ValidConfig(c)
     /\ UNCHANGED <<blob, config, configFaults>>
  \/ /\ ValidConfig(c)
     /\ NvsFailing
     /\ blob' \in {blob, c}
     /\ UNCHANGED config

(***************************************************************************)
(* begin(), in the order of the code: NVS cannot be opened, the current    *)
(* layout, the migration of schema 1, or defaults for anything else, a     *)
(* failed read included.                                                   *)
(***************************************************************************)
\* Nothing is read; the blank configuration lets nothing be saved either.
OpenFails ==
  /\ NvsFailing
  /\ config' = BlankConfig
  /\ configReady' = FALSE
  /\ UNCHANGED blob

LoadCurrent ==
  /\ blob # NoBlob
  /\ ValidConfig(blob)
  /\ NvsOkay
  /\ config' = blob
  /\ configReady' = TRUE
  /\ UNCHANGED blob

LoadLegacy ==
  /\ blob # NoBlob
  /\ blob.schema = 1
  /\ LET c == MigrateConfigV1(blob) IN
       \/ NvsOkay /\ blob' = c /\ config' = c /\ configReady' = TRUE
       \/ /\ NvsFailing
          /\ blob' \in {blob, c}
          /\ config' = BlankConfig
          /\ configReady' = FALSE

\* A stored configuration is passed over only if it cannot be read; storing
\* the defaults may fail as well.
LoadDefaults ==
  /\ config' = DefaultConfig
  /\ LET unread == IF blob = NoBlob THEN 0 ELSE 1 IN
       \/ /\ configFaults' = configFaults + unread
          /\ blob' = DefaultConfig
          /\ configReady' = TRUE
       \/ /\ configFaults' = configFaults + unread + 1
          /\ blob' \in {blob, DefaultConfig}
          /\ configReady' = FALSE
  /\ configFaults' <= MaxConfigFaults

ConfigBegin == OpenFails \/ LoadCurrent \/ LoadLegacy \/ LoadDefaults

ConfigInit ==
  /\ blob \in {NoBlob}
       \cup [schema : {1, 2}, named : {TRUE}, node : Nodes \cup {NoNode}]
  /\ config = BlankConfig
  /\ configReady = FALSE
  /\ configFaults = 0

ConfigTypeOK ==
  /\ blob \in Config \cup {NoBlob}
  /\ config \in Config
  /\ configReady \in BOOLEAN
  /\ configFaults \in Nat
=============================================================================
