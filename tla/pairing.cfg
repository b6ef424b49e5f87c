SPECIFICATION PairingSpec
CONSTANTS
  n1 = n1
  n2 = n2
  Nodes = {n1, n2}
  NoNode = NoNode
  NoBlob = NoBlob
  MaxConfigFaults = 2
  MaxPairingCrashes = 2
INVARIANTS
  PairingTypeOK
  RamMatchesConfig
  DiscoveryOnlyUnpaired
PROPERTIES
  RebootKeepsPairing
