SPECIFICATION PairingSpec
CONSTANTS
  n1 = n1
  n2 = n2
  Nodes = {n1, n2}
  NoNode = NoNode
  NoBlob = NoBlob
  MaxConfigFaults = 0
  MaxPairingCrashes = 0
INVARIANTS
  LiveViewIsPairedNode
SYMMETRY NodeSymmetry
