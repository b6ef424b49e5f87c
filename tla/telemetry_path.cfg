SPECIFICATION Spec
CONSTANTS
  k1 = k1
  k2 = k2
  k3 = k3
  Keys = {k1, k2, k3}
  NoKey = NoKey
  NoFile = NoFile
  Damaged = Damaged
  Hash <- MCHash
  Capacity = 2
  RecentCapacity = 1
  MaxRecordId = 3
  Faults = {"mount", "write", "remove", "read", "nvs", "rot"}
  MaxFaults = 1
  MaxCrashes = 1
  BatchSize = 2
SYMMETRY CollidingKeys
INVARIANTS
  TypeOK
  AckedNotLost
  IndexMatchesFlash
  RingHoldsOnlyTerminal
  DropsCounted
PROPERTIES
  OwedRecordKept
  CustodyKept
