SPECIFICATION Spec
CONSTANTS
  k1 = k1
  k2 = k2
  k3 = k3
  Keys = {k1, k2}
  NoKey = NoKey
  NoFile = NoFile
  Damaged = Damaged
  Hash <- MCHash
  Capacity = 1
  RecentCapacity = 1
  MaxRecordId = 2
  Faults = {}
  MaxFaults = 0
  MaxCrashes = 1
  BatchSize = 1
INVARIANTS
  DataLossNeverSilent
