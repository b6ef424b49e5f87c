SPECIFICATION FairWorkerSpec
CONSTANTS
  Endpoints <- MCEndpoints
  Intervals = {1, 3}
  InitialBackoff = 2
  MaximumBackoff = 5
  MaxBatch = 2
  BatchSize = 2
  IdleWait = 1
  RetryWait = 2
  FailureLimit = 3
  MaxDepth = 2
  MaxApplies = 1
INVARIANTS
  WorkerTypeOK
  ConnectivityHonest
  AskedEndsWait
PROPERTIES
  SuccessMeansAll
  UploadAttempted
  HeartbeatsContinue
