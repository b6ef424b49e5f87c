SPECIFICATION FairCommandSpec
CONSTANTS
  Types = {"POLL", "SCHEDULE"}
  NoRecord = NoRecord
  LastCommandId = 3
  MaxCreates = 3
  CommandFaults = {"save"}
  MaxCommandFaults = 2
  MaxSessions = 2
  MaxCommandCrashes = 1
INVARIANTS
  CommandTypeOK
  NoIdReuse
  ConfirmedWasExecuted
  FinishedStaysFinished
PROPERTIES
  CommandSettles
