SPECIFICATION CommandSpec
CONSTANTS
  Types = {"POLL", "SCHEDULE"}
  NoRecord = NoRecord
  LastCommandId = 3
  MaxCreates = 3
  CommandFaults = {"load"}
  MaxCommandFaults = 1
  MaxSessions = 2
  MaxCommandCrashes = 1
INVARIANTS
  NoIdReuse
