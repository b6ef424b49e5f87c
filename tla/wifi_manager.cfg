SPECIFICATION WifiSpec
CONSTANTS
  Credentials = {home}
  NoCredentials = NoCredentials
  Period = 8
  ReconnectInterval = 2
  FallbackAfter = 3
  ApGrace = 2
  MaxRequests = 1
  MaxApFailures = 1
INVARIANTS
  WifiTypeOK
  NoStaleJoin
  DarkBounded
PROPERTIES
  ClearedLeavesAp
  JoinsContinue
