SPECIFICATION OtaSpec
CONSTANTS
  MaxOtaFaults = 2
  MaxUploads = 3
INVARIANTS
  OtaTypeOK
  ValidMeansProven
  FallbackKept
PROPERTIES
  PendingDecided
\* Without any image that can be started the Gateway stays off.
CHECK_DEADLOCK FALSE
