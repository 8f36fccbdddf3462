SPECIFICATION Spec
CONSTANTS
  None = None
  Reasons = {"cancel"}
  Recheck = "recheck"
  Silent = {}
  Retries = 1
  Failures = {"call", "drive", "host"}
  MaxRuns = 2
  MaxStops = 2
  MaxFaults = 2
  MaxConfirms = 2
INVARIANTS
  TypeOK
  FinalizersOnce
  AcknowledgedIsGone
PROPERTIES
  StopHeals
CHECK_DEADLOCK FALSE
