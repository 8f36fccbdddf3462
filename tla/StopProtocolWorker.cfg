SPECIFICATION Spec
CONSTANTS
  None = None
  Reasons = {"cancel"}
  Recheck = "recheck"
  Silent = {}
  Retries = 1
  Failures = {"call"}
  MaxRuns = 3
  MaxStops = 1
  MaxFaults = 1
  MaxConfirms = 1
INVARIANT OneWorker
CHECK_DEADLOCK FALSE
