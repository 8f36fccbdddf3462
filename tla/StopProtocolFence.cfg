SPECIFICATION Spec
CONSTANTS
  None = None
  Reasons = {"cancel", "archive"}
  Recheck = "recheck"
  Silent = {2}
  Retries = 1
  Failures = {}
  MaxRuns = 1
  MaxStops = 2
  MaxFaults = 0
  MaxConfirms = 2
PROPERTY FenceClears
CHECK_DEADLOCK FALSE
