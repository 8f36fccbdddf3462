SPECIFICATION Spec
CONSTANTS
  MaxFrames = 2
  MaxBatches = 3
  Faults = {"write", "rollback"}
  Crashes = {"process"}
INVARIANTS
  CheckpointDisposable
