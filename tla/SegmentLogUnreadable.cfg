SPECIFICATION Spec
CONSTANTS
  MaxFrames = 2
  MaxBatches = 3
  Faults = {}
  Crashes = {"unordered"}
INVARIANTS
  FlushedStaysReadable
