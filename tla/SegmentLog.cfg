SPECIFICATION Spec
CONSTANTS
  MaxFrames = 2
  MaxBatches = 3
  Faults = {"write", "sync", "rollback"}
  Crashes = {"process", "ordered", "unordered"}
INVARIANTS
  TypeOK
  CrashKeepsCommits
  OrderedLossReadable
  FlushedSurvives
  CheckpointRebuilds
  UncommittedDiscarded
PROPERTIES
  ImplementsDurableLog
