SPECIFICATION Spec
CONSTANTS
  Runs = {r1, r2}
  Gens = {g1, g2}
  Keepers = {k1}
  Permissions = {p1}
  Forms = {f1}
  Writers = {}
  PatchRuns = {None}
  PatchStatuses = {"completed"}
  FinishStatuses = {"completed"}
  None = None
  MaxEpoch = 2
  MaxSeq = 0
SYMMETRY IdSymmetry
INVARIANTS
  TypeOK
  MaintenanceExcludesRuns
PROPERTIES
  LiveExecutorKept
CHECK_DEADLOCK FALSE
