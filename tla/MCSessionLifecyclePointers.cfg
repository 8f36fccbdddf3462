SPECIFICATION Spec
CONSTANTS
  Runs = {r1, r2}
  Gens = {g1}
  Keepers = {}
  Permissions = {}
  Forms = {}
  Writers = {}
  PatchRuns = {}
  PatchStatuses = {}
  FinishStatuses = {"completed"}
  None = None
  MaxEpoch = 2
  MaxSeq = 1
INVARIANT PointersAgree
SYMMETRY IdSymmetry
CHECK_DEADLOCK FALSE
