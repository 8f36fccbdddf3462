SPECIFICATION Spec
CONSTANTS
  Runs = {r1, r2}
  Gens = {g1}
  Keepers = {}
  Permissions = {}
  Forms = {}
  Writers = {w1}
  PatchRuns = {None}
  PatchStatuses = {"completed"}
  FinishStatuses = {"completed"}
  None = None
  MaxEpoch = 3
  MaxSeq = 1
INVARIANTS
  FencedWritersStayOut
  LiveWriterInStep
SYMMETRY IdSymmetry
CHECK_DEADLOCK FALSE
