SPECIFICATION Spec
CONSTANTS
  Deploys = {d1, d2}
  Models = {m1}
  Gateway = Gateway
  Latest = Latest
  Regions = {r1, r2}
  GpuModels = {m1}
  GpuRegions = {r1}
  GatedModels = {m1}
  HasToken = TRUE
  Parallel = 1
  Protect = TRUE
  Edits = {"code", "models", "region"}
  MaxEdits = 1
  None = None

SYMMETRY Symmetry

CHECK_DEADLOCK FALSE

INVARIANTS
  ReviewedIsApplied
  ReplaceTargetsUnlocked
PROPERTIES
  SuccessIsCheckout
  PushClearsFlagsOnly
  NoDanglingRoute
