SPECIFICATION Spec

CONSTANTS
  Calls = {c1, c2}
  Sweepers = {}
  MaxInstances = 1
  LockSeconds = 1
  ReservationSeconds = 2
  SoftTtl = 1
  HardTtl = 4
  Headroom = 0
  OrphanGrace = 2
  SurveyTime = 1
  LaunchTime = 1
  ClaimLag = 1
  MaxClock = 5
  MaxStart = 5
  Faults = {"launch", "boot", "undo", "sweep"}
  Nobody = Nobody

SYMMETRY Symmetry

CHECK_DEADLOCK FALSE

INVARIANTS
  PoolWithinMax
