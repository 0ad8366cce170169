SPECIFICATION Spec

CONSTANTS
  Calls = {c1, c2}
  Sweepers = {s1}
  MaxInstances = 1
  LockSeconds = 1
  ReservationSeconds = 2
  SoftTtl = 2
  HardTtl = 3
  Headroom = 0
  OrphanGrace = 2
  SurveyTime = 1
  LaunchTime = 1
  ClaimLag = 1
  MaxClock = 3
  MaxStart = 2
  Faults = {"launch", "boot", "register", "undo", "fence", "sweep"}
  Nobody = Nobody

SYMMETRY Symmetry

INVARIANTS
  GrowsWithinMax
  OneSurveyor

PROPERTIES
  LaunchSpared
  ReadyWorkerSpared
