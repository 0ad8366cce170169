SPECIFICATION FairSpec

CONSTANTS
  Calls = {c1}
  Sweepers = {s1}
  MaxInstances = 1
  LockSeconds = 1
  ReservationSeconds = 2
  SoftTtl = 2
  HardTtl = 4
  Headroom = 0
  OrphanGrace = 2
  SurveyTime = 1
  LaunchTime = 3
  ClaimLag = 1
  MaxClock = 7
  MaxStart = 1
  Faults = {"launch", "boot", "register", "undo", "fence"}
  Nobody = Nobody

PROPERTIES
  ReservationCleared
  StrayWorkerStops
