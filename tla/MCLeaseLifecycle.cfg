SPECIFICATION FairHistorySpec
CONSTANTS
  Requests = {r1, r2}
  Instances = {v1}
  Sweepers = {s1}
  Capacity = 1
  LeaseSeconds = 2
  SoftTtl = 2
  HardTtl = 4
  Headroom = 2
  RowGrace = 0
  OrphanGrace = 0
  BootTime = 0
  MaxLag = 1
  MaxClock = 4
  MaxBirth = 0
  Faults = {"terminate", "stream"}
  NoVM = NoVM

INVARIANTS
  WorkerNotOversubscribed
PROPERTIES
  LifecycleSparesLeases
  LeaseReclaimed
  BusyFlagCleared
  FailedWorkerStops
