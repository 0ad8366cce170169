SPECIFICATION Spec
CONSTANTS
  Requests = {r1, r2}
  Instances = {v1}
  Sweepers = {s1}
  Capacity = 2
  LeaseSeconds = 2
  SoftTtl = 3
  HardTtl = 4
  Headroom = 2
  RowGrace = 0
  OrphanGrace = 0
  BootTime = 0
  MaxLag = 1
  MaxClock = 4
  MaxBirth = 0
  Faults = {"transact", "fence", "dropLease", "terminate", "stream", "sweep"}
  NoVM = NoVM
SYMMETRY Symmetry

INVARIANTS
  TypeOK
  LeaseWithinExpiry
  SlotsAccounted
  LeaseHeldUntilExpiry
  AvailableIsFree
PROPERTIES
  NoSlotLeak
  ImplementsSlots
