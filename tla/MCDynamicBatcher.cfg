SPECIFICATION FairSpec
CONSTANTS
  j1 = j1
  j2 = j2
  j3 = j3
  Jobs = {j1, j2, j3}
  Items <- MCItems
  Validators = {v1}
  QueueSize = 1
  MaxItems = 3
  Faults = {"encode", "timeout"}
  Idle = Idle

CHECK_DEADLOCK FALSE

INVARIANTS
  NothingLost
  OwnRows
PROPERTIES
  JobsComplete
