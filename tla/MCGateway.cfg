SPECIFICATION Spec
CONSTANTS
  Requests = {q1, q2}
  Workers = {w1, w2, w3}
  Capacity = 1
  Faults = {"acquire", "release", "fail", "invoke", "stream", "kill"}
  NoWorker = NoWorker
SYMMETRY Symmetry

CHECK_DEADLOCK FALSE

INVARIANTS
  InvokedUnderLease
  NoLeaseLeft
PROPERTIES
  UsesSlots
