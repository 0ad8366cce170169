SPECIFICATION GatewaySpec
CONSTANTS
  m1 = m1
  m2 = m2
  m3 = m3
  a1 = a1
  a2 = a2
  Models <- MCModels
  Url <- MCUrl
  Deadline = 2
  Refusals = {401, 429}
  Statuses = {200, 503}
  None = None
  Tasks = {p1, p2, q1, q2}
  Prefetch = {p1, p2}
  Audiences = {a1, a2}
  Margin = 1
  Backoff = 2
  Lifetimes = {0, 3}
  MaxClock = 4
  NoToken = NoToken

CHECK_DEADLOCK FALSE

INVARIANTS
  NoFetchBeforeExpiry
  AuditMatchesAnswer
PROPERTIES
  WaitersProceed
  DeadlineAnswers
