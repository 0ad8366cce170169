SPECIFICATION MCSpec

CONSTANTS
  Clients = {c1, c2}
  Limit = 2
  Window = 3
  MaxClock = 11
  MCOrders = {1, 2}
  MCLimits = {2, 9}
  Models <- MCModels
  Inputs <- MCInputs
  ItemBytes = 1
  ImageTokens = 50
  TokenUnit = 1
  RuntimeCap = 8

SYMMETRY Symmetry

CHECK_DEADLOCK FALSE

INVARIANTS
  PassesBelowLimit
  LentTierSuffices
  CheapestTier
