SPECIFICATION FairSpec
CONSTANTS
  x = x
  y = y
  z = z
  Dirs = {root, dense}
  Modules = {x, y, z}
  Repos <- MCRepos
  Requests = {q1, q2, q3, q4}
  Concurrencies = {1, 3}
  Parallelisms = {1, 2}
  None = None

CHECK_DEADLOCK FALSE

INVARIANTS
  BuiltImageLoads
  LoadedOnce
  ThreadForEveryJob
PROPERTIES
  RequestsAnswered
