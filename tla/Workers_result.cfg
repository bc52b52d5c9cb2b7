SPECIFICATION FairSpec
CONSTANTS
  Workers = {w1}
  Calls = {c1}
  Host = Host
  MAX_CONCURRENT_WORKERS = 1
  MaxBodies = 1
  MaxUpsets = 0
PROPERTIES
  ResultIsKept
CHECK_DEADLOCK FALSE
