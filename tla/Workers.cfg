SPECIFICATION Spec
CONSTANTS
  Workers = {w1, w2}
  Calls = {c1, c2}
  Host = Host
  MAX_CONCURRENT_WORKERS = 1
  MaxBodies = 2
  MaxUpsets = 1
SYMMETRY Alike
INVARIANTS
  OneRunPerWorker
  RunningHasRun
  StoppedLetsGo
CHECK_DEADLOCK FALSE
