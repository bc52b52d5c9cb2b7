SPECIFICATION Spec
CONSTANTS
  create = create
  batch = batch
  single = single
  another = another
  Writes <- MCWrites
  Created <- create
  Size <- MCSize
  Hosts = {h1, h2}
  MaxFaults = 3
INVARIANTS
  LogIsWhole
  RangesAreExact
PROPERTIES
  KeepsTheContract
CHECK_DEADLOCK FALSE
