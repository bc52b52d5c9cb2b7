SPECIFICATION Spec
CONSTANTS
  Leasers = {a}
  Wakers = {b}
  Creators = {}
  MaxTenures = 2
  MaxEntries = 2
  MaxUpsets = 2
  LateRecovery = FALSE
INVARIANTS
  TypeOK
  SingleWriter
  ReleasedIsQuiet
  LeaseKeepsResident
PROPERTIES
  NeverBackInService
CHECK_DEADLOCK FALSE
