SPECIFICATION FairSpec
CONSTANTS
  Leasers = {a}
  Wakers = {}
  Creators = {b}
  MaxTenures = 1
  MaxEntries = 2
  MaxUpsets = 2
  LateRecovery = FALSE
PROPERTIES
  EveryCallAnswered
  EveryParkSettles
CHECK_DEADLOCK FALSE
