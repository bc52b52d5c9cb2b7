SPECIFICATION FairSpec
CONSTANTS
  k1 = k1
  k2 = k2
  Keys = {k1, k2}
  Delays <- SomeDelays
  RetryDelay = 1
  Budget <- SomeBudget
INVARIANTS
  TypeOK
  WakesSurvive
  Covered
PROPERTIES
  NoSpuriousDelivery
  EveryWakeIsDelivered
CHECK_DEADLOCK FALSE
