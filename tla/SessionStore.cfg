SPECIFICATION FairSpec
CONSTANTS
  w1 = w1
  w2 = w2
  poison = poison
  empty = empty
  Writes = {w1, w2, poison, empty}
  Empty = {empty}
  Poison = {poison}
  Foreign = Foreign
  MaxForeign = 1
INVARIANTS
  TypeOK
  StateFollowsLog
  ProjectionIsCurrent
  AnswersAreTrue
  WritesInCallOrder
PROPERTIES
  NothingLandsAfterPark
  EveryEmitSettles
  ImplementsEventLog
ACTION_CONSTRAINT AlikeInTurn
CHECK_DEADLOCK FALSE
