SPECIFICATION Spec
CONSTANTS
  Operator = Operator
  Loop = Loop
  Messages = {m1}
  HasCallLog = TRUE
  HasDebounceCallback = FALSE
  Operations = {"session.pause"}
  PausingHooks = {}
  MaxTools = 1
  MAX_INFERENCE_RETRIES = 1
  Budget <- PauseBudget
PROPERTIES
  PauseHolds
CHECK_DEADLOCK FALSE
