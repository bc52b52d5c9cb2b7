SPECIFICATION FairSpec
CONSTANTS
  Messages = {m1, m2}
  Operator = Operator
  Loop = Loop
  HasCallLog = TRUE
  HasDebounceCallback = FALSE
  Operations = {"agents.pause", "agents.resume"}
  PausingHooks = {}
  MaxTools = 1
  MAX_INFERENCE_RETRIES = 1
  Budget <- LivenessBudget
PROPERTIES
  MessagesAreHandled
CHECK_DEADLOCK FALSE
