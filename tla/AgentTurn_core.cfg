SPECIFICATION Spec
CONSTANTS
  Messages = {m1, m2}
  Operator = Operator
  Loop = Loop
  HasCallLog = TRUE
  HasDebounceCallback = FALSE
  Operations = {"session.pause", "agents.resume"}
  PausingHooks = {"afterInference", "beforeToolCall", "afterToolCall"}
  MaxTools = 2
  MAX_INFERENCE_RETRIES = 1
  Budget <- CoreBudget
SYMMETRY MessageSymmetry
INVARIANTS
  StatusMatchesToolCalls
  RequestsPaired
  NoLostWakeup
PROPERTIES
  ReplyFollowsItsRequest
  ConsumedOnceCommitted
CHECK_DEADLOCK FALSE
