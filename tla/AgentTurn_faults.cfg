SPECIFICATION Spec
CONSTANTS
  Messages = {m1}
  Operator = Operator
  Loop = Loop
  HasCallLog = TRUE
  HasDebounceCallback = TRUE
  Operations = {"agents.pause", "session.resume", "agents.rewind"}
  PausingHooks = {"onStart", "beforeInference", "onError", "onComplete", "beforeToolCall", "afterToolCall"}
  MaxTools = 1
  MAX_INFERENCE_RETRIES = 1
  Budget <- FaultBudget
INVARIANTS
  TypeOK
  DeliveredOncePerFault
  ScheduledHasWake
PROPERTIES
  ToolRunsUntilRecorded
CHECK_DEADLOCK FALSE
