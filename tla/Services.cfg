SPECIFICATION FairSpec
CONSTANTS
  MaxProcesses = 2
  MAX_PORT_CONFLICT_RETRIES = 1
  MaxRestartRetries = 1
  MaxUpsets = 1
INVARIANTS
  OneProcess
  SurvivorsAreRecorded
  ClosedIsEmpty
PROPERTIES
  TransitionsEnd
CHECK_DEADLOCK FALSE
