\* One turn of two tool calls, a user who need not answer.
CONSTANTS
  MaxTurns = 1
  MaxCalls = 2
SPECIFICATION FairSpec
PROPERTIES
  StopEndsTheRun
CHECK_DEADLOCK FALSE
