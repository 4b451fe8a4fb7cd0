\* Parallel tools and one steering message.
CONSTANTS
  Inputs = {m1, m2}
  MaxTurns = 1
  MaxCalls = 2
  MaxPrompts = 1
  ToolModes = {"parallel"}
  StopRules = {"no_tools"}
  QueueModes = {"all"}
  PersistModes = {FALSE}
SPECIFICATION Spec
INVARIANTS
  SkippedMeansNotRun
CHECK_DEADLOCK FALSE
