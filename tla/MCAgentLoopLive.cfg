\* Two runs of one agent; liveness, hence no symmetry.
CONSTANTS
  Inputs = {m1, m2, m3}
  MaxTurns = 1
  MaxCalls = 2
  MaxPrompts = 2
  ToolModes = {"sequential", "parallel"}
  StopRules = {"absent", "no_tools"}
  QueueModes = {"all"}
  PersistModes = {TRUE, FALSE}
SPECIFICATION FairSpec
PROPERTIES
  RunEnds
  ContextGrowsOrIsCut
CHECK_DEADLOCK FALSE
