\* Every configuration, three inputs, two turns, two tool calls.
CONSTANTS
  Inputs = {m1, m2, m3}
  MaxTurns = 2
  MaxCalls = 2
  MaxPrompts = 1
  ToolModes = {"sequential", "parallel"}
  StopRules = {"absent", "no_tools", "any"}
  QueueModes = {"one-at-a-time", "all"}
  PersistModes = {TRUE, FALSE}
SYMMETRY InputSymmetry
SPECIFICATION Spec
INVARIANTS
  TypeOK
  EveryCallAnsweredOnce
  NotRunMeansNotRun
  OnlyCutOffToolsGoOn
PROPERTIES
  InputsKept
  OnlyLateInputsWait
\* A run may be over and the client have nothing more to say.
CHECK_DEADLOCK FALSE
