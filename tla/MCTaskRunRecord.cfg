\* A run of one turn and a stop from another process.
CONSTANTS
  MaxTurns = 1
  MaxCalls = 1
SPECIFICATION Spec
PROPERTIES
  RecordedVerdictStands
CHECK_DEADLOCK FALSE
