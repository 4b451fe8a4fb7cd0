\* A run of two turns of up to two tool calls, with a user who answers; a service of
\* two tasks and three lines.
CONSTANTS
  MaxTurns = 2
  MaxCalls = 2
  Runs = {r1, r2}
  MaxLines = 3
SPECIFICATION HostSpec
INVARIANTS
  TypeOK
  StoppedNeverSucceeds
  RequestsWaitForTheRun
  IdleMeansOver
PROPERTIES
  StoppedAsksNoMore
  TaskEnds
  WaitEndsOrUserIsAsked
\* The process is gone and its record final.
CHECK_DEADLOCK FALSE
