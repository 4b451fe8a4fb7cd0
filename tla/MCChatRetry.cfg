SPECIFICATION ChatSpec
CONSTANTS
  Terminals = {cli}
  SessionNames = {main}
  Default = main
  NoSession = none
  MaxRuns = 3
  MaxShelf = 8
  MaxResave = 3
INVARIANT RetryKeepsTheContext
CHECK_DEADLOCK FALSE
