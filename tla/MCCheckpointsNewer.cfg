\* One tool call and a user who edits the file after it.
CONSTANTS
  Files = {f}
  Contents = {a, b}
  Absent = absent
  Unrecorded = unrecorded
  Large = {}
  Oversize = {}
  Calls = {c1}
  Clients = {k1}
  Modes = {"sequential"}
SPECIFICATION Spec
PROPERTIES
  RestoreRefusesNewerContent
CHECK_DEADLOCK FALSE
