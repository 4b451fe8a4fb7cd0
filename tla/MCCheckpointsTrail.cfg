\* Three tool calls one after the other, one request at a time.
CONSTANTS
  Files = {f}
  Contents = {a, b}
  Absent = absent
  Unrecorded = unrecorded
  Large = {}
  Oversize = {}
  Calls = {c1, c2, c3}
  Clients = {k1}
  Modes = {"sequential"}
SYMMETRY StoreSymmetry
SPECIFICATION Spec
INVARIANTS
  TrailLeadsBack
CHECK_DEADLOCK FALSE
