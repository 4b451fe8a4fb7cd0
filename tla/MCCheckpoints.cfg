\* Two requests at the same time, a file that is too large, both tool modes.
CONSTANTS
  Files = {f}
  Contents = {a, big}
  Absent = absent
  Unrecorded = unrecorded
  Large = {big}
  Oversize = {big}
  Calls = {c1, c2}
  Clients = {k1, k2}
  Modes = {"sequential", "parallel"}
SYMMETRY StoreSymmetry
SPECIFICATION Spec
INVARIANTS
  TypeOK
  BaselineHeld
\* The task is over and no request comes.
CHECK_DEADLOCK FALSE
