CONSTANTS
  Request = {r1, r2}
  Owner = {o1}
  Client = {c1, c2}
  Room = {a}
  None = None
SPECIFICATION Spec
CHECK_DEADLOCK FALSE
INVARIANT OneViewer
