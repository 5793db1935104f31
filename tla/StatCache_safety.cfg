CONSTANTS
  Path <- Tree
  Nfc <- Form
  Asked <- Requested
  Reader = {a}
  Writer = {w}
  TTL = 1
  MaxTime = 1
SPECIFICATION Spec
CHECK_DEADLOCK FALSE
INVARIANTS BoundedStaleness PropfindSeesChange
