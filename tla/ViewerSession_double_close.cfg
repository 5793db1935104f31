CONSTANTS
  MaxEpoch = 2
  Proxy = {p1}
SPECIFICATION Spec
CHECK_DEADLOCK FALSE
INVARIANT NoDoubleClose
