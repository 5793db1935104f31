CONSTANTS
  MaxEpoch = 2
  Proxy = {}
SPECIFICATION EscSpec
CHECK_DEADLOCK FALSE
INVARIANT OneFailureIsNotEnough
