CONSTANTS
  Sender = {s1}
  Main = main
  Receiver = receiver
  MaxLosses = 1
SPECIFICATION Spec
CHECK_DEADLOCK FALSE
INVARIANT NoNilConn
