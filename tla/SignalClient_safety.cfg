CONSTANTS
  Sender = {s1, s2}
  Main = main
  Receiver = receiver
  MaxLosses = 2
SPECIFICATION FairSpec
CHECK_DEADLOCK FALSE
INVARIANTS JoinFirst NoLeak RedialsBounded ClosedForGood
PROPERTIES Reconnects CloseReturns
