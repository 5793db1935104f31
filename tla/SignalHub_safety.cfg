CONSTANTS
  Conn = {c1, c2, c3}
  Room = {r1, r2}
  None = None
  Chatty = {c1}
  MaxSend = 1
SPECIFICATION FairSpec
CHECK_DEADLOCK FALSE
INVARIANTS LiveHoldsSlot SlotIsServed RoomsReclaimed PairAnnounced SameRoom
PROPERTY SlotFreed
