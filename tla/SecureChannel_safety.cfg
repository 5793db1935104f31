CONSTANTS
  InCap = 2
  MaxFrames = 3
SPECIFICATION FairSpec
CHECK_DEADLOCK FALSE
INVARIANT Watched
PROPERTIES NoSpuriousEnd HandshakeEnds EndsTogether ReadLoopEnds Delivered ImplementsPipe
