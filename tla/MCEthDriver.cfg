SPECIFICATION FairSpec
CONSTANTS
  Base = 3
  MaxFrame = 4
  BufSize = 8
  PoolSize = 2
  ClearReads = 4
  Frames <- Received
  RxDepth = 8
  EmptyRead = {0}
  MaxResets = 2
  Wrap = 16
  TxDepth = 9
  Chains <- Passed
  Beyond = {2}
  MaxQueued = 2
INVARIANTS
  FramesWhole
  PoolKept
PROPERTIES
  FramesIntact
  PollsForever
