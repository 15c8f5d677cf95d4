CONSTANTS
  w1 = w1
  w2 = w2
  c1 = c1
  c2 = c2
  Bitfile = Bitfile
  Blinky = Blinky
  EthTest = EthTest
  LwipTest = LwipTest
  Words <- TwoWords
  Versions <- Programs
  Powered = Bitfile
  Full = 15
  Gap = 1
  Base = 3
  BufSize = 2
  ClearReads = 4
  Frames <- SomeFrames
  Leftovers <- HalfFrames
  RxDepth = 5
  TxDepth = 4
  EmptyRead = {0}
  TestFrame <- OneByte
  Phys <- Links
  Conns <- TwoConns
  Room = 3
  Wnd = 4
  Bufs <- SomeBufs
  Rest = {0, 2}
  Polls = 2
SPECIFICATION BoardSpec
INVARIANTS ComesUpRunning LaterStartsRun PressActsOnce FramesWhole SharedBuffer LineEndWaits WindowAccounts
PROPERTIES NoWriteUnderCpu LineHandedOver LinkTold
