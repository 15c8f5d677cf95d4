CONSTANTS
  w1 = w1
  w2 = w2
  Bitfile = Bitfile
  Blinky = Blinky
  LwipTest = LwipTest
  Words <- TwoWords
  Versions <- Programs
  Powered = Bitfile
  Full = 15
  Gap = 2
SPECIFICATION Spec
INVARIANT LoadedProgramRuns
