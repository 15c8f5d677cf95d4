SPECIFICATION BenchSpec
CONSTANTS
  ArgLists <- CommandLines
  Regions <- Memory
  RamSize = 8
  Drives <- OneAtATime
  DelayStart = 3
INVARIANTS
  ProgramRuns
  WavesClosed
PROPERTIES
  SamplesBefore
  WavesAgree
  CpuStarted
CHECK_DEADLOCK FALSE
