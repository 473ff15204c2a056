SPECIFICATION FairSpec
CONSTANTS
  Preamble <- MCPreamble
  Audio <- MCAudio
  End <- MCEnd
  Copies = 1
  MinThreshold = 2
  Estimates <- MCEstimates
  IntMax = 1000
INVARIANTS
  TypeOK
  InOrderUnlessLate
  EndedIsFlushed
PROPERTY EndedIsPlayed
CHECK_DEADLOCK FALSE
