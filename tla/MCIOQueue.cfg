SPECIFICATION FairSpec
CONSTANTS
  w1 = w1
  w2 = w2
  Writers <- MCOneWriter
  HasEofJudger = TRUE
  WriteTicks = 1
  WriteTicksNext = 1
  CloseTicks = 1
  MaxData = 2
  MaxCloses = 2
INVARIANTS TypeOK StrandedOnlyByRace ClosingIsTimed
PROPERTIES ClosingEnds SilenceIsReported
CHECK_DEADLOCK FALSE
