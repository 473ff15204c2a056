SPECIFICATION FairSpec
CONSTANTS
  voice = voice
  end = end
  stray = stray
  Packets <- MCPackets
  SsrcOf <- MCSsrcOf
  Marked <- MCMarked
  Bare <- MCBare
  Ids = {1}
  Me = 1
  Exclusive = {}
  CacheSize = 2
  MaxRaises = 1
  MaxTalks = 1
  None = None
PROPERTY ReleaseReturns
CHECK_DEADLOCK FALSE
