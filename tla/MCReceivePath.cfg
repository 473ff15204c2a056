SPECIFICATION FairSpec
CONSTANTS
  voice = voice
  end = end
  stray = stray
  Packets <- MCPackets
  SsrcOf <- MCSsrcOf
  Marked <- MCMarked
  Bare <- MCBare
  Ids = {1, 2}
  Me = 1
  Exclusive = {1}
  CacheSize = 2
  MaxRaises = 2
  MaxTalks = 1
  None = None
INVARIANTS TypeOK NothingFreedInUse OneOwner
PROPERTY PacketIsHandled
CHECK_DEADLOCK FALSE
