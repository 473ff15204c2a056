SPECIFICATION FairSpec
CONSTANTS
  PrevPackets = 1
  EndPackets = 1
  CloseTicks = 1
  MaxVoice = 1
  MaxTalks = 2
  MaxStops = 2
INVARIANTS TypeOK UsersOutlived CleanCloseSentTheEnd RecorderReturned
PROPERTIES StopReleases
CHECK_DEADLOCK FALSE
