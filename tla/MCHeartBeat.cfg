SPECIFICATION FairSpec
CONSTANTS
  server = server
  s1 = s1
  s2 = s2
  Sessions <- MCSessions
  Remotes <- MCRemotes
  RemoteOf <- MCRemoteOf
  Counters = {1, 2}
  None = None
  Interval = 1
  Retries = 1
  Minute = 6
  Quiet = 8
  MaxStarts = 1
INVARIANTS TypeOK FreedOnlyUnderTheWalk BeatsWhileWanted
CHECK_DEADLOCK FALSE
PROPERTY SilenceIsNoticed
