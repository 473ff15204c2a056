SPECIFICATION FairSpec
CONSTANTS
  private = private
  file1 = file1
  file2 = file2
  Streams <- MCStreams
  Files <- MCFiles
  Nobody = Nobody
  Normal = 0
  PermitOf <- MCPermitOf
  RoundLimit = 1
  MaxCalls = 2
PROPERTIES NobodyPlaysForEver EndedIsReleased FileIsReleased
INVARIANTS TypeOK ReferencesLive PlayerHeldByActive
CHECK_DEADLOCK FALSE
