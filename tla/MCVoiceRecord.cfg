SPECIFICATION Spec
CONSTANTS
  Stale = 170
  BufferSize = 16
  SSRC = 84281096
  ExternData <- MCExternData
  VoiceTypes = {96, 98}
  Packages <- MCPackages
  Times <- MCTimes
  MaxPackets = 3
  MaxTransactions = 2
INVARIANTS ReceivedAsSent RecordedIsSpoken PlayedIsRecorded
CHECK_DEADLOCK FALSE
