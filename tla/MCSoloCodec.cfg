SPECIFICATION Spec
CONSTANTS
  ByteBits = 4
  MAX_ARITHM_BYTES = 80
  MAX_PULSES_TABLE <- MCMaxPulsesTable
  RateLevelsCDF <- MCRateLevelsCDF
  RateLevelsBits <- MCRateLevelsBits
  PulsesPerBlockCDF <- MCPulsesPerBlockCDF
  PulsesPerBlockBits <- MCPulsesPerBlockBits
  ShellCDF <- MCShellCDF
  SignCDF <- MCSignCDF
  Frames <- MCFrames
  HighBands <- MCHighBands
  FrameLength = 16
  Unit = 16
  LPC_ORDER = 2
  LTP_ORDER = 3
  DECISION_DELAY = 4
  RandBits = 4
  RandMul = 5
  RandAdd = 3
  Lambda = 12
  JointLambda = 22
  Penalty = 16777216
  QuantOffset <- MCQuantOffset
  Gains <- MCGains
  DeltaGains <- MCDeltaGains
  NLSFs <- MCNLSFs
  NLSF2A <- MCNLSF2A
  MinLag <- MCMinLag
  LagContours <- MCLagContours
  LTPTaps <- MCLTPTaps
  LTPScales <- MCLTPScales
  GainCDF <- MCGainCDF
  DeltaGainCDF <- MCDeltaGainCDF
  MDDeltaGainCDF <- MCMDDeltaGainCDF
  N_LEVELS_QGAIN = 4
  MIN_DELTA_GAIN_QUANT <- MCMinDelta
  MAX_DELTA_GAIN_QUANT = 2
  NLSF_CB <- MCNLSF_CB
  PitchLagCDF <- MCPitchLagCDF
  PitchContourCDF <- MCPitchContourCDF
  LTPGainCDF <- MCLTPGainCDF
  HBWidths <- MCHBWidths
  FS_INDEX = 0
  UseMDIndex = FALSE
  SimulateLoss = TRUE
  MaxPackets = 2
INVARIANTS EveryPacketDecodes HeardIsSaid InStep
CHECK_DEADLOCK FALSE
