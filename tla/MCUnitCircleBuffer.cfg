SPECIFICATION Spec
CONSTANTS
  Samples <- MCSamples
  Silence = 0
  Unit = 2
  Units = 3
  MaxBlock = 3
INVARIANT TypeOK
PROPERTY ImplementsFifo
