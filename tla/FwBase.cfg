CONSTANTS
  Harts = {0, 1, 2}
  Builds <- MCBuilds
  MemEnd = 92
  ImageLen = 12
  BssEnd = 14
  FwLen = 16
  StackSize = 4
  ScratchSize = 3
  Pointer = 2
  Sizes = {0, 1, 2, 3}
  FdtLen = 3
  InOrder = TRUE
  BufMax = 2
  None = none
SPECIFICATION FairSpec
INVARIANT TypeOK RunsIntactCode ScratchReady FdtIntact AllocsSound
PROPERTY EveryHartArrives
CHECK_DEADLOCK FALSE
