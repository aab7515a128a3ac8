CONSTANTS
  Xlen = 7
  MinOrder = 3
  PmpShift = 2
  PmpGran = 3
  PmpAddrBits = 5
  RootRegionMax = 6
  FdtRegionMax = 6
  FdtDomainMax = 2
  MaxIndex = 3
  Harts = {0, 1, 2}
  Cold = 0
  Fw <- MCFw
  NextAddr = 8
  Ranges <- MCRanges
  TileMax = 32
  Fdts <- MCFdts
  PmpCount = 4
  None = none
SPECIFICATION FairSpec
INVARIANT TypeOK ChecksSmallest MergeKeepsAccess DevicesProtected BootsOwnDomain PmpAgrees
PROPERTY ColdBootEnds
CHECK_DEADLOCK FALSE
