SPECIFICATION Spec
CONSTANTS
  NBLOCKS = 7
  BLOCKS_PG = 4
  NINODES = 5
  INODES_PG = 4
  BSIZE = 12
  NDIRECT = 1
  NameWords <- MCNameWords
  Image <- MCImage
  SymlinkWords <- MCSymlinkWords
  FAST_SYMLINK = 2
  Workloads <- MCMixes
  MaxBlocks = 2
  MaxDepth = 2
  MaxCrashes = 1
INVARIANTS
  DiskInv
  LinksCoverNames
  DirectoriesCounted
  BlocksTiled
  FailureLeavesNoTrace
CHECK_DEADLOCK FALSE
