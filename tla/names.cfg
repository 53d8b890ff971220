CONSTANTS
  NINODES = 11
  MAX_ENTRIES = 3
  MAX_DIRS = 3
  MAX_SYMLINKS = 2
  MAX_MOUNTS = 3
  MAX_FOLLOW = 0
  Devices <- MCDevices
  Targets <- MCTargets
  Moves <- MCMoves
  MaxTrail = 7
  Workloads <- MCMixes
SPECIFICATION Spec
INVARIANTS
  NamesInv
  ResolversAgree
  CwdIsWhereWeWent
PROPERTIES
  UnmountUncovers
  OthersStay
CHECK_DEADLOCK FALSE
