SPECIFICATION Spec
CONSTANTS
  PIPE_BUF_SIZE = 2
  Proc <- MCShared
  Ends <- MCSharedEnds
  MaxRead = 1
  MaxWrite = 3
  MaxSent = 3
INVARIANTS
  PipeInv
PROPERTIES
  SleepersRecorded
CHECK_DEADLOCK FALSE
