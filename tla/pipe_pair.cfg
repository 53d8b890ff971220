SPECIFICATION FairSpec
CONSTANTS
  PIPE_BUF_SIZE = 3
  Proc <- MCPair
  Ends <- MCPairEnds
  MaxRead = 3
  MaxWrite = 5
  MaxSent = 10
INVARIANTS
  BlockedOnlyByOversized
PROPERTIES
  ReaderServed
  WriterServed
  FifoSpec
CHECK_DEADLOCK FALSE
