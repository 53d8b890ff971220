CONSTANTS
  SECTOR = 3
  WORD = 32
  NSECTORS = 6
  Mbr <- MCMbr
  MaxBytes = 8
  KBD_BUFFER_SIZE = 3
  Boards <- MCBoards
  MaxEvents = 6
  MaxRead = 2
SPECIFICATION DevSpec
INVARIANTS
  BytesAtHome
  KeysInOrder
PROPERTIES
  PositionFollows
  RingKeeps
CHECK_DEADLOCK FALSE
