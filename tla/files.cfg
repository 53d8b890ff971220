SPECIFICATION Spec
CONSTANTS
  MAX_TASKS = 2
  VFS_MAX_FD = 2
  VFS_MAX_OPEN_FILES = 4
  PIPE_MAX_PIPES = 2
  STD = 1
  Inode = {tty}
  MaxStray = 1
INVARIANTS
  FilesInv
PROPERTIES
  DescriptorsKeepFiles
  DescSpec
CHECK_DEADLOCK FALSE
