CONSTANTS
  NFRAMES = 20
  NTASKS = 2
  PTSIZE = 3
  NPAGES = 8
  MMAP_BASE = 4
  STACK_SIZE = 1
  MAX_VMA = 2
  ElfFiles <- MCElfFiles
  FirstElf <- MCSmall
  Workloads <- MCMixes
  MaxPages = 2
SPECIFICATION Spec
INVARIANTS
  MemoryInv
  VmasDisjoint
  VmaWalks
  MappedHasVma
  HeapOK
CHECK_DEADLOCK FALSE
