SPECIFICATION FairSpec
CONSTANTS
  MAX_TASKS = 4
  TIME_SLICE = 2
  MaxSleep = 1
  Workload <- MCLifeCycle
INVARIANTS
  ZombieOnlyIfOrphan
PROPERTIES
  ReapedOnceByParent
  WaitpidReturns
