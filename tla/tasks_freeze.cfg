SPECIFICATION FairSpec
CONSTANTS
  MAX_TASKS = 3
  TIME_SLICE = 2
  MaxSleep = 1
  Workload <- MCShellSleep
PROPERTIES
  SleepersWake
