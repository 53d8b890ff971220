SPECIFICATION FairSpec
CONSTANTS
  MAX_TASKS = 3
  TIME_SLICE = 2
  MaxSleep = 2
  Workload <- MCSleep
PROPERTIES
  SpinsOnlyWhenIdle
  SleepersWakeOrFreeze
  ReadyRuns
