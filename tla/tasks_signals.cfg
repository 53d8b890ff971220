SPECIFICATION Spec
CONSTANTS
  MAX_TASKS = 3
  TIME_SLICE = 1
  MaxSleep = 1
  Workload <- MCSignals
INVARIANTS
  ExitInv
