CONSTANTS
  Sig <- MCSig
  Actions <- MCActions
  Masks <- MCMasks
  MaxDepth = 3
  MaxSent = 3
SPECIFICATION FairSpec
INVARIANTS
  SignalsInv
  MaskRestored
  NoReentry
  PlainHandlersReturn
PROPERTIES
  KillKills
CHECK_DEADLOCK FALSE
