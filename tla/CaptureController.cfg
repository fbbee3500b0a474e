SPECIFICATION FairSpec
CONSTANTS
  DdaEnabled = TRUE
  InitialBackoff = 1
  MaxBackoff = 3
  StableFrames = 2
  LateRungs = FALSE
  MaxGen = 2
INVARIANTS OneProbe LadderIsWorked WgcAccounted
PROPERTIES RelapseProbesSoon TeardownIsEarned TripEnds DirectIsRestored DeadRingIsLeft
