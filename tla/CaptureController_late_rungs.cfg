SPECIFICATION Spec
CONSTANTS
  DdaEnabled = TRUE
  InitialBackoff = 1
  MaxBackoff = 3
  StableFrames = 2
  LateRungs = TRUE
  MaxGen = 3
PROPERTY LadderOnlyInWgc
