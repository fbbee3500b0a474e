SPECIFICATION Spec
CONSTANTS
  x = x
  y = y
  Modes = {x, y}
  Supersets <- OneOrTwo
  Objects = {h1, h2}
  None = None
  LateEffects = FALSE
  MaxModes = 2
  MaxSeq = 2
  MaxQueue = 3
  MaxEpoch = 1
  MaxDucks = 1
INVARIANTS InForceIsTruthful AlwaysActivatable RefusalIsTrue
PROPERTIES NotDestroyedInCall EveryUpdateSettles
