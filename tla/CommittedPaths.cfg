SPECIFICATION Spec
CONSTANTS
  Monitors = {a, b}
  Modes = {x, y}
  Empty = Empty
  Modesets = {modeset}
  Power = power
  Worker = worker
  NSlots = 2
  AcquireAttempts = 2
  ReleaseAttempts = 1
  ReadRetries = 2
  MaxGeneration = 2
INVARIANTS ReadIsCurrent RecordIsOneCommit TokenExpires
PROPERTY LossClears
SYMMETRY Alike
