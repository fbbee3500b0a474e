SPECIFICATION Spec
CONSTANTS
  s1 = s1
  s2 = s2
  g1 = g1
  g2 = g2
  Sessions = {s1, s2}
  Luids = {g1, g2}
  Placements <- OneOrTwoGpus
  DuckModes = {"device", "display"}
  MaxCycles = 1
  MaxResets = 1
  MaxEpoch = 1
  MaxRequests = 1
INVARIANTS DuckOwnsItsState GoodExitStrandsNone
PROPERTIES HealthyAdapterKept EveryDuckEnds
CHECK_DEADLOCK FALSE
