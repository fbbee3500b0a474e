SPECIFICATION FairSpec
CONSTANTS
  HostSessions = {1}
  Displays = {1}
  MaxMonitors = 2
  MaxPool = 2
  Settings = {"sdr", "hdr"}
  Serial = TRUE
  AdapterLoss = FALSE
  MaxAge = 2
  MaxEpoch = 1
  MaxQueue = 1
INVARIANT PoolIsTruthful
PROPERTY PoolIsKept
PROPERTIES AbandonedIsReaped GoneDeparts
