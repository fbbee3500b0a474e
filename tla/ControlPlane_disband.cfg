SPECIFICATION Spec
CONSTANTS
  HostSessions = {1}
  Displays = {1}
  MaxMonitors = 2
  MaxPool = 2
  Settings = {"sdr"}
  Serial = TRUE
  AdapterLoss = FALSE
  MaxAge = 3
  MaxEpoch = 1
  MaxQueue = 1
INVARIANT ZeroIsDisbanded
