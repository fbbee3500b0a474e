SPECIFICATION Spec
CONSTANTS
  HostSessions = {1}
  Displays = {1}
  MaxMonitors = 2
  MaxPool = 1
  Settings = {"sdr"}
  Serial = FALSE
  AdapterLoss = FALSE
  MaxAge = 3
  MaxEpoch = 1
  MaxQueue = 1
INVARIANT ShellFollowsTable
