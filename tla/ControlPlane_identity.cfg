SPECIFICATION Spec
CONSTANTS
  HostSessions = {1, 2}
  Displays = {1}
  MaxMonitors = 2
  MaxPool = 1
  Settings = {"sdr"}
  Serial = TRUE
  AdapterLoss = TRUE
  MaxAge = 3
  MaxEpoch = 1
  MaxQueue = 2
INVARIANTS TypeOK LiveKeepsConnector RoomBelowCap OneMonitorPerConnector ShellFollowsTable
PROPERTY RestartKeepsIdentities
