SPECIFICATION FairServerSpec
CONSTANTS
  Fd = {5, 6}
  ServerListen = 3
  ClientListen = 4
  Frames = {}
  MaxList = 2
  HasLocalIp = TRUE
  Group = {""}
  Text = {"t1"}
  Unnamed = ""
PROPERTIES
  KeepAliveWhileHealthy
  UpdatesReachAll
