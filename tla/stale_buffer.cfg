SPECIFICATION Spec
CONSTANTS
  Fd = {5, 6}
  ServerListen = 3
  ClientListen = 4
  Frames = {"UNKNOWN"}
  MaxList = 2
  HasLocalIp = TRUE
INVARIANT CommandRunsForItsSender
