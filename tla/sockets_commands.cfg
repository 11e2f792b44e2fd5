SPECIFICATION Spec
CONSTANTS
  Fd = {5, 6}
  ServerListen = 3
  ClientListen = 4
  Frames = {"LEAVE", "CONNECT/3", "SERVERS"}
  MaxList = 2
  HasLocalIp = TRUE
INVARIANTS
  TypeOK
  MonitorsConnections
  SelectCoversAll
  SelectNeverFails
  AcceptedIsListed
  BufferFromThisRound
