SPECIFICATION ServerSpec
CONSTANTS
  Fd = {5}
  ServerListen = 3
  ClientListen = 4
  Frames = {"FETCH_MSG/2", "SEND_MSG/3", "KEEPALIVE+"}
  MaxList = 2
  HasLocalIp = FALSE
  Group = {"g1", ""}
  Text = {"t1"}
  Unnamed = ""
INVARIANT ServerTypeOK
