SPECIFICATION Spec
CONSTANTS
  From = 1
  To = 3
  Tries = 2
  SPort = 1
  IPort = 3
  MPort = 8
  TPort = 2
  OtherPorts = {}
  MaxQueue = 2
  AskedPort = 1
  Doors = 2
  Sums = {655349}
  Checks = {0, 65535}
INVARIANT ParsedIsChecksum
