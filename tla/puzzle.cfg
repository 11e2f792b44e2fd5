SPECIFICATION FairSpec
CONSTANTS
  From = 1
  To = 4
  Tries = 2
  SPort = 1
  IPort = 3
  MPort = 8
  TPort = 2
  OtherPorts = {4}
  MaxQueue = 1
  AskedPort = 1
  Doors = 2
  Sums = {655349}
  Checks = {0, 65535}
INVARIANTS
  TypeOK
  PortsAreRight
  SuccessIsEarned
  ForgedIsAccepted
PROPERTY EndsWhenFound
