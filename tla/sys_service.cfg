SPECIFICATION FairSvcSpec
CONSTANTS
  Fd = {4, 5}
  ListenSock = 3
  Std = {0}
  Stray = {0, 5}
  Peer = {p1, p2}
  Requests = {"SYS_LONG"}
  MaxLines = 2
INVARIANTS
  SvcTypeOK
  WatchesConnections
  ClientsAreConnected
  SelectNeverFails
  OnlyAskersAreAnswered
  RequestOfThisRound
  WaitingIsOwed
PROPERTY WaitingEnds
