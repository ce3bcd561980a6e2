SPECIFICATION FairSpec
CONSTANTS
  Workers = {w1, w2}
  Conns = {c1, c2}
  Fds = {f1, f2}
  NoFd = NoFd
  NoConn = NoConn
  ListenFd = ListenFd
  MaxClients = 1
  Backlog = 0
  Chunks = 2
  SndBuf = 1
  MaxFaults = 1
PROPERTIES EveryDownloadEnds EveryDownloadCompletes SlotsComeBack
CHECK_DEADLOCK FALSE
