SPECIFICATION FairSpec
CONSTANTS
  Conns = {c1, c2}
  NoConn = NoConn
  Backlog = 1
  Chunks = 2
  SndBuf = 1
  MaxOpen = 1
  MaxFaults = 0
PROPERTIES EveryDownloadCompletes
CHECK_DEADLOCK FALSE
