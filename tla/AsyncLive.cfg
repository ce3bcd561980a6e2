SPECIFICATION FairSpec
CONSTANTS
  Conns = {c1, c2}
  NoConn = NoConn
  Backlog = 0
  Chunks = 3
  SndBuf = 2
  MaxOpen = 1
  MaxFaults = 2
  Wmem = 0
  FALLBACK_SEND_CHUNK_SIZE = 2
PROPERTIES DownloadsEnd SocketsComeBack
CHECK_DEADLOCK FALSE
