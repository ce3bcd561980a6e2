SPECIFICATION Spec
CONSTANTS
  Conns = {c1, c2, c3}
  NoConn = NoConn
  Backlog = 1
  Chunks = 3
  SndBuf = 2
  MaxOpen = 2
  MaxFaults = 1
  Wmem = 0
  FALLBACK_SEND_CHUNK_SIZE = 2
SYMMETRY Symmetry
INVARIANTS OffsetsMatch OneTaskPerSocket
PROPERTIES ImplementsTransfer
CHECK_DEADLOCK FALSE
