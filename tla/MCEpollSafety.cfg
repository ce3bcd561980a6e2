SPECIFICATION Spec
CONSTANTS
  Workers = {w1, w2}
  Conns = {c1, c2, c3}
  Fds = {f1, f2}
  NoFd = NoFd
  NoConn = NoConn
  ListenFd = ListenFd
  MaxClients = 3
  Backlog = 2
  Chunks = 2
  SndBuf = 2
  MaxFaults = 2
SYMMETRY Symmetry
INVARIANTS TypeOK InOrder OffsetsMatch OneSlotPerFd EventsFresh EofMeansComplete ReleasedInOrder
PROPERTIES ImplementsTransfer
CHECK_DEADLOCK FALSE
