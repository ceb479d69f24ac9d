\* Both servers: two connections whose peers send, end and reset, two pool
\* threads or the one receiver, and an application that closes and stops.  Or two
\* named clients of an IPC server.
SPECIFICATION ServersSpec
CONSTANTS
  Kinds = {"tcp", "unix"}
  Conn = {c1, c2}
  FD = {1, 2}
  Worker = {w1, w2}
  Receiver = r
  MaxPieces <- Pieces
  Ends = {"shut", "reset"}
  AppCalls = {"closeClient", "stopServer"}
  None = None
  IpcServer = server
  MaxSent = 2
  MaxConns = 3
  MaxEnds = 2
INVARIANTS
  TypeOK
  EntriesAreOpen
  CallbacksAreTrue
  HandedWhole
  
SYMMETRY Symmetric
CHECK_DEADLOCK FALSE
