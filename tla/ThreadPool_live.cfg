\* Two workers and a message under fair scheduling.  Or two connections of a
\* server with one reader.
SPECIFICATION PoolsSpec
CONSTANTS
  Worker = {w1, w2}
  Pusher = {p}
  Waiter = {}
  MaxPush = 1
  Min = 2
  Max = 2
  QueueSize = 1
  Nothing = Nothing
  ServerWorker = {w1}
  Kinds = {"tcp", "unix"}
  Conn = {c1, c2}
  FD = {1, 2}
  Receiver = r
  Ends = {"shut", "reset"}
  AppCalls = {}
  None = None
PROPERTIES
  PoolGoesOn
  EventsAreServed
CHECK_DEADLOCK FALSE
