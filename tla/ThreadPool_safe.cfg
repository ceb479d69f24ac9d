\* Two workers, two messages, every stop.
SPECIFICATION Spec
CONSTANTS
  Worker = {w1, w2}
  Pusher = {p}
  Waiter = {p}
  MaxPush = 2
  Min = 1
  Max = 2
  QueueSize = 1
  Nothing = Nothing
SYMMETRY Symmetric
INVARIANTS
  TypeOK
  InOnePlace
  ThreadsAreOwned
CHECK_DEADLOCK FALSE
