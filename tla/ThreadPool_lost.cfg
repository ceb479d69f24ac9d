\* One worker that sleeps through the notification.
SPECIFICATION FairSpec
CONSTANTS
  Worker = {w1}
  Pusher = {p}
  Waiter = {}
  MaxPush = 1
  Min = 1
  Max = 1
  QueueSize = 1
  Nothing = Nothing
PROPERTY
  EveryMessageHandled
CHECK_DEADLOCK FALSE
