\* What a successful wait tells its caller: only replies with bytes are posted,
\* so a client that is woken should find the bytes of its own reply.
SPECIFICATION Spec
CONSTANTS
  Client = {c1, c2}
  Canceller = {}
  Payload = {r1}
  NoReply = NoReply
  Sem = {s1, s2}
  NoSem = NoSem
  UUIDMax = 2
  FixedUUID = {}
  SemCount = {}
  CacheMax = 2
  SemValueMax = 1
INVARIANT
  WokenByOwnReply
