\* Requests as the task module makes them: a fresh uuid each, cancelled by
\* their owner only.  Three requests at once overfill a cache of one, which
\* then deletes a semaphore before the entry that refers to it is erased.
SPECIFICATION Spec
CONSTANTS
  Client = {c1, c2, c3}
  Canceller = {}
  Payload = {r1}
  NoReply = NoReply
  Sem = {s1, s2, s3}
  NoSem = NoSem
  UUIDMax = 4
  FixedUUID = {}
  SemCount = {}
  CacheMax = 1
  SemValueMax = 1
SYMMETRY Symmetric
INVARIANTS
  SemOwnership
  SemLifetime
  AcceptedReplyWakes
