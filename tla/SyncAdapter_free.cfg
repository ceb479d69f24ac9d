\* Callers outside the ownership rule: uuids used again and shared, a third
\* party that cancels, a cache that is full and resized.
SPECIFICATION Spec
CONSTANTS
  Client = {c1, c2}
  Canceller = {k}
  Payload = {r1, NoReply}
  NoReply = NoReply
  Sem = {s1, s2, s3}
  NoSem = NoSem
  UUIDMax = 1
  FixedUUID = {7}
  SemCount = {2}
  CacheMax = 1
  SemValueMax = 1
SYMMETRY Symmetric
INVARIANT
  TypeOK
PROPERTIES
  AcceptedReplyReturned
  ImplementsRendezvous
