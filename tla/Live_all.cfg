\* One task in protected mode, created twice, whose handler may send to itself
\* while the caller destroys it.  Or a client whose connection ends, whose
\* application asks for another, sends, waits and stops.  Or two threads that
\* wait for replies.  Or a reader over bytes in memory or over a file, and
\* searches one after the other.
SPECIFICATION LiveSpec
CONSTANTS
  Task = {t1}
  Caller = {c1}
  Nobody = Nobody
  MsgId = {plain, relay}
  RelayId = {relay}
  Protected = {t1}
  Listened = {plain, relay}
  MaxSent = 2
  MaxCreate = 2
  Reply = Reply
  NoReply = NoReply
  ClientKinds = {"tcp", "unix"}
  MaxEnds = 2
  MaxAsks = 1
  MaxSends = 1
  Requester = {c1, c2}
  Sem = {s1, s2}
  NoSem = NoSem
  UUIDMax = 3
  CacheMax = 1
  SemValueMax = 1
  Backings = {"memory", "file"}
  a = a
  b = b
PROPERTIES
  WorkGoesOn
  ClientRecovers
  AcceptedReplyReturns
  SearchIsRight
CHECK_DEADLOCK FALSE
