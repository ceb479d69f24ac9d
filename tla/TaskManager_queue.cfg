\* Two tasks, one in protected mode, handlers that send on, messages to a name, to a
\* wildcard, with and without an answer, and stops with and without force.
SPECIFICATION Spec
CONSTANTS
  Task = {t1, t2}
  Caller = {c1, c2}
  Nobody = Nobody
  MsgId = {plain, relay}
  RelayId = {relay}
  Protected = {t2}
  Listened = {plain}
  MaxSent = 2
  MaxCreate = 2
  Reply = Reply
  NoReply = NoReply
SYMMETRY Symmetric
INVARIANTS
  TypeOK
  InOrderOnce
  DestroyedTaskIsQuiet
CHECK_DEADLOCK FALSE
