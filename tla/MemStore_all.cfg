\* Two writers of one key in memory, a callback and a task that come and go.  Or
\* two programs that share a file of three keys, one of them called uuid.
\* Or a cache of two entries and four keys.
SPECIFICATION StoresSpec
CONSTANTS
  k1 = k1
  v1 = v1
  Writer = {w1, w2}
  Key = {k1}
  Value = {v1}
  Absent = Absent
  Callback = {c}
  Task = {t}
  ReloadTo <- Reloads
  MaxChanges = 2
  MaxHooks = 3
  Caller = {p, q}
  KvKey = {a, b, uuid}
  ColumnKey = {uuid}
  Empty = Empty
  Nobody = Nobody
  MaxId = 3
  CacheKey = {x, y, z, u}
  MaxSize = 2
INVARIANTS
  TypeOK
  TokensCoverItems
  ListenerConverges
  FlagsTellExistence
  KeepsMostRecent
PROPERTIES
  ImplementsQueue
SYMMETRY Symmetric
CHECK_DEADLOCK FALSE
