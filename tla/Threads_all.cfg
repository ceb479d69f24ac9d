\* Three threads, each of them reader and writer in turn, for ever.  Or three
\* processes that share a name, die at any step and, with the mutex, come back.
\* Or two workers under two names, whose functions may call the manager.
SPECIFICATION ThreadsSpec
CONSTANTS
  Thread = {p, q, r}
  Class = {"mutex", "sem", "condition"}
  Process = {p, q, r}
  MaxIds = 2
  MaxUndo = 2
  Name = {1, 2}
  Owner = {o1}
  MaxWorkers = 2
  Nested = TRUE
INVARIANTS
  TypeOK
  Exclusion
  UndoBalances
  WorkerOutlivesThread
PROPERTIES
  ReadersFirst
  ReaderEnters
  WaitersGoOn
  FinishedIsDeleted
CHECK_DEADLOCK FALSE
