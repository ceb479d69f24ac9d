----------------------------- MODULE MCThreads -----------------------------
(***************************************************************************)
(* Small instances of what threads and processes synchronise with:         *)
(* ComMutex among threads; the semaphores that ComProcessMutex,            *)
(* ComProcessSem and ComProcessCondition share among processes; and the    *)
(* named threads of ComWorkerManager.  They share no state: a behaviour is *)
(* one of the one or of the other.  At the start none of their fair        *)
(* actions is enabled, so the fairness of one does not constrain another.  *)
(***************************************************************************)
EXTENDS ComMutex

CONSTANTS Class, Process, MaxIds, MaxUndo,
          Name, Owner, MaxWorkers, Nested

\* Processes come back where the lock must survive that.
MaxInits == [mutex |-> 2, sem |-> 1, condition |-> 1]

VARIABLES
  among,   \* "threads", "processes" or "workers"
  class, id, ids, value, waiting, adjust, handle, at, count, seen, inits, base, disturbed,
  workers, mutex_workers, object, deleted, wrunning, wthread, requests, rrunning,
  wat, want, target, life, destroyed

P == INSTANCE ProcessSync
W == INSTANCE WorkerManager WITH at <- wat

ASSUME ProcessAssumption == IsFiniteSet(Process)
ASSUME WorkerAssumption == W!WorkerConstants

processVars == <<class, id, ids, value, waiting, adjust, handle, at, count, seen, inits,
                 base, disturbed>>
managerVars == <<workers, mutex_workers, object, deleted, wrunning, wthread, requests,
                 rrunning, wat, want, target, life, destroyed>>

\* One class is enough where the processes do not move.
ThreadsInit ==
  /\ among \in {"threads", "processes", "workers"}
  /\ Init /\ P!Init /\ W!Init
  /\ among # "processes" => class = "mutex"

ThreadsNext ==
  \/ among = "threads" /\ Next /\ UNCHANGED <<among, processVars, managerVars>>
  \/ among = "processes" /\ P!Next /\ UNCHANGED <<among, vars, managerVars>>
  \/ among = "workers" /\ W!Next /\ UNCHANGED <<among, vars, processVars>>

ThreadsSpec ==
  /\ ThreadsInit
  /\ [][ThreadsNext]_<<among, vars, processVars, managerVars>>
  /\ Fairness
  /\ P!Fairness
  /\ W!Fairness

\* ComProcessMutex, ComProcessSem: SEM_UNDO keeps the books when processes die.
UndoBalances == P!UndoBalances

\* ComProcessMutex, ComProcessCondition: a process that waits for the lock gets it
\* although holders die, and a notification reaches everybody it counted.
WaitersGoOn == P!WaitersGoOn

\* ComWorkerManager: a ComWorker is deleted once, after its thread has ended, and
\* stopped only for a reason.
WorkerOutlivesThread == W!WorkerOutlivesThread

\* ComWorkerManager: a finished worker is deleted unless the manager is stuck.
FinishedIsDeleted == W!FinishedIsDeleted
=============================================================================
