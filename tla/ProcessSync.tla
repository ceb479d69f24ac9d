---------------------------- MODULE ProcessSync ----------------------------
(***************************************************************************)
(* ComProcessMutex, ComProcessSem and ComProcessCondition (com_thread.cpp, *)
(* Linux): each is one System V semaphore under a key made from its name,  *)
(* and every operation undoes itself when its process ends (SEM_UNDO).     *)
(*                                                                         *)
(* The kernel's half is as the code uses it: a semaphore keeps a value, a  *)
(* queue of blocked processes that is served in order whenever the value   *)
(* grows, and an adjustment per process that is added to the value, which  *)
(* stops at 0, when the process ends.  SETVAL clears the adjustments;      *)
(* IPC_RMID ends all waits.  A process may end before any of its steps.    *)
(***************************************************************************)
EXTENDS Integers, Sequences, FiniteSets

CONSTANTS
  Class,     \* the classes checked: "mutex", "sem", "condition"
  Process,
  MaxInits,  \* bound: calls of init by each process, for each class
  MaxIds,    \* bound: semaphores created under the name
  MaxUndo    \* bound: operations of a process that its death would undo

VARIABLES
  class,       \* which class this is
  id,          \* the semaphore of the name, 0 for none
  ids,         \* semaphores created so far
  value,       \* its value
  waiting,     \* the processes blocked in semop, in order
  adjust,      \* each process's adjustment
  handle,      \* each process's member sem, mutex or cond, 0 for none
  at,          \* where a process is
  count,       \* notify: the tokens it will post
  seen,        \* history: the waiters GETNCNT counted that still wait
  inits,       \* calls of init so far
  base,        \* history: the value of the last SETVAL, 0 before
  disturbed    \* history: a SETVAL met operations in progress, or an
               \* adjustment was cut off at 0

syncVars == <<class, id, ids, value, waiting, adjust, handle, at, count, seen, inits, base,
              disturbed>>

Init ==
  /\ class \in Class
  /\ id = 0 /\ ids = 0
  /\ value = 0 /\ waiting = <<>>
  /\ adjust = [p \in Process |-> 0]
  /\ handle = [p \in Process |-> 0]
  /\ at = [p \in Process |-> "off"]
  /\ count = [p \in Process |-> 0]
  /\ seen = [p \in Process |-> {}]
  /\ inits = [p \in Process |-> 0]
  /\ base = 0 /\ disturbed = FALSE

Valid(p) == id # 0 /\ handle[p] = id
Waiters == {waiting[i] : i \in 1 .. Len(waiting)}
Holders == {p \in Process : at[p] = "inside" /\ Valid(p)}
Got == IF class = "mutex" THEN "inside" ELSE "ready"
AtMost(a, b) == IF a < b THEN a ELSE b
Goto(p, label) == at' = [at EXCEPT ![p] = label]

\* The value becomes v and the first processes of the queue q get what they wait
\* for; adjustments and places of all others are adj and where.
Settle(v, q, adj, where) ==
  LET k == AtMost(v, Len(q))
      granted == {q[i] : i \in 1 .. k}
  IN /\ value' = v - k
     /\ waiting' = SubSeq(q, k + 1, Len(q))
     /\ adjust' = [p \in Process |-> IF p \in granted THEN adj[p] + 1 ELSE adj[p]]
     /\ at' = [p \in Process |-> IF p \in granted THEN Got ELSE where[p]]

\* A counted process that is granted or leaves no longer waits for that notification.
StillSeen(W) == seen' = [p \in Process |-> seen[p] \cap W]
QueueSet(q) == {q[i] : i \in 1 .. Len(q)}

\* The queue without p, which is in it once.
Without(p) ==
  LET i == CHOOSE i \in 1 .. Len(waiting) : waiting[i] = p
  IN SubSeq(waiting, 1, i - 1) \o SubSeq(waiting, i + 1, Len(waiting))

-----------------------------------------------------------------------------
\* init: look up, create, and set the value, as three system calls.

initLookup(p) ==
  /\ at[p] = "off"
  /\ inits[p] < MaxInits[class]
  /\ inits' = [inits EXCEPT ![p] = @ + 1]
  /\ handle' = [handle EXCEPT ![p] = id]
  /\ Goto(p, IF id # 0 THEN "ready" ELSE "create")
  /\ UNCHANGED <<class, id, ids, value, waiting, adjust, count, seen, base, disturbed>>

\* semget(IPC_CREAT): makes the semaphore with value 0, or opens another's.
initCreate(p) ==
  /\ at[p] = "create"
  /\ IF id # 0
     THEN /\ handle' = [handle EXCEPT ![p] = id]
          /\ UNCHANGED <<id, ids, value, base, disturbed>>
     ELSE /\ ids < MaxIds
          /\ id' = ids + 1 /\ ids' = ids + 1
          /\ handle' = [handle EXCEPT ![p] = ids + 1]
          /\ value' = 0 /\ base' = 0 /\ disturbed' = FALSE
  /\ Goto(p, IF class = "condition" THEN "ready" ELSE "setval")
  /\ UNCHANGED <<class, waiting, adjust, count, seen, inits>>

SetValue(v, where) ==
  /\ Settle(v, waiting, [q \in Process |-> 0], where)
  /\ base' = v
  /\ disturbed' = (disturbed \/ \E q \in Process : adjust[q] # 0)

\* semctl(SETVAL, 1): the mutex always, the semaphore with an init_val (of 1).
initSetval(p) ==
  /\ at[p] = "setval"
  /\ IF Valid(p)
     THEN SetValue(1, [at EXCEPT ![p] = "ready"])
     ELSE /\ Goto(p, "ready")
          /\ UNCHANGED <<value, waiting, adjust, base, disturbed>>
  /\ StillSeen(QueueSet(waiting'))
  /\ UNCHANGED <<class, id, ids, handle, count, inits>>

\* ComProcessMutex::reset(to_unlocked)
reset(p, v) ==
  /\ class = "mutex"
  /\ at[p] = "ready" /\ Valid(p)
  /\ SetValue(v, at)
  /\ StillSeen(QueueSet(waiting'))
  /\ UNCHANGED <<class, id, ids, handle, count, inits>>

\* uninit(destroy): with destroy every wait on the semaphore fails.
uninit(p, destroy) ==
  /\ at[p] = "ready"
  /\ IF destroy /\ Valid(p)
     THEN /\ id' = 0 /\ value' = 0 /\ waiting' = <<>>
          /\ adjust' = [q \in Process |-> 0]
          /\ at' = [q \in Process |-> IF q = p THEN "off"
                                      ELSE IF q \in Waiters THEN "ready" ELSE at[q]]
          /\ StillSeen({})
     ELSE /\ Goto(p, "off")
          /\ UNCHANGED <<id, value, waiting, adjust, seen>>
  /\ handle' = [handle EXCEPT ![p] = 0]
  /\ UNCHANGED <<class, ids, count, inits, base, disturbed>>

-----------------------------------------------------------------------------
\* semop with sem_op -1 and +1, undone when the process ends.

take(p) ==
  /\ at[p] = "ready" /\ Valid(p)
  /\ adjust[p] < MaxUndo
  /\ IF value > 0
     THEN Settle(value - 1, waiting, [adjust EXCEPT ![p] = @ + 1], [at EXCEPT ![p] = Got])
     ELSE /\ waiting' = Append(waiting, p)
          /\ Goto(p, "blocked")
          /\ UNCHANGED <<value, adjust>>
  /\ UNCHANGED <<class, id, ids, handle, count, seen, inits, base, disturbed>>

\* Fault: the operation is not undone (sem_flg = 0).
giveKept(p) ==
  /\ IF Valid(p)
     THEN Settle(value + 1, waiting, adjust, [at EXCEPT ![p] = "ready"])
     ELSE Goto(p, "ready") /\ UNCHANGED <<value, waiting, adjust>>
  /\ StillSeen(QueueSet(waiting'))
  /\ UNCHANGED <<class, id, ids, handle, count, inits, base, disturbed>>

give(p) ==
  /\ IF Valid(p)
     THEN Settle(value + 1, waiting, [adjust EXCEPT ![p] = @ - 1], [at EXCEPT ![p] = "ready"])
     ELSE Goto(p, "ready") /\ UNCHANGED <<value, waiting, adjust>>
  /\ StillSeen(QueueSet(waiting'))
  /\ UNCHANGED <<class, id, ids, handle, count, inits, base, disturbed>>

\* ComProcessMutex: lock blocks, trylock fails instead, the holder unlocks.
lock(p) == class = "mutex" /\ take(p)
trylock(p) == class = "mutex" /\ value > 0 /\ take(p)
unlock(p) == class = "mutex" /\ at[p] = "inside" /\ give(p)

\* ComProcessSem and ComProcessCondition
wait(p) == class # "mutex" /\ take(p)
post(p) == class = "sem" /\ at[p] = "ready" /\ adjust[p] > -MaxUndo /\ give(p)

\* semtimedop returns EAGAIN; lock has no time-out.
waitTimeout(p) ==
  /\ class # "mutex"
  /\ at[p] = "blocked"
  /\ waiting' = Without(p)
  /\ StillSeen(QueueSet(waiting'))
  /\ Goto(p, "ready")
  /\ UNCHANGED <<class, id, ids, value, adjust, handle, count, inits, base, disturbed>>

\* notifyOne and notifyAll count the waiters first and do nothing without any ...
notifyCount(p, all) ==
  /\ class = "condition"
  /\ at[p] = "ready" /\ Valid(p)
  /\ waiting # <<>>
  /\ adjust[p] - (IF all THEN Len(waiting) ELSE 1) >= -MaxUndo
  /\ count' = [count EXCEPT ![p] = IF all THEN Len(waiting) ELSE 1]
  /\ seen' = [seen EXCEPT ![p] = IF all THEN Waiters ELSE {Head(waiting)}]
  /\ Goto(p, "notify")
  /\ UNCHANGED <<class, id, ids, value, waiting, adjust, handle, inits, base, disturbed>>

\* Fault: notifyAll posts one token.
notifyPostOne(p) ==
  /\ at[p] = "notify"
  /\ IF Valid(p)
     THEN Settle(value + 1, waiting, [adjust EXCEPT ![p] = @ - 1],
                 [at EXCEPT ![p] = "ready"])
     ELSE Goto(p, "ready") /\ UNCHANGED <<value, waiting, adjust>>
  /\ count' = [count EXCEPT ![p] = 0]
  /\ seen' = [q \in Process |-> IF q = p THEN {} ELSE seen[q] \cap QueueSet(waiting')]
  /\ UNCHANGED <<class, id, ids, handle, inits, base, disturbed>>

\* ... and then post as many tokens.
notifyPost(p) ==
  /\ at[p] = "notify"
  /\ IF Valid(p)
     THEN Settle(value + count[p], waiting, [adjust EXCEPT ![p] = @ - count[p]],
                 [at EXCEPT ![p] = "ready"])
     ELSE Goto(p, "ready") /\ UNCHANGED <<value, waiting, adjust>>
  /\ count' = [count EXCEPT ![p] = 0]
  /\ seen' = [q \in Process |-> IF q = p THEN {} ELSE seen[q] \cap QueueSet(waiting')]
  /\ UNCHANGED <<class, id, ids, handle, inits, base, disturbed>>

-----------------------------------------------------------------------------
\* The process exits or is killed, wherever it is; it may come back.
die(p) ==
  /\ at[p] # "off" \/ adjust[p] # 0
  /\ LET v == IF value + adjust[p] < 0 THEN 0 ELSE value + adjust[p] IN
     Settle(v, IF p \in Waiters THEN Without(p) ELSE waiting, [adjust EXCEPT ![p] = 0],
            [at EXCEPT ![p] = "off"])
  /\ disturbed' = (disturbed \/ value + adjust[p] < 0)
  /\ handle' = [handle EXCEPT ![p] = 0]
  /\ count' = [count EXCEPT ![p] = 0]
  /\ seen' = [q \in Process |-> IF q = p THEN {} ELSE seen[q] \cap QueueSet(waiting')]
  /\ UNCHANGED <<class, id, ids, inits, base>>

-----------------------------------------------------------------------------
Next ==
  \E p \in Process :
    \/ initLookup(p) \/ initCreate(p) \/ initSetval(p)
    \/ (\E v \in {0, 1} : reset(p, v)) \/ (\E d \in BOOLEAN : uninit(p, d))
    \/ lock(p) \/ trylock(p) \/ unlock(p) \/ wait(p) \/ waitTimeout(p) \/ post(p)
    \/ (\E all \in BOOLEAN : notifyCount(p, all)) \/ notifyPost(p)
    \/ die(p)

\* A process that lives goes on with a call it is in, and a holder unlocks.
Fairness ==
  \A p \in Process : /\ WF_syncVars(initSetval(p))
                     /\ WF_syncVars(unlock(p))

Spec == Init /\ [][Next]_syncVars /\ Fairness

-----------------------------------------------------------------------------
\* The sum of all f[p].
Sum(f) ==
  LET Total[S \in SUBSET Process] ==
        IF S = {} THEN 0 ELSE LET p == CHOOSE q \in S : TRUE IN f[p] + Total[S \ {p}]
  IN Total[Process]

\* SEM_UNDO keeps the books: the value and what the living processes owe it add
\* up to what SETVAL put there, whichever processes have died at whatever step.
\* Of the mutex exactly its holder owes one, so it is free or held by one process,
\* and the death of the holder frees it.  What spoils it: the SETVAL of a second
\* init or of reset while operations are in progress, and a dead poster's tokens
\* that were used already.
UndoBalances ==
  id # 0 /\ ~disturbed =>
    /\ value + Sum(adjust) = base
    /\ class = "mutex" => /\ \A p \in Process : adjust[p] = IF p \in Holders THEN 1 ELSE 0
                          /\ \A p, q \in Holders : p = q


\* The creator ended between IPC_CREAT and SETVAL, or reset(false) was called:
\* nobody will ever put the first token there.
Orphan == base = 0 /\ \A p \in Process : ~(at[p] = "setval" /\ Valid(p))

\* Who waits goes on.  A process that waits in lock() gets the mutex although holders
\* die, or its wait fails because the mutex is destroyed.  notifyAll wakes everybody
\* who waited when it counted and has waited since, although it posts later: who came
\* or left in between does not take their tokens.
WaitersGoOn ==
  /\ \A p \in Process :
       (class = "mutex" /\ at[p] = "blocked") ~> (at[p] # "blocked" \/ Orphan \/ disturbed)
  /\ [][\A p \in Process : at[p] = "notify" /\ at'[p] = "ready" /\ Valid(p)
           => \A q \in seen[p] : at'[q] # "blocked"]_syncVars
=============================================================================
