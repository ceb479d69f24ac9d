--------------------------- MODULE WorkerManager ---------------------------
(***************************************************************************)
(* ComWorkerManager (com_task.cpp) on its ComThreadRunner (com_thread.h):  *)
(* named threads, each of which runs a function of the application and     *)
(* then asks the runner thread to destroy it by name.                      *)
(*                                                                         *)
(* Critical sections of mutex_workers are one action each; only            *)
(* destroyWorkerAll, which joins inside, and a destroyWorker whose loop    *)
(* does not end keep it longer.                                            *)
(***************************************************************************)
EXTENDS Naturals, Sequences, FiniteSets

CONSTANTS
  Name,        \* worker names, numbers in the order of the map's keys
  Owner,       \* application threads that call the manager
  MaxWorkers,  \* bound: workers created in a run
  Nested       \* whether a worker's function calls the manager itself

Runner == "runner"
Free == "free"
Actor == Owner \cup {Runner}
Worker == 1 .. MaxWorkers   \* ComWorker objects in the order of creation

WorkerConstants ==
  /\ Name \subseteq Nat \ {0}
  /\ MaxWorkers \in Nat
  /\ {Runner, Free} \cap Owner = {}

VARIABLES
  workers,        \* the map workers: 0 or the worker of a name
  mutex_workers,  \* who keeps it across several steps
  object,         \* of each worker: its name, 0 before it is made
  deleted,        \* the workers that were deleted
  wrunning,       \* ComWorker::running
  wthread,        \* its thread: "none", "run", "ask", "push", "ended"
  requests,       \* ComThreadRunner::msgs, names to destroy
  rrunning,       \* thread_runner_running
  at, want,       \* where a caller or the runner is; the names its pattern matches
  target,         \* the worker it is stopping
  life,           \* "up", or "closing" from ~ComWorkerManager on
  destroyed       \* history: workers that the application destroyed by name

workerVars == <<workers, mutex_workers, object, deleted, wrunning, wthread, requests,
                rrunning, at, want, target, life, destroyed>>

\* The state just after the constructors.
Init ==
  /\ workers = [n \in Name |-> 0]
  /\ mutex_workers = Free
  /\ object = [w \in Worker |-> 0]
  /\ deleted = {}
  /\ wrunning = [w \in Worker |-> FALSE]
  /\ wthread = [w \in Worker |-> "none"]
  /\ requests = <<>>
  /\ rrunning = TRUE
  /\ at = [a \in Actor |-> "idle"]
  /\ want = [a \in Actor |-> {}]
  /\ target = [a \in Actor |-> 0]
  /\ life = "up"
  /\ destroyed = {}

Goto(a, label) == at' = [at EXCEPT ![a] = label]
Live == {n \in Name : workers[n] # 0}
First(S) == CHOOSE n \in S : \A m \in S : n <= m
Made == {w \in Worker : object[w] # 0}

-----------------------------------------------------------------------------
\* createWorker(std::string): refused for a name in use.
createWorker(a, n) ==
  /\ at[a] = "idle" /\ life = "up"
  /\ mutex_workers = Free
  /\ n \notin Live
  /\ \E w \in Worker \ Made :
       /\ \A v \in Worker \ Made : w <= v
       /\ object' = [object EXCEPT ![w] = n]
       /\ wrunning' = [wrunning EXCEPT ![w] = TRUE]
       /\ wthread' = [wthread EXCEPT ![w] = "run"]
       /\ workers' = [workers EXCEPT ![n] = w]
  /\ UNCHANGED <<mutex_workers, deleted, requests, rrunning, at, want, target, life,
                 destroyed>>

callDestroy(a, S) ==
  /\ at[a] = "idle" /\ life = "up"
  /\ want' = [want EXCEPT ![a] = S]
  /\ Goto(a, "find")
  /\ UNCHANGED <<workers, mutex_workers, object, deleted, wrunning, wthread, requests,
                 rrunning, target, life, destroyed>>

\* destroyWorker's loop over the map: it takes the first entry if it matches ...
findFirst(a) ==
  /\ at[a] = "find"
  /\ mutex_workers = Free
  /\ Live # {} /\ First(Live) \in want[a]
  /\ target' = [target EXCEPT ![a] = workers[First(Live)]]
  /\ workers' = [workers EXCEPT ![First(Live)] = 0]
  /\ destroyed' = IF a = Runner THEN destroyed ELSE destroyed \cup {workers[First(Live)]}
  /\ want' = [want EXCEPT ![a] = {}]
  /\ Goto(a, "stop")
  /\ UNCHANGED <<mutex_workers, object, deleted, wrunning, wthread, requests, rrunning,
                 life>>

\* ... and if it does not, looks at it for ever, with the mutex locked.
findHangs(a) ==
  /\ at[a] = "find"
  /\ mutex_workers = Free
  /\ Live # {} /\ First(Live) \notin want[a]
  /\ mutex_workers' = a
  /\ Goto(a, "hung")
  /\ UNCHANGED <<workers, object, deleted, wrunning, wthread, requests, rrunning, want,
                 target, life, destroyed>>

findNone(a) ==
  /\ at[a] = "find"
  /\ mutex_workers = Free
  /\ Live = {}
  /\ want' = [want EXCEPT ![a] = {}]
  /\ Goto(a, "idle")
  /\ UNCHANGED <<workers, mutex_workers, object, deleted, wrunning, wthread, requests,
                 rrunning, target, life, destroyed>>

\* target->running = false, outside the mutex
stop(a) ==
  /\ at[a] = "stop"
  /\ wrunning' = [wrunning EXCEPT ![target[a]] = FALSE]
  /\ Goto(a, "join")
  /\ UNCHANGED <<workers, mutex_workers, object, deleted, wthread, requests, rrunning,
                 want, target, life, destroyed>>

\* Fault: the thread is not joined before the delete.
joinSkipped(a) ==
  /\ at[a] = "join"
  /\ deleted' = deleted \cup {target[a]}
  /\ target' = [target EXCEPT ![a] = 0]
  /\ Goto(a, "idle")
  /\ UNCHANGED <<workers, mutex_workers, object, wrunning, wthread, requests, rrunning,
                 want, life, destroyed>>

join(a) ==
  /\ at[a] = "join"
  /\ wthread[target[a]] = "ended"
  /\ deleted' = deleted \cup {target[a]}
  /\ target' = [target EXCEPT ![a] = 0]
  /\ Goto(a, "idle")
  /\ UNCHANGED <<workers, mutex_workers, object, wrunning, wthread, requests, rrunning,
                 want, life, destroyed>>

-----------------------------------------------------------------------------
\* destroyWorkerAll, alone or in ~ComWorkerManager, which nobody may call beside.
destroyWorkerAll(a, stage) ==
  /\ at[a] = "idle" /\ life = "up"
  /\ mutex_workers = Free
  /\ stage = "closing" => \A b \in Owner : at[b] = "idle"
  /\ life' = stage
  /\ mutex_workers' = a
  /\ want' = [want EXCEPT ![a] = Live]
  /\ Goto(a, "all")
  /\ UNCHANGED <<workers, object, deleted, wrunning, wthread, requests, rrunning, target,
                 destroyed>>

\* ~ComWorker of the next one: running = false ...
allStop(a) ==
  /\ at[a] = "all" /\ want[a] # {}
  /\ LET w == workers[First(want[a])] IN
     /\ target' = [target EXCEPT ![a] = w]
     /\ wrunning' = [wrunning EXCEPT ![w] = FALSE]
     /\ destroyed' = destroyed \cup {w}
  /\ Goto(a, "allJoin")
  /\ UNCHANGED <<workers, mutex_workers, object, deleted, wthread, requests, rrunning,
                 want, life>>

\* ... and join.
allJoin(a) ==
  /\ at[a] = "allJoin"
  /\ wthread[target[a]] = "ended"
  /\ deleted' = deleted \cup {target[a]}
  /\ want' = [want EXCEPT ![a] = @ \ {object[target[a]]}]
  /\ target' = [target EXCEPT ![a] = 0]
  /\ Goto(a, "all")
  /\ UNCHANGED <<workers, mutex_workers, object, wrunning, wthread, requests, rrunning,
                 life, destroyed>>

\* workers.clear(); in the destructor the base's destructor then clears its flag.
allEnd(a) ==
  /\ at[a] = "all" /\ want[a] = {}
  /\ workers' = [n \in Name |-> 0]
  /\ mutex_workers' = Free
  /\ rrunning' = (life = "up")
  /\ Goto(a, "idle")
  /\ UNCHANGED <<object, deleted, wrunning, wthread, requests, want, target, life,
                 destroyed>>

-----------------------------------------------------------------------------
\* The threads of the workers.

threadFrame == UNCHANGED <<workers, mutex_workers, object, deleted, wrunning, rrunning, at,
                           want, target, life, destroyed>>

\* The function calls isWorkerExist (or anything else of the manager).
ask(w) ==
  /\ Nested
  /\ wthread[w] = "run"
  /\ wthread' = [wthread EXCEPT ![w] = "ask"]
  /\ threadFrame /\ UNCHANGED requests

answered(w) ==
  /\ wthread[w] = "ask"
  /\ mutex_workers = Free
  /\ wthread' = [wthread EXCEPT ![w] = "run"]
  /\ threadFrame /\ UNCHANGED requests

\* The function returns; it has to when it sees running false.
return(w) ==
  /\ wthread[w] = "run"
  /\ wthread' = [wthread EXCEPT ![w] = "push"]
  /\ threadFrame /\ UNCHANGED requests

\* Fault: only a worker that was told to stop asks.
pushRequestRunning(w) ==
  /\ wthread[w] = "push"
  /\ requests' = IF rrunning /\ ~wrunning[w] THEN Append(requests, object[w]) ELSE requests
  /\ wthread' = [wthread EXCEPT ![w] = "ended"]
  /\ threadFrame

\* CMD_WORKER_DESTROY with the worker's name.
pushRequest(w) ==
  /\ wthread[w] = "push"
  /\ requests' = IF rrunning THEN Append(requests, object[w]) ELSE requests
  /\ wthread' = [wthread EXCEPT ![w] = "ended"]
  /\ threadFrame

-----------------------------------------------------------------------------
\* ThreadLoop of the runner: it looks at the queue once a second at least.

takeRequest ==
  /\ at[Runner] = "idle"
  /\ rrunning
  /\ requests # <<>>
  /\ want' = [want EXCEPT ![Runner] = {Head(requests)}]
  /\ requests' = Tail(requests)
  /\ Goto(Runner, "find")
  /\ UNCHANGED <<workers, mutex_workers, object, deleted, wrunning, wthread, rrunning,
                 target, life, destroyed>>

endRunner ==
  /\ at[Runner] = "idle"
  /\ ~rrunning
  /\ Goto(Runner, "ended")
  /\ UNCHANGED <<workers, mutex_workers, object, deleted, wrunning, wthread, requests,
                 rrunning, want, target, life, destroyed>>

-----------------------------------------------------------------------------
Destroying(a) ==
  \/ findFirst(a) \/ findHangs(a) \/ findNone(a) \/ stop(a) \/ join(a)
  \/ allStop(a) \/ allJoin(a) \/ allEnd(a)

Next ==
  \/ \E a \in Owner, n \in Name : createWorker(a, n)
  \/ \E a \in Owner, S \in (SUBSET Name) \ {{}} : callDestroy(a, S)
  \/ \E a \in Owner, stage \in {"up", "closing"} : destroyWorkerAll(a, stage)
  \/ \E a \in Actor : Destroying(a)
  \/ \E w \in Worker : ask(w) \/ answered(w) \/ return(w) \/ pushRequest(w)
  \/ takeRequest \/ endRunner

\* Threads run on when they can, and a mutex that is free again and again is got;
\* a worker's function returns once running is false.
Fairness ==
  /\ \A a \in Actor : SF_workerVars(Destroying(a))
  /\ WF_workerVars(takeRequest)
  /\ \A w \in Worker : /\ SF_workerVars(answered(w))
                       /\ SF_workerVars(~wrunning[w] /\ return(w))
                       /\ WF_workerVars(pushRequest(w))

Spec == Init /\ [][Next]_workerVars /\ Fairness

-----------------------------------------------------------------------------
\* A ComWorker is deleted after its thread has ended and by one thread only, and
\* an entry of the map never leads to a deleted one, destroyWorkerAll's own
\* section aside: running and thread_runner are never used after the delete,
\* although a worker asks for its own deletion.  And a worker is stopped only
\* when the application destroys it, when it has finished, or by a request that
\* an earlier worker of the name left behind when the application destroyed it.
WorkerOutlivesThread ==
  /\ \A w \in deleted : wthread[w] = "ended"
  /\ \A n \in Live : /\ object[workers[n]] = n
                     /\ workers[n] \in deleted =>
                          \E a \in Owner : at[a] \in {"all", "allJoin"} /\ mutex_workers = a
  /\ \A a, b \in Actor : a # b /\ target[a] # 0 =>
          target[a] # target[b] /\ target[a] \notin deleted
  /\ \A w \in Made : ~wrunning[w] =>
          \/ w \in destroyed
          \/ wthread[w] \in {"push", "ended"}
          \/ \E v \in destroyed : v < w /\ object[v] = object[w]

\* Nobody gets mutex_workers any more: a destroyWorker has met an entry that does
\* not match, or destroyWorkerAll joins a worker whose function calls the manager.
Stuck ==
  \E a \in Actor : \/ at[a] = "hung"
                   \/ at[a] = "allJoin" /\ wthread[target[a]] = "ask"

\* A worker whose function has returned is deleted in the end, by its own request
\* or by whoever destroys it, unless the manager is stuck.
FinishedIsDeleted ==
  \A w \in Worker : (wthread[w] = "ended") ~> (w \in deleted \/ Stuck)
=============================================================================
