----------------------------- MODULE ThreadPool -----------------------------
(***************************************************************************)
(* ComThreadPool (com_thread.h): a queue of messages, worker threads that  *)
(* drain it, and a manager thread that creates and recycles workers.       *)
(*                                                                         *)
(* The queue and the table of threads have a mutex each and every critical *)
(* section is one action, except createThread, which keeps mutex_threads   *)
(* while it creates one thread per step.  A worker sleeps in a condition   *)
(* without a predicate and without a time-out.                             *)
(*                                                                         *)
(* A thread object that is used after its deletion is undefined behaviour: *)
(* joinable() of it says no, or the program crashes and stops.             *)
(***************************************************************************)
EXTENDS Integers, Sequences, FiniteSets

CONSTANTS
  Worker,      \* threads the pool may create (bound: each is created once)
  Pusher,      \* application threads that push messages
  Waiter,      \* those of them that call waitAllDone at the end
  MaxPush,     \* bound: messages pushed by each of them
  Min, Max,    \* min_thread_count, max_thread_count
  QueueSize,   \* queue_size_per_thread
  Nothing      \* no message in hand

\* The k-th message of a pusher.
Message == Pusher \X (1 .. MaxPush)

ASSUME PoolAssumption ==
  /\ IsFiniteSet(Worker)
  /\ Waiter \subseteq Pusher
  /\ MaxPush \in Nat
  /\ Min \in Nat \ {0} /\ Max \in Nat /\ Min <= Max
  /\ QueueSize \in Nat \ {0}
  /\ Nothing \notin Message

VARIABLES
  msgs,      \* ComThreadPool::msgs
  running,   \* thread_mgr_running
  threads,   \* the workers that have an entry in the map threads
  flag,      \* running_flag of their entries
  obj,       \* their std::thread objects: "none", "live", "deleted"
  condition, \* each worker in the condition: "none", "waiting", "notified"
  wpc, hand, \* where a worker is, and its message
  mpc, seen, more,     \* the manager; the threads it counted; those to create
  spc, todo, force,    \* stopThreadPool; the threads it has to join
  ppc, count,          \* pushPoolMessage and waitAllDone; messages pushed
  handled, dropped     \* history: how often handled; cleared by force

workerVars == <<flag, condition, wpc, hand>>
managerVars == <<mpc, seen, more>>
stopVars == <<spc, todo, force>>
pushVars == <<ppc, count>>
vars == <<msgs, running, threads, obj, workerVars, managerVars, stopVars, pushVars,
          handled, dropped>>

\* The state just after startThreadPool.
Init ==
  /\ msgs = <<>>
  /\ running = TRUE
  /\ threads = {}
  /\ flag = [w \in Worker |-> 0]
  /\ obj = [w \in Worker |-> "none"]
  /\ condition = [w \in Worker |-> "none"]
  /\ wpc = [w \in Worker |-> "none"]
  /\ hand = [w \in Worker |-> Nothing]
  /\ mpc = "create" /\ seen = 0 /\ more = Min
  /\ spc = "idle" /\ todo = {} /\ force = FALSE
  /\ ppc = [p \in Pusher |-> "idle"]
  /\ count = [p \in Pusher |-> 0]
  /\ handled = [m \in Message |-> 0]
  /\ dropped = {}

Elements(s) == {s[i] : i \in 1 .. Len(s)}
AtMost(a, b) == IF a < b THEN a ELSE b

\* mutex_threads is free: createThread holds it while it creates.
FreeThreads == mpc # "create"

getRunningCount == Cardinality({w \in threads : flag[w] = 1})
getPauseCount == Cardinality({w \in threads : flag[w] = 0})

-----------------------------------------------------------------------------
\* Application threads: pushPoolMessage, waitAllDone, clearPoolMessage.

PGoto(p, label) == ppc' = [ppc EXCEPT ![p] = label]
pushFrame == UNCHANGED <<running, threads, obj, flag, wpc, hand, managerVars, stopVars>>

pushCheck(p) ==
  /\ ppc[p] = "idle"
  /\ running
  /\ count[p] < MaxPush
  /\ PGoto(p, "push")
  /\ pushFrame
  /\ UNCHANGED <<msgs, condition, count, handled, dropped>>

\* push_front when urgent, else push_back
pushPoolMessage(p, urgent) ==
  /\ ppc[p] = "push"
  /\ count' = [count EXCEPT ![p] = @ + 1]
  /\ LET m == <<p, count[p] + 1>> IN
     msgs' = IF urgent THEN <<m>> \o msgs ELSE Append(msgs, m)
  /\ PGoto(p, "notify")
  /\ pushFrame
  /\ UNCHANGED <<condition, handled, dropped>>

\* condition.notifyOne() wakes one of the waiting workers, if there is any.
pushNotify(p) ==
  /\ ppc[p] = "notify"
  /\ LET W == {w \in Worker : condition[w] = "waiting"} IN
     IF W = {} THEN UNCHANGED condition
     ELSE \E w \in W : condition' = [condition EXCEPT ![w] = "notified"]
  /\ PGoto(p, "idle")
  /\ pushFrame
  /\ UNCHANGED <<msgs, count, handled, dropped>>

\* waitAllDone(): getRunningCount() == 0 ...
waitRunning(p) ==
  /\ p \in Waiter
  /\ ppc[p] = "idle" /\ count[p] = MaxPush
  /\ FreeThreads
  /\ PGoto(p, IF getRunningCount = 0 THEN "counted" ELSE "idle")
  /\ pushFrame
  /\ UNCHANGED <<msgs, condition, count, handled, dropped>>

\* Fault: one count is enough.
waitNothing(p) ==
  /\ ppc[p] = "counted"
  /\ PGoto(p, "done")
  /\ pushFrame
  /\ UNCHANGED <<msgs, condition, count, handled, dropped>>

\* ... && getMessageCount() == 0, else it sleeps and tries again
waitMessages(p) ==
  /\ ppc[p] = "counted"
  /\ PGoto(p, IF msgs = <<>> THEN "done" ELSE "idle")
  /\ pushFrame
  /\ UNCHANGED <<msgs, condition, count, handled, dropped>>

clearPoolMessage ==
  /\ msgs # <<>>
  /\ dropped' = dropped \cup Elements(msgs)
  /\ msgs' = <<>>
  /\ pushFrame
  /\ UNCHANGED <<condition, pushVars, handled>>

-----------------------------------------------------------------------------
\* ThreadLoop, the worker.

WGoto(w, label) == wpc' = [wpc EXCEPT ![w] = label]
workerFrame ==
  UNCHANGED <<running, threads, obj, managerVars, stopVars, pushVars, dropped>>

\* while(pool->thread_mgr_running)
loop(w) ==
  /\ wpc[w] = "loop"
  /\ WGoto(w, IF running THEN "count" ELSE "exit")
  /\ workerFrame
  /\ UNCHANGED <<msgs, flag, condition, hand, handled>>

\* if(pool->getMessageCount() <= 0)
countMessages(w) ==
  /\ wpc[w] = "count"
  /\ WGoto(w, IF msgs = <<>> THEN "spare" ELSE "mark")
  /\ workerFrame
  /\ UNCHANGED <<msgs, flag, condition, hand, handled>>

\* if(pool->getRunningCount() > pool->min_thread_count) break;
exitIfSpare(w) ==
  /\ wpc[w] = "spare"
  /\ FreeThreads
  /\ WGoto(w, IF getRunningCount > Min THEN "exit" ELSE "pause")
  /\ workerFrame
  /\ UNCHANGED <<msgs, flag, condition, hand, handled>>

setFlag(w, f) == flag' = IF w \in threads THEN [flag EXCEPT ![w] = f] ELSE flag

markPaused(w) ==
  /\ wpc[w] = "pause"
  /\ FreeThreads
  /\ setFlag(w, 0)
  /\ WGoto(w, "wait")
  /\ workerFrame
  /\ UNCHANGED <<msgs, condition, hand, handled>>

\* pool->condition.wait(): a notification before this step is lost.
wait(w) ==
  /\ wpc[w] = "wait"
  /\ condition' = [condition EXCEPT ![w] = "waiting"]
  /\ WGoto(w, "asleep")
  /\ workerFrame
  /\ UNCHANGED <<msgs, flag, hand, handled>>

wake(w) ==
  /\ wpc[w] = "asleep" /\ condition[w] = "notified"
  /\ condition' = [condition EXCEPT ![w] = "none"]
  /\ WGoto(w, "loop")
  /\ workerFrame
  /\ UNCHANGED <<msgs, flag, hand, handled>>

\* A condition variable may also wake a thread for no reason.
wakeSpuriously(w) ==
  /\ wpc[w] = "asleep" /\ condition[w] = "waiting"
  /\ condition' = [condition EXCEPT ![w] = "notified"]
  /\ workerFrame
  /\ UNCHANGED <<msgs, flag, wpc, hand, handled>>

markRunning(w) ==
  /\ wpc[w] = "mark"
  /\ FreeThreads
  /\ setFlag(w, 1)
  /\ WGoto(w, "drain")
  /\ workerFrame
  /\ UNCHANGED <<msgs, condition, hand, handled>>

\* Fault: front() without pop_front().
takePeek(w) ==
  /\ wpc[w] = "drain" /\ running /\ msgs # <<>>
  /\ hand' = [hand EXCEPT ![w] = Head(msgs)]
  /\ WGoto(w, "run")
  /\ workerFrame
  /\ UNCHANGED <<msgs, flag, condition, handled>>

\* while(pool->thread_mgr_running && pool->msgs.empty() == false)
take(w) ==
  /\ wpc[w] = "drain" /\ running /\ msgs # <<>>
  /\ hand' = [hand EXCEPT ![w] = Head(msgs)]
  /\ msgs' = Tail(msgs)
  /\ WGoto(w, "run")
  /\ workerFrame
  /\ UNCHANGED <<flag, condition, handled>>

drained(w) ==
  /\ wpc[w] = "drain" /\ (~running \/ msgs = <<>>)
  /\ WGoto(w, "loop")
  /\ workerFrame
  /\ UNCHANGED <<msgs, flag, condition, hand, handled>>

threadPoolRunner(w) ==
  /\ wpc[w] = "run"
  /\ handled' = [handled EXCEPT ![hand[w]] = @ + 1]
  /\ hand' = [hand EXCEPT ![w] = Nothing]
  /\ WGoto(w, "drain")
  /\ workerFrame
  /\ UNCHANGED <<msgs, flag, condition>>

\* The entry is marked with -1 and the thread returns.
exit(w) ==
  /\ wpc[w] = "exit"
  /\ FreeThreads
  /\ setFlag(w, -1)
  /\ WGoto(w, "ended")
  /\ workerFrame
  /\ UNCHANGED <<msgs, condition, hand, handled>>

ThreadLoop(w) ==
  \/ loop(w) \/ countMessages(w) \/ exitIfSpare(w) \/ markPaused(w) \/ wait(w)
  \/ wake(w) \/ markRunning(w) \/ take(w) \/ drained(w) \/ threadPoolRunner(w)
  \/ exit(w)

-----------------------------------------------------------------------------
\* ThreadManager.

managerFrame ==
  UNCHANGED <<msgs, running, condition, hand, stopVars, pushVars, handled, dropped>>

\* Fault: createThread does not look at thread_mgr_running.
createAlways ==
  /\ mpc = "create" /\ more > 0
  /\ \E w \in Worker :
       /\ wpc[w] = "none"
       /\ threads' = threads \cup {w}
       /\ flag' = [flag EXCEPT ![w] = 0]
       /\ obj' = [obj EXCEPT ![w] = "live"]
       /\ wpc' = [wpc EXCEPT ![w] = "loop"]
  /\ more' = more - 1
  /\ managerFrame
  /\ UNCHANGED <<mpc, seen>>

\* One turn of createThread's loop, under mutex_threads.
createThread ==
  /\ mpc = "create" /\ more > 0 /\ running
  /\ \E w \in Worker :
       /\ wpc[w] = "none"
       /\ threads' = threads \cup {w}
       /\ flag' = [flag EXCEPT ![w] = 0]
       /\ obj' = [obj EXCEPT ![w] = "live"]
       /\ wpc' = [wpc EXCEPT ![w] = "loop"]
  /\ more' = more - 1
  /\ managerFrame
  /\ UNCHANGED <<mpc, seen>>

createEnd ==
  /\ mpc = "create"
  /\ more = 0 \/ ~running \/ \A w \in Worker : wpc[w] # "none"
  /\ more' = 0
  /\ mpc' = "loop"
  /\ managerFrame
  /\ UNCHANGED <<threads, flag, obj, wpc, seen>>

\* Fault: while(true) in the manager.
managerForever ==
  /\ mpc = "loop"
  /\ mpc' = "recycle"
  /\ managerFrame
  /\ UNCHANGED <<threads, flag, obj, wpc, seen, more>>

\* while(pool->thread_mgr_running)
managerLoop ==
  /\ mpc = "loop"
  /\ mpc' = IF running THEN "recycle" ELSE "final"
  /\ managerFrame
  /\ UNCHANGED <<threads, flag, obj, wpc, seen, more>>

Quit == {w \in threads : flag[w] = -1}

\* recycleThread joins and deletes the threads marked -1 and erases them.  One
\* that stopThreadPool has deleted is used after its deletion.
recycleThread(next) ==
  /\ obj' = [w \in Worker |-> IF w \in Quit THEN "deleted" ELSE obj[w]]
  /\ threads' = threads \ Quit
  /\ \/ mpc' = next
     \/ (\E w \in Quit : obj[w] = "deleted") /\ mpc' = "crashed"

managerRecycle ==
  /\ mpc = "recycle" /\ recycleThread("running")
  /\ managerFrame
  /\ UNCHANGED <<flag, wpc, seen, more>>

managerFinal ==
  /\ mpc = "final" /\ recycleThread("ended")
  /\ managerFrame
  /\ UNCHANGED <<flag, wpc, seen, more>>

\* The running and the paused threads are counted one after the other.
managerCountRunning ==
  /\ mpc = "running"
  /\ seen' = getRunningCount
  /\ mpc' = "pausing"
  /\ managerFrame
  /\ UNCHANGED <<threads, flag, obj, wpc, more>>

managerCountPaused ==
  /\ mpc = "pausing"
  /\ seen' = seen + getPauseCount
  /\ mpc' = "decide"
  /\ managerFrame
  /\ UNCHANGED <<threads, flag, obj, wpc, more>>

\* msg_count = getMessageCount(), and the threads it takes; the sleep of a second
\* before the next round has no step of its own.
managerDecide ==
  /\ mpc = "decide"
  /\ LET increase == AtMost((Len(msgs) \div QueueSize) - seen, Max - seen) IN
     IF seen < Max /\ increase > 0
     THEN mpc' = "create" /\ more' = increase
     ELSE mpc' = "loop" /\ UNCHANGED more
  /\ seen' = 0
  /\ managerFrame
  /\ UNCHANGED <<threads, flag, obj, wpc>>

ThreadManager ==
  \/ createThread \/ createEnd \/ managerLoop \/ managerRecycle \/ managerFinal
  \/ managerCountRunning \/ managerCountPaused \/ managerDecide

-----------------------------------------------------------------------------
\* stopThreadPool.

stopFrame == UNCHANGED <<flag, wpc, hand, managerVars, pushVars, handled>>

stopThreadPool(f) ==
  /\ spc = "idle"
  /\ running' = FALSE
  /\ force' = f
  /\ spc' = IF f THEN "clear" ELSE "notify"
  /\ stopFrame
  /\ UNCHANGED <<msgs, threads, obj, condition, todo, dropped>>

stopClear ==
  /\ spc = "clear"
  /\ dropped' = dropped \cup Elements(msgs)
  /\ msgs' = <<>>
  /\ spc' = "notify"
  /\ stopFrame
  /\ UNCHANGED <<running, threads, obj, condition, todo, force>>

\* condition.notifyAll().  The loop looks whether all workers have marked their
\* end and sleeps if not, but while(retry > 10) never repeats it.
stopNotify ==
  /\ spc = "notify"
  /\ condition' = [w \in Worker |-> IF condition[w] = "waiting" THEN "notified"
                                                                ELSE condition[w]]
  /\ spc' = "copy"
  /\ stopFrame
  /\ UNCHANGED <<msgs, running, threads, obj, todo, force, dropped>>

\* threads_tmp = threads
stopCopy ==
  /\ spc = "copy"
  /\ FreeThreads
  /\ todo' = threads
  /\ spc' = "join"
  /\ stopFrame
  /\ UNCHANGED <<msgs, running, threads, obj, condition, force, dropped>>

\* if(des.t->joinable()) { des.t->join(); delete des.t; }
stopJoin(w) ==
  /\ spc = "join" /\ w \in todo
  /\ todo' = todo \ {w}
  /\ \/ /\ obj[w] = "live" /\ wpc[w] = "ended"
        /\ obj' = [obj EXCEPT ![w] = "deleted"]
        /\ UNCHANGED spc
     \/ /\ obj[w] = "deleted"
        /\ spc' \in {"join", "crashed"}
        /\ UNCHANGED obj
  /\ stopFrame
  /\ UNCHANGED <<msgs, running, threads, condition, force, dropped>>

\* threads.clear()
stopErase ==
  /\ spc = "join" /\ todo = {}
  /\ FreeThreads
  /\ threads' = {}
  /\ spc' = "manager"
  /\ stopFrame
  /\ UNCHANGED <<msgs, running, obj, condition, todo, force, dropped>>

stopManager ==
  /\ spc = "manager"
  /\ mpc = "ended"
  /\ spc' = "stopped"
  /\ stopFrame
  /\ UNCHANGED <<msgs, running, threads, obj, condition, todo, force, dropped>>

StopStep == stopClear \/ stopNotify \/ stopCopy \/ (\E w \in Worker : stopJoin(w))
            \/ stopErase \/ stopManager

-----------------------------------------------------------------------------
PushStep(p) == (\E u \in BOOLEAN : pushPoolMessage(p, u)) \/ pushNotify(p)

Next ==
  /\ "crashed" \notin {mpc, spc}
  /\ \/ \E p \in Pusher : pushCheck(p) \/ PushStep(p) \/ waitRunning(p) \/ waitMessages(p)
     \/ clearPoolMessage
     \/ \E w \in Worker : ThreadLoop(w) \/ wakeSpuriously(w)
     \/ ThreadManager
     \/ \E f \in BOOLEAN : stopThreadPool(f)
     \/ StopStep

Spec == Init /\ [][Next]_vars

\* Every thread that can run does; nobody has to push, clear or stop, and a
\* condition variable need not wake anybody by itself.
Fairness ==
  /\ \A w \in Worker : WF_vars(ThreadLoop(w))
  /\ WF_vars(ThreadManager)
  /\ WF_vars(StopStep)
  /\ \A p \in Pusher : WF_vars(PushStep(p))

FairSpec == Spec /\ Fairness

-----------------------------------------------------------------------------
TypeOK ==
  /\ msgs \in Seq(Message)
  /\ running \in BOOLEAN
  /\ threads \subseteq Worker /\ todo \subseteq Worker
  /\ flag \in [Worker -> {-1, 0, 1}]
  /\ obj \in [Worker -> {"none", "live", "deleted"}]
  /\ condition \in [Worker -> {"none", "waiting", "notified"}]
  /\ wpc \in [Worker -> {"none", "loop", "count", "spare", "pause", "wait", "asleep",
                         "mark", "drain", "run", "exit", "ended"}]
  /\ hand \in [Worker -> Message \cup {Nothing}]
  /\ mpc \in {"create", "loop", "recycle", "running", "pausing", "decide", "final",
              "ended", "crashed"}
  /\ seen \in 0 .. Cardinality(Worker) * 2 /\ more \in 0 .. Max
  /\ spc \in {"idle", "clear", "notify", "copy", "join", "manager", "stopped", "crashed"}
  /\ force \in BOOLEAN
  /\ ppc \in [Pusher -> {"idle", "push", "notify", "counted", "done"}]
  /\ count \in [Pusher -> 0 .. MaxPush]
  /\ handled \in [Message -> 0 .. 1] /\ dropped \subseteq Message

Pushed == {m \in Message : m[2] <= count[m[1]]}

\* Every message pushed is in one place: in the queue once, in one worker's hand,
\* handled once, or cleared, however many workers drain, come and go.  And when
\* waitAllDone returns, what its caller pushed has left the queue; a worker may
\* still have it in hand, because it marks itself between the two counts.
InOnePlace ==
  /\ \A m \in Message :
       Cardinality({i \in 1 .. Len(msgs) : msgs[i] = m})
         + Cardinality({w \in Worker : hand[w] = m})
         + handled[m] + (IF m \in dropped THEN 1 ELSE 0)
       = IF m \in Pushed THEN 1 ELSE 0
  /\ \A p \in Waiter, k \in 1 .. MaxPush : ppc[p] = "done" => <<p, k>> \notin Elements(msgs)

\* An entry of threads refers to a thread that is not deleted, until stopThreadPool
\* deletes threads whose entries are still there; and when it returns nothing of
\* the pool runs and no thread is left, although the manager may have been about to
\* create some and deletes threads as well.
ThreadsAreOwned ==
  /\ spc \notin {"join", "crashed"} => \A w \in threads : obj[w] = "live"
  /\ spc = "stopped" => /\ \A w \in Worker : wpc[w] \in {"none", "ended"}
                        /\ \A w \in Worker : obj[w] # "live"
                        /\ mpc = "ended"

\* A queued message is handled as long as a worker is awake: sleeping through
\* the notification is the only way to leave it behind.
Awake(w) == wpc[w] # "none" /\ wpc[w] # "ended" /\ condition[w] # "waiting"
QueuedMovesOn ==
  \A m \in Message :
    (running /\ m \in Elements(msgs))
      ~> (~running \/ m \notin Elements(msgs) \/ \A w \in Worker : ~Awake(w))

\* stopThreadPool returns unless a worker sleeps through its one notification.
StopMovesOn ==
  (spc # "idle") ~> \/ spc = "stopped"
                    \/ "crashed" \in {spc, mpc}
                    \/ \E w \in Worker : condition[w] = "waiting"

\* The pool's work goes on, and its stop too, but for workers that sleep through the
\* one notification.
PoolGoesOn == QueuedMovesOn /\ StopMovesOn

\* A message that is pushed is handled, unless it is cleared or the pool stopped.
EveryMessageHandled ==
  \A m \in Message :
    (running /\ m \in Elements(msgs)) ~> (~running \/ handled[m] = 1 \/ m \in dropped)
=============================================================================
