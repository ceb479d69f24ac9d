---------------------------- MODULE TaskManager ----------------------------
(***************************************************************************)
(* ComTaskManager and its ComTasks (com_task.cpp, com_task.h).  A task is  *)
(* a thread with a message queue; the manager finds tasks by name under    *)
(* mutex_tasks.  Every manager call is one critical section, except        *)
(* destroyTask, which keeps mutex_tasks while it stops and joins the       *)
(* threads of the tasks it removes.                                        *)
(*                                                                         *)
(* sendMessageAndWait uses the SyncAdapter through its abstract            *)
(* specification SyncRendezvous, so its wait may also end early or empty.  *)
(***************************************************************************)
EXTENDS Integers, Sequences, FiniteSets

CONSTANTS
  Task,       \* task names
  Caller,     \* application threads that call the manager
  Nobody,     \* nobody holds mutex_tasks
  MsgId,      \* values of Message::getID()
  RelayId,    \* the ids whose onMessage itself calls sendMessage
  Protected,  \* the tasks that call setProtectMode(true)
  Listened,   \* the ids that they may register
  MaxSent,    \* bound: messages sent in a run
  MaxCreate,  \* bound: tasks created in a run
  Reply,      \* what onMessage passes to sendAck
  NoReply     \* no bytes

ASSUME TaskAssumption ==
  /\ RelayId \subseteq MsgId
  /\ Protected \subseteq Task /\ Listened \subseteq MsgId
  /\ MaxSent \in Nat /\ MaxCreate \in Nat
  /\ Nobody \notin Caller
  /\ Reply # NoReply

\* A message is known by its number in the order of sending, which also serves
\* as the uuid of a message that needs an answer.
Number == 1 .. MaxSent
Message == [no : Number, id : MsgId, need_ack : BOOLEAN]
NoMessage == [no |-> 0]

\* What a name or a wildcard may match.
Pattern == (SUBSET Task) \ {{}}

VARIABLES
  tasks,        \* the names in the map tasks
  mutex_tasks,  \* the thread that holds mutex_tasks across several steps
  doomed,       \* destroyTask: the matching tasks it has yet to remove
  victim,       \* destroyTask: the task it is stopping, {} or a singleton
  force,        \* destroyTask's argument
  stopped_at,   \* history: where the victim's thread was when running was cleared
  running,      \* ComTask::running
  msgs,         \* ComTask::msgs
  condition,    \* "none", "waiting" or "notified": the task's ComCondition
  listeners,    \* ComTask::listeners
  pc,           \* where TaskRunner is
  current,      \* the message TaskRunner has popped
  handled,      \* history: numbers of the messages onMessage got, in order
  pushed,       \* history: numbers of the messages pushed to the live task
  sent,         \* messages sent so far
  created,      \* tasks created so far
  cpc,          \* "idle", "asked" or "destroying"/"joining" for each caller
  open, reply, asked, got   \* SyncRendezvous

taskVars == <<running, msgs, condition, listeners, pc, current, handled, pushed>>
destroyVars == <<mutex_tasks, doomed, victim, force, stopped_at>>
syncVars == <<open, reply, asked, got>>
vars == <<tasks, destroyVars, taskVars, sent, created, cpc, syncVars>>

Sync == INSTANCE SyncRendezvous
        WITH Client <- Caller, UUID <- Number, Payload <- {Reply}

Init ==
  /\ tasks = {}
  /\ mutex_tasks = Nobody /\ doomed = {} /\ victim = {} /\ force = FALSE
  /\ stopped_at = "none"
  /\ running = [t \in Task |-> FALSE]
  /\ msgs = [t \in Task |-> <<>>]
  /\ condition = [t \in Task |-> "none"]
  /\ listeners = [t \in Task |-> {}]
  /\ pc = [t \in Task |-> "none"]
  /\ current = [t \in Task |-> NoMessage]
  /\ handled = [t \in Task |-> <<>>]
  /\ pushed = [t \in Task |-> <<>>]
  /\ sent = 0 /\ created = 0
  /\ cpc = [c \in Caller |-> "idle"]
  /\ Sync!Init

Goto(t, label) == pc' = [pc EXCEPT ![t] = label]
CGoto(c, label) == cpc' = [cpc EXCEPT ![c] = label]

-----------------------------------------------------------------------------
\* Queueing a message.

isListenerExist(t, id) == t \in Protected => id \in listeners[t]

\* Fault: the notification is kept for a thread that is not waiting yet.
notifyOneKept(c) == IF c = "waiting" THEN "notified" ELSE "pending"

\* The condition has no memory: a notification reaches a waiting thread only.
notifyOne(c) == IF c = "waiting" THEN "notified" ELSE c

\* pushTaskMessage to every task of S that listens to the message's id.
pushTaskMessage(S, m) ==
  LET to == {t \in S : isListenerExist(t, m.id)} IN
  /\ msgs' = [t \in Task |-> IF t \in to THEN Append(msgs[t], m) ELSE msgs[t]]
  /\ pushed' = [t \in Task |-> IF t \in to THEN Append(pushed[t], m.no) ELSE pushed[t]]
  /\ condition' = [t \in Task |-> IF t \in to THEN notifyOne(condition[t])
                                              ELSE condition[t]]

NextMessage(id, need_ack) == [no |-> sent + 1, id |-> id, need_ack |-> need_ack]

\* sendMessage to a name or a wildcard that matches S, and, with S = Task,
\* sendBroadcastMessage.
sendMessage(S, id) ==
  /\ mutex_tasks = Nobody
  /\ sent < MaxSent
  /\ sent' = sent + 1
  /\ pushTaskMessage(S \cap tasks, NextMessage(id, FALSE))

callSendMessage(c, S, id) ==
  /\ cpc[c] = "idle"
  /\ sendMessage(S, id)
  /\ UNCHANGED <<tasks, destroyVars, running, listeners, pc, current, handled,
                 created, cpc, syncVars>>

\* First section of sendMessageAndWait, under mutex_tasks: when the task exists
\* and listens, prepare the request and queue the message.
sendMessageAndWait(c, t, id) ==
  /\ cpc[c] = "idle"
  /\ mutex_tasks = Nobody
  /\ sent < MaxSent
  /\ t \in tasks /\ isListenerExist(t, id)
  /\ sent' = sent + 1
  /\ open' = open \cup {sent + 1}
  /\ asked' = [asked EXCEPT ![c] = sent + 1]
  /\ got' = [got EXCEPT ![c] = NoReply]
  /\ pushTaskMessage({t}, NextMessage(id, TRUE))
  /\ CGoto(c, "asked")
  /\ UNCHANGED <<tasks, destroyVars, running, listeners, pc, current, handled,
                 created, reply>>

\* Second section: syncWait, with mutex_tasks released.
syncWait(c) ==
  /\ cpc[c] = "asked"
  /\ Sync!Return(c)
  /\ CGoto(c, "idle")
  /\ UNCHANGED <<tasks, destroyVars, taskVars, sent, created>>

-----------------------------------------------------------------------------
\* Creating and destroying tasks.

createTask(c, t) ==
  /\ cpc[c] = "idle"
  /\ mutex_tasks = Nobody
  /\ t \notin tasks
  /\ created < MaxCreate
  /\ created' = created + 1
  /\ tasks' = tasks \cup {t}
  /\ running' = [running EXCEPT ![t] = TRUE]
  /\ Goto(t, "start")
  /\ UNCHANGED <<destroyVars, msgs, condition, listeners, current, handled, pushed,
                 sent, cpc, syncVars>>

\* A task registers and drops ids at any time in its life.
addListener(t, id) ==
  /\ t \in tasks \cap Protected
  /\ pc[t] \notin {"none", "ended"}
  /\ listeners' = [listeners EXCEPT ![t] = @ \cup {id}]
  /\ UNCHANGED <<tasks, destroyVars, running, msgs, condition, pc, current,
                 handled, pushed, sent, created, cpc, syncVars>>

removeListener(t, id) ==
  /\ t \in tasks \cap Protected
  /\ pc[t] \notin {"none", "ended"}
  /\ id \in listeners[t]
  /\ listeners' = [listeners EXCEPT ![t] = @ \ {id}]
  /\ UNCHANGED <<tasks, destroyVars, running, msgs, condition, pc, current,
                 handled, pushed, sent, created, cpc, syncVars>>

\* Fault: mutex_tasks is released before the tasks are stopped.
destroyTaskUnlocked(c, S, f) ==
  /\ cpc[c] = "idle"
  /\ mutex_tasks = Nobody
  /\ \A d \in Caller : cpc[d] \in {"idle", "asked"}
  /\ doomed' = S \cap tasks
  /\ force' = f
  /\ CGoto(c, "destroying")
  /\ UNCHANGED <<tasks, mutex_tasks, victim, stopped_at, taskVars, sent, created, syncVars>>

\* destroyTask takes mutex_tasks and walks over the tasks that match.
destroyTask(c, S, f) ==
  /\ cpc[c] = "idle"
  /\ mutex_tasks = Nobody
  /\ mutex_tasks' = c
  /\ doomed' = S \cap tasks
  /\ force' = f
  /\ CGoto(c, "destroying")
  /\ UNCHANGED <<tasks, victim, stopped_at, taskVars, sent, created, syncVars>>

\* stopTask clears running first ...
stopTask(c, t) ==
  /\ cpc[c] = "destroying" /\ t \in doomed /\ victim = {}
  /\ victim' = {t}
  /\ stopped_at' = pc[t]
  /\ running' = [running EXCEPT ![t] = FALSE]
  /\ UNCHANGED <<tasks, mutex_tasks, doomed, force, msgs, condition, listeners, pc,
                 current, handled, pushed, sent, created, cpc, syncVars>>

\* ... and then empties the queue if it is forced, and notifies the thread.
stopTaskNotify(c, t) ==
  /\ cpc[c] = "destroying" /\ victim = {t}
  /\ msgs' = [msgs EXCEPT ![t] = IF force THEN <<>> ELSE @]
  /\ condition' = [condition EXCEPT ![t] = notifyOne(@)]
  /\ CGoto(c, "joining")
  /\ UNCHANGED <<tasks, destroyVars, running, listeners, pc, current, handled,
                 pushed, sent, created, syncVars>>

\* The join returns; the task is deleted with all it holds, and erased.
joinTask(c, t) ==
  /\ cpc[c] = "joining" /\ victim = {t}
  /\ pc[t] = "ended"
  /\ tasks' = tasks \ {t}
  /\ doomed' = doomed \ {t}
  /\ victim' = {} /\ stopped_at' = "none"
  /\ Goto(t, "none")
  /\ msgs' = [msgs EXCEPT ![t] = <<>>]
  /\ condition' = [condition EXCEPT ![t] = "none"]
  /\ listeners' = [listeners EXCEPT ![t] = {}]
  /\ handled' = [handled EXCEPT ![t] = <<>>]
  /\ pushed' = [pushed EXCEPT ![t] = <<>>]
  /\ CGoto(c, "destroying")
  /\ UNCHANGED <<mutex_tasks, force, running, current, sent, created, syncVars>>

destroyTaskEnd(c) ==
  /\ cpc[c] = "destroying" /\ doomed = {}
  /\ mutex_tasks' = Nobody
  /\ force' = FALSE
  /\ CGoto(c, "idle")
  /\ UNCHANGED <<tasks, doomed, victim, stopped_at, taskVars, sent, created, syncVars>>

-----------------------------------------------------------------------------
\* TaskRunner, the thread of a task.

threadFrame == UNCHANGED <<tasks, destroyVars, running, listeners, created, cpc>>

onStart(t) ==
  /\ pc[t] = "start"
  /\ Goto(t, "loop")
  /\ threadFrame
  /\ UNCHANGED <<msgs, condition, current, handled, pushed, sent, syncVars>>

\* while(task->running)
loop(t) ==
  /\ pc[t] = "loop"
  /\ Goto(t, IF running[t] THEN "drain" ELSE "stop")
  /\ threadFrame
  /\ UNCHANGED <<msgs, condition, current, handled, pushed, sent, syncVars>>

popMessage(t) ==
  /\ pc[t] = "drain"
  /\ msgs[t] # <<>>
  /\ current' = [current EXCEPT ![t] = Head(msgs[t])]
  /\ msgs' = [msgs EXCEPT ![t] = Tail(@)]
  /\ Goto(t, "handle")
  /\ threadFrame
  /\ UNCHANGED <<condition, handled, pushed, sent, syncVars>>

queueEmpty(t) ==
  /\ pc[t] = "drain"
  /\ msgs[t] = <<>>
  /\ Goto(t, "check")
  /\ threadFrame
  /\ UNCHANGED <<msgs, condition, current, handled, pushed, sent, syncVars>>

\* onMessage acknowledges a message that asks for it (a late one in vain).
sendAck(m) ==
  IF m.need_ack /\ m.no \in open
  THEN Sync!Post(m.no, Reply)
  ELSE UNCHANGED syncVars

\* Fault: the drain ends when the task is stopped, while(task->running).
finishMessageStops(t) ==
  /\ handled' = [handled EXCEPT ![t] = Append(@, current[t].no)]
  /\ current' = [current EXCEPT ![t] = NoMessage]
  /\ Goto(t, IF running[t] THEN "drain" ELSE "check")

\* The drain goes on while there is something in the queue, running or not.
finishMessage(t) ==
  /\ handled' = [handled EXCEPT ![t] = Append(@, current[t].no)]
  /\ current' = [current EXCEPT ![t] = NoMessage]
  /\ Goto(t, "drain")

onMessage(t) ==
  /\ pc[t] = "handle"
  /\ current[t].id \notin RelayId
  /\ sendAck(current[t])
  /\ finishMessage(t)
  /\ threadFrame
  /\ UNCHANGED <<msgs, condition, pushed, sent>>

\* An onMessage that passes a message on needs mutex_tasks for it.
onMessageRelay(t, to) ==
  /\ pc[t] = "handle"
  /\ current[t].id \in RelayId
  /\ \/ \E id \in MsgId \ RelayId : sendMessage({to}, id)
     \/ /\ mutex_tasks = Nobody /\ sent = MaxSent
        /\ UNCHANGED <<msgs, pushed, condition, sent>>
  /\ sendAck(current[t])
  /\ finishMessage(t)
  /\ threadFrame

\* if(task->running == false) break;
checkRunning(t) ==
  /\ pc[t] = "check"
  /\ Goto(t, IF running[t] THEN "park" ELSE "stop")
  /\ threadFrame
  /\ UNCHANGED <<msgs, condition, current, handled, pushed, sent, syncVars>>

\* task->condition.wait(1000); a notification before this step is lost.
park(t) ==
  /\ pc[t] = "park"
  /\ condition' = [condition EXCEPT ![t] = "waiting"]
  /\ Goto(t, "wait")
  /\ threadFrame
  /\ UNCHANGED <<msgs, current, handled, pushed, sent, syncVars>>

\* Fault: wait() without a time-out.
wakeNotified(t) ==
  /\ pc[t] = "wait" /\ condition[t] = "notified"
  /\ condition' = [condition EXCEPT ![t] = "none"]
  /\ Goto(t, "loop")
  /\ threadFrame
  /\ UNCHANGED <<msgs, current, handled, pushed, sent, syncVars>>

\* The wait ends when it is notified, and after a second in any case.
wake(t) ==
  /\ pc[t] = "wait"
  /\ condition' = [condition EXCEPT ![t] = "none"]
  /\ Goto(t, "loop")
  /\ threadFrame
  /\ UNCHANGED <<msgs, current, handled, pushed, sent, syncVars>>

onStop(t) ==
  /\ pc[t] = "stop"
  /\ Goto(t, "ended")
  /\ threadFrame
  /\ UNCHANGED <<msgs, condition, current, handled, pushed, sent, syncVars>>

TaskRunner(t) ==
  \/ onStart(t) \/ loop(t) \/ popMessage(t) \/ queueEmpty(t) \/ onMessage(t)
  \/ (\E to \in Task : onMessageRelay(t, to))
  \/ checkRunning(t) \/ park(t) \/ wake(t) \/ onStop(t)

DestroyStep(c) ==
  \/ \E t \in Task : stopTask(c, t) \/ stopTaskNotify(c, t) \/ joinTask(c, t)
  \/ destroyTaskEnd(c)

Next ==
  \/ \E c \in Caller, S \in Pattern, id \in MsgId : callSendMessage(c, S, id)
  \/ \E c \in Caller, t \in Task, id \in MsgId : sendMessageAndWait(c, t, id)
  \/ \E c \in Caller : syncWait(c)
  \/ \E c \in Caller, t \in Task : createTask(c, t)
  \/ \E t \in Task, id \in Listened : addListener(t, id) \/ removeListener(t, id)
  \/ \E c \in Caller, S \in Pattern, f \in BOOLEAN : destroyTask(c, S, f)
  \/ \E c \in Caller : DestroyStep(c)
  \/ \E t \in Task : TaskRunner(t)

Spec == Init /\ [][Next]_vars

\* Threads are scheduled: a task's thread runs on whenever it can, and so does a
\* thread inside destroyTask; a handler that waits for mutex_tasks gets it when it
\* is free again and again.  Nobody has to call the manager.
Fairness ==
  /\ \A t \in Task : WF_vars(TaskRunner(t))
  /\ \A t \in Task : SF_vars(\E to \in Task : onMessageRelay(t, to))
  /\ \A c \in Caller : WF_vars(DestroyStep(c))

FairSpec == Spec /\ Fairness

-----------------------------------------------------------------------------
TypeOK ==
  /\ tasks \subseteq Task
  /\ mutex_tasks \in Caller \cup {Nobody}
  /\ doomed \subseteq tasks /\ victim \subseteq doomed /\ force \in BOOLEAN
  /\ stopped_at \in {"none", "start", "loop", "drain", "handle", "check", "park", "wait",
                     "stop", "ended"}
  /\ running \in [Task -> BOOLEAN]
  /\ msgs \in [Task -> Seq(Message)]
  /\ condition \in [Task -> {"none", "waiting", "notified"}]
  /\ listeners \in [Task -> SUBSET MsgId]
  /\ pc \in [Task -> {"none", "start", "loop", "drain", "handle", "check", "park",
                      "wait", "stop", "ended"}]
  /\ current \in [Task -> Message \cup {NoMessage}]
  /\ handled \in [Task -> Seq(Number)] /\ pushed \in [Task -> Seq(Number)]
  /\ sent \in 0 .. MaxSent /\ created \in 0 .. MaxCreate
  /\ cpc \in [Caller -> {"idle", "asked", "destroying", "joining"}]
  /\ open \subseteq Number /\ reply \in [Number -> {Reply, NoReply}]
  /\ asked \in [Caller -> Number \cup {-1}] /\ got \in [Caller -> {Reply, NoReply}]

\* stopTask(true) has emptied the queue of t.
Emptied(t) == force /\ t \in victim /\ \E c \in Caller : cpc[c] = "joining"

\* A task handles the messages pushed to it in their order and each once, whatever is
\* sent, relayed, broadcast or stopped meanwhile: until its object is deleted none is
\* missing, unless a forced stop has emptied the queue.
InFlight(t) == IF pc[t] = "handle" THEN <<current[t].no>> ELSE <<>>
Queued(t) == [i \in 1 .. Len(msgs[t]) |-> msgs[t][i].no]
NoneMissing ==
  \A t \in Task :
    LET seen == handled[t] \o InFlight(t) \o Queued(t) IN
    IF Emptied(t) THEN seen = SubSeq(pushed[t], 1, Len(seen))
                  ELSE seen = pushed[t]

\* An unforced stop too loses messages, those that are in the queue when the thread has
\* left its loop and the task is deleted (com_task.cpp:196 and 212), but never when it
\* came while the thread was at work on the queue: it then handles all of it first.
\* What is lost came to a thread that was starting, asleep or about to sleep.
DrainIsFinished ==
  \A t \in Task :
    pc[t] \in {"stop", "ended"} /\ msgs[t] # <<>> => stopped_at \notin {"drain", "handle"}

InOrderOnce == NoneMissing /\ DrainIsFinished

\* Once destroyTask(force) has emptied the queue of a task nothing is queued to it
\* again, so it ends after the message in hand at the latest; and its object is
\* deleted only when the thread has left TaskRunner, so that no onMessage runs on a
\* destroyed object, which com_task.cpp:209 worries about.
DestroyedTaskIsQuiet ==
  /\ \A c \in Caller : cpc[c] = "joining" /\ force => \A t \in victim : msgs[t] = <<>>
  /\ \A t \in Task \ tasks : pc[t] = "none"

\* The one way to hold everybody up: a task that is being joined is in an onMessage
\* that itself calls the manager and waits for mutex_tasks.
JoinedHandlerCalls ==
  \E t \in victim : pc[t] = "handle" /\ current[t].id \in RelayId

\* destroyTask returns, although the task can look at running before stopTask
\* clears it and sleep after stopTask notifies, unless such a handler is joined.
DestroyReturns ==
  \A c \in Caller : (cpc[c] = "destroying") ~> (cpc[c] = "idle" \/ JoinedHandlerCalls)

\* A queued message is handled unless its task is stopped first: a notification
\* lost between the drain and the wait delays it by one time-out at most.
QueuedIsHandled ==
  \A t \in Task, n \in Number :
    (running[t] /\ \E i \in 1 .. Len(msgs[t]) : msgs[t][i].no = n)
      ~> \/ ~running[t]
         \/ \E i \in 1 .. Len(handled[t]) : handled[t][i] = n
         \/ JoinedHandlerCalls

\* The work of a task goes on, and its destruction too.
WorkGoesOn == DestroyReturns /\ QueuedIsHandled
=============================================================================
