------------------------------ MODULE MemStore ------------------------------
(***************************************************************************)
(* The in-memory store of com_mem.cpp and the thread that announces its    *)
(* changes.  A writer changes mem_msg under mutex_share_mem, then, with    *)
(* that mutex free again, queues an announcement under mutex_keys, then    *)
(* posts sem_keys: three steps, in between which the other writers and the *)
(* announcing thread run.  The thread takes one token and one announcement *)
(* at a time and calls the listeners with no mutex held.                   *)
(*                                                                         *)
(* A listener reads the key again when it is told of a change: a callback  *)
(* at once, a task when it comes to the message.  That is the use the      *)
(* interface is made for; seen is what the listener knows.                 *)
(*                                                                         *)
(* The set of callbacks of a key is a set here.  The comparison of         *)
(* MemDataCallbackItem (cb != cb) is no ordering and std::set keeps sets of *)
(* at most two callbacks right with it: Callback must not be larger.       *)
(***************************************************************************)
EXTENDS Integers, Sequences, FiniteSets

CONSTANTS
  Writer,       \* the threads that change the store
  Key, Value, Absent,
  Callback,     \* callbacks of com_mem_add_notify
  Task,         \* names of tasks of com_mem_add_notify
  ReloadTo,     \* contents that a file or message can bring
  MaxChanges,   \* bound on changes
  MaxHooks      \* bound on calls of addListener and removeListener

Whole == ""     \* the key under which com_mem_clear and _from_ announce
ASSUME WriterAssumption == IsFiniteSet(Writer)
ASSUME KeyAssumption == Whole \notin Key /\ Absent \notin Value
ASSUME ListenerAssumption == Callback \cap Task = {}
ASSUME ReloadAssumption == ReloadTo \subseteq [Key -> Value \cup {Absent}]

Listener == Callback \cup Task
HookKey == Key \cup {Whole}
Flag == {"new", "updated", "removed", "cleared", "reload"}
Item == [key : HookKey, flag : Flag]
Content == [Key -> Value \cup {Absent}]

VARIABLES
  mem_msg,      \* the store
  wpc, item,    \* per writer: where it is, and the announcement it makes
  keys,         \* the queue of announcements
  sem_keys,     \* tokens of the semaphore
  hooks,        \* hooks_cb and hooks_task: listeners by key
  running, rpc, \* MemDataSyncManager::running, its thread
  hand,         \* ThreadRunner: the announcement it handles
  tell,         \* ThreadRunner: the copies cbs and tasks, what is left of them
  spc,          \* the thread that calls stopMemDataSyncManager
  changes,      \* number of changes so far
  inbox,        \* external: keys whose announcement a task has not handled yet
  seen,         \* external: what a listener read last
  told,         \* history: the last flag announced for a key
  raced,        \* history: keys last changed beside an unqueued announcement
  hollow,       \* history: missing keys last set to nothing, announced as new
  hookings      \* number of calls of addListener and removeListener

storeVars == <<mem_msg, changes, raced, hollow>>
writerVars == <<wpc, item>>
runnerVars == <<rpc, hand, tell>>
listenVars == <<inbox, seen>>
vars == <<storeVars, writerVars, keys, sem_keys, hooks, running, runnerVars, spc,
          listenVars, told, hookings>>

NoItem == [key |-> Whole, flag |-> "reload"]

\* The first stopMemDataSyncManager, which startMemDataSyncManager calls, leaves
\* a token behind.
Init ==
  /\ mem_msg = [k \in Key |-> Absent] /\ changes = 0 /\ raced = {} /\ hollow = {}
  /\ wpc = [w \in Writer |-> "idle"] /\ item = [w \in Writer |-> NoItem]
  /\ keys = <<>> /\ sem_keys = 1
  /\ hooks = [k \in HookKey |-> {}] /\ hookings = 0
  /\ running = TRUE /\ rpc = "loop" /\ hand = NoItem /\ tell = {}
  /\ spc = "idle"
  /\ inbox = [t \in Task |-> {}] /\ seen = [l \in Listener |-> [k \in Key |-> Absent]]
  /\ told = [k \in Key |-> "removed"]

-----------------------------------------------------------------------------
(* Writers *)

\* The keys an announcement is about.
About(k) == IF k = Whole THEN Key ELSE {k}

\* What isKeyExist finds.
Keys == {k \in Key : mem_msg[k] # Absent}

\* Keys that w changes beside the announcement of another writer that is not
\* queued yet: the two can be queued in the other order.
Racing(w, k) ==
  {x \in About(k) : \E v \in Writer \ {w} : wpc[v] = "notify" /\ x \in About(item[v].key)}

\* Under mutex_share_mem: the store becomes m, which is announced as i; h are
\* the keys that i announces as new and m has not.
Change(w, m, i, h) ==
  /\ wpc[w] = "idle" /\ changes < MaxChanges /\ spc = "idle"
  /\ mem_msg' = m
  /\ raced' = (raced \ About(i.key)) \cup Racing(w, i.key)
  /\ hollow' = (hollow \ About(i.key)) \cup h
  /\ changes' = changes + 1
  /\ wpc' = [wpc EXCEPT ![w] = "notify"]
  /\ item' = [item EXCEPT ![w] = i]
  /\ UNCHANGED <<keys, sem_keys, hooks, running, runnerVars, spc, listenVars, told, hookings>>

\* Message::set stores nothing when v is Absent: a NULL string, NULL or no bytes,
\* empty ComBytes.  The key is announced all the same, as new when it is missing.
com_mem_set(w, k, v) ==
  Change(w, IF v = Absent THEN mem_msg ELSE [mem_msg EXCEPT ![k] = v],
         [key |-> k, flag |-> IF k \in Keys THEN "updated" ELSE "new"],
         IF v = Absent THEN {k} \ Keys ELSE {})

com_mem_remove(w, k) ==
  Change(w, [mem_msg EXCEPT ![k] = Absent], [key |-> k, flag |-> "removed"], {})

\* Fault: nobody is told.
clearSilently(w) ==
  /\ wpc[w] = "idle" /\ changes < MaxChanges
  /\ mem_msg' = [k \in Key |-> Absent]
  /\ changes' = changes + 1
  /\ UNCHANGED <<raced, hollow, writerVars, keys, sem_keys, hooks, running, runnerVars, spc,
                 listenVars, told, hookings>>

com_mem_clear(w) ==
  Change(w, [k \in Key |-> Absent], [key |-> Whole, flag |-> "cleared"], {})

\* com_mem_from_json, com_mem_from_file, com_mem_from_message
reload(w) == \E m \in ReloadTo : Change(w, m, [key |-> Whole, flag |-> "reload"], {})

\* notify(): the announcement is queued under mutex_keys ...
pushKey(w) ==
  /\ wpc[w] = "notify"
  /\ keys' = Append(keys, item[w])
  /\ item' = [item EXCEPT ![w] = NoItem]
  /\ wpc' = [wpc EXCEPT ![w] = "post"]
  /\ UNCHANGED <<storeVars, sem_keys, hooks, running, runnerVars, spc, listenVars,
                 told, hookings>>

\* Fault: only the first announcement in the queue is posted.
postFirst(w) ==
  /\ wpc[w] = "post"
  /\ sem_keys' = sem_keys + (IF Len(keys) = 1 THEN 1 ELSE 0)
  /\ wpc' = [wpc EXCEPT ![w] = "idle"]
  /\ UNCHANGED <<storeVars, item, keys, hooks, running, runnerVars, spc, listenVars,
                 told, hookings>>

\* ... and posted after it.
postKey(w) ==
  /\ wpc[w] = "post"
  /\ sem_keys' = sem_keys + 1
  /\ wpc' = [wpc EXCEPT ![w] = "idle"]
  /\ UNCHANGED <<storeVars, item, keys, hooks, running, runnerVars, spc, listenVars,
                 told, hookings>>

-----------------------------------------------------------------------------
(* Listeners *)

\* l reads the keys that k is about.
Reads(l, k) ==
  seen' = [seen EXCEPT ![l] = [x \in Key |-> IF x \in About(k) THEN mem_msg[x] ELSE @[x]]]

hooksFrame ==
  /\ hookings < MaxHooks /\ hookings' = hookings + 1 /\ spc = "idle"
  /\ UNCHANGED <<storeVars, writerVars, keys, sem_keys, running, runnerVars, spc, inbox, told>>

\* The application reads the key once after it has asked to be told of changes.
addListener(l, k) ==
  /\ hooks' = [hooks EXCEPT ![k] = @ \cup {l}]
  /\ Reads(l, k)
  /\ hooksFrame

\* removeListener(key) without a callback or without a task: all of that kind.
removeListeners(k, kind) ==
  /\ hooks' = [hooks EXCEPT ![k] = @ \ kind]
  /\ UNCHANGED seen
  /\ hooksFrame

\* removeListener(key, task_name)
removeTask(k, t) ==
  /\ hooks' = [hooks EXCEPT ![k] = @ \ {t}]
  /\ UNCHANGED seen
  /\ hooksFrame

\* removeListener(key, cb) looks for an item whose cb is NULL and finds none.
removeCallback(k, c) ==
  /\ UNCHANGED <<hooks, seen>>
  /\ hooksFrame

\* A task handles the message about k.
taskHandles(t, k) ==
  /\ k \in inbox[t]
  /\ inbox' = [inbox EXCEPT ![t] = @ \ {k}]
  /\ Reads(t, k)
  /\ UNCHANGED <<storeVars, writerVars, keys, sem_keys, hooks, running, runnerVars, spc,
                 told, hookings>>

-----------------------------------------------------------------------------
(* ThreadRunner *)

RGoto(label) == rpc' = label
runnerFrame == UNCHANGED <<storeVars, writerVars, hooks, running, spc, hookings>>

loop ==
  /\ rpc = "loop"
  /\ RGoto(IF running THEN "wait" ELSE "ended")
  /\ runnerFrame /\ UNCHANGED <<keys, sem_keys, hand, tell, listenVars, told>>

\* Fault: the token is not checked for.
waitAlways ==
  /\ rpc = "wait"
  /\ sem_keys' = sem_keys - 1
  /\ RGoto("check")
  /\ runnerFrame /\ UNCHANGED <<keys, hand, tell, listenVars, told>>

\* sem_keys.wait(5000)
wait ==
  /\ rpc = "wait" /\ sem_keys > 0
  /\ sem_keys' = sem_keys - 1
  /\ RGoto("check")
  /\ runnerFrame /\ UNCHANGED <<keys, hand, tell, listenVars, told>>

\* The wait times out.
waitTimeout ==
  /\ rpc = "wait" /\ sem_keys = 0
  /\ RGoto("loop")
  /\ runnerFrame /\ UNCHANGED <<keys, sem_keys, hand, tell, listenVars, told>>

check ==
  /\ rpc = "check"
  /\ RGoto(IF running THEN "pop" ELSE "ended")
  /\ runnerFrame /\ UNCHANGED <<keys, sem_keys, hand, tell, listenVars, told>>

\* A token without an announcement: the one that a stop posts.
nothing ==
  /\ rpc = "pop" /\ keys = <<>>
  /\ RGoto("loop")
  /\ runnerFrame /\ UNCHANGED <<keys, sem_keys, hand, tell, listenVars, told>>

\* Told(i): what the last announcement of each key is after i.
Told(i) == [k \in Key |-> IF k \in About(i.key) THEN i.flag ELSE told[k]]

\* Fault: the announcement queued last is taken first.
popLast ==
  /\ rpc = "pop" /\ keys # <<>>
  /\ hand' = keys[Len(keys)]
  /\ keys' = SubSeq(keys, 1, Len(keys) - 1)
  /\ told' = Told(hand')
  /\ RGoto("hooks")
  /\ runnerFrame /\ UNCHANGED <<sem_keys, tell, listenVars>>

pop ==
  /\ rpc = "pop" /\ keys # <<>>
  /\ hand' = Head(keys)
  /\ keys' = Tail(keys)
  /\ told' = Told(Head(keys))
  /\ RGoto("hooks")
  /\ runnerFrame /\ UNCHANGED <<sem_keys, tell, listenVars>>

\* Under mutex_hooks: the listeners of the key are copied.
copyHooks ==
  /\ rpc = "hooks"
  /\ tell' = hooks[hand.key]
  /\ RGoto("deliver")
  /\ runnerFrame /\ UNCHANGED <<keys, sem_keys, hand, listenVars, told>>

\* ComTaskManager::sendMessage, to the tasks first.
tellTask(t) ==
  /\ rpc = "deliver" /\ t \in tell
  /\ tell' = tell \ {t}
  /\ inbox' = [inbox EXCEPT ![t] = @ \cup {hand.key}]
  /\ runnerFrame /\ UNCHANGED <<keys, sem_keys, rpc, hand, seen, told>>

\* val.cb(item.key, item.flag, val.ctx), with no mutex held.
tellCallback(c) ==
  /\ rpc = "deliver" /\ c \in tell /\ tell \cap Task = {}
  /\ tell' = tell \ {c}
  /\ Reads(c, hand.key)
  /\ runnerFrame /\ UNCHANGED <<keys, sem_keys, rpc, hand, inbox, told>>

allTold ==
  /\ rpc = "deliver" /\ tell = {}
  /\ hand' = NoItem
  /\ RGoto("loop")
  /\ runnerFrame /\ UNCHANGED <<keys, sem_keys, tell, listenVars, told>>

-----------------------------------------------------------------------------
(* stopMemDataSyncManager, called by the destructor when the program ends:   *)
(* calls under way go on, none begins.                                     *)

stopFrame ==
  UNCHANGED <<storeVars, writerVars, keys, hooks, runnerVars, listenVars, told, hookings>>

stopPost ==
  /\ spc = "idle"
  /\ sem_keys' = sem_keys + 1
  /\ spc' = "clear"
  /\ stopFrame /\ UNCHANGED running

stopClear ==
  /\ spc = "clear"
  /\ running' = FALSE
  /\ spc' = "join"
  /\ stopFrame /\ UNCHANGED sem_keys

stopJoin ==
  /\ spc = "join" /\ rpc = "ended"
  /\ spc' = "stopped"
  /\ stopFrame /\ UNCHANGED <<running, sem_keys>>

-----------------------------------------------------------------------------
Write(w) ==
  \/ \E k \in Key, v \in Value \cup {Absent} : com_mem_set(w, k, v)
  \/ \E k \in Key : com_mem_remove(w, k)
  \/ com_mem_clear(w)
  \/ reload(w)

Announce(w) == pushKey(w) \/ postKey(w)

Hook ==
  \/ \E l \in Listener, k \in HookKey : addListener(l, k)
  \/ \E k \in HookKey, kind \in {Callback, Task} : removeListeners(k, kind)
  \/ \E k \in HookKey, t \in Task : removeTask(k, t)
  \/ \E k \in HookKey, c \in Callback : removeCallback(k, c)

ThreadRunner ==
  \/ loop \/ wait \/ waitTimeout \/ check \/ nothing \/ pop \/ copyHooks
  \/ \E t \in Task : tellTask(t)
  \/ \E c \in Callback : tellCallback(c)
  \/ allTold

Stop == stopPost \/ stopClear \/ stopJoin

Next ==
  \/ \E w \in Writer : Write(w) \/ Announce(w)
  \/ Hook
  \/ \E t \in Task, k \in HookKey : taskHandles(t, k)
  \/ ThreadRunner
  \/ Stop

Spec == Init /\ [][Next]_vars

-----------------------------------------------------------------------------
TypeOK ==
  /\ mem_msg \in Content /\ changes \in Nat
  /\ raced \subseteq Key /\ hollow \subseteq Key
  /\ wpc \in [Writer -> {"idle", "notify", "post"}] /\ item \in [Writer -> Item]
  /\ keys \in Seq(Item) /\ sem_keys \in Nat
  /\ hooks \in [HookKey -> SUBSET Listener] /\ hookings \in Nat
  /\ running \in BOOLEAN
  /\ rpc \in {"loop", "wait", "check", "pop", "hooks", "deliver", "ended"}
  /\ hand \in Item /\ tell \subseteq Listener
  /\ spc \in {"idle", "clear", "join", "stopped"}
  /\ inbox \in [Task -> SUBSET HookKey] /\ seen \in [Listener -> Content]
  /\ told \in [Key -> Flag]

\* Every queued announcement has a token of its own, in the semaphore, in the
\* thread's hand or about to be posted: none waits for the next change.  The
\* thread takes one announcement per token and would never come back to others.
Posting == {w \in Writer : wpc[w] = "post"}
TokensCoverItems ==
  rpc # "ended" =>
    Len(keys) <= sem_keys + Cardinality(Posting) + (IF rpc \in {"check", "pop"} THEN 1 ELSE 0)

\* Nothing is on its way to a listener.
Quiet ==
  /\ keys = <<>> /\ tell = {} /\ rpc # "hooks"
  /\ \A w \in Writer : wpc[w] # "notify"
  /\ \A t \in Task : inbox[t] = {}

\* Those to whom the last announcement about k went: clear and reload are
\* announced under the empty key alone.
Hearers(k) == IF told[k] \in {"cleared", "reload"} THEN hooks[Whole] ELSE hooks[k]

\* A listener that reads again whenever it is told knows the store once everything
\* is quiet, however changes, announcements and subscriptions interleave.
ListenerConverges ==
  Quiet => \A k \in Key : \A l \in Hearers(k) : seen[l][k] = mem_msg[k]

\* A listener that goes by the flags alone is right about a key's existence, with
\* two exceptions: two writers changed the key before the first had queued its
\* announcement, since notify runs after mutex_share_mem is unlocked; or a set of
\* nothing announced a missing key as new.  That an existing key was updated is
\* right of such a set too.
FlagsTellExistence ==
  Quiet => \A k \in Key \ raced :
             /\ told[k] \in {"removed", "cleared"} => k \notin Keys
             /\ told[k] = "updated" => k \in Keys
             /\ told[k] = "new" => k \in Keys \cup hollow
=============================================================================
