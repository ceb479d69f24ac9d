# TLA+ models of libcom

libcom is a C++ utility library: threads and tasks, synchronisation, timers,
sockets, shared data, storage and text helpers. Nearly all of its hard behaviour
is in objects that several threads of the application share. This directory
models those objects in TLA+, checks them with TLC and proves the central
results with TLAPS. Paths below are relative to the repository (`src/` is its
source directory); `PROJECT.json` maps every definition to the lines it stands
for.

## 1. Inventory

### Threads, tasks and rendezvous

| Component | Source | State | Operations | Hard behaviour | What makes it correct |
|---|---|---|---|---|---|
| SyncAdapter | `com_sync.cpp` | `sync_map` uuid -> (semaphore, bytes), `sem_cache`, `uuid` | createUUID, syncPrepare, syncWait, syncPost, syncCancel, setSemCount | `syncWait` holds no lock while it waits and returns its semaphore to the cache before it erases the entry; late, repeated and empty posts; cancels by others | a caller obtains only bytes accepted for its own request; no wake-up is lost; no semaphore is shared by two waiters, leaked or handed out after its deletion, and nobody waits on a deleted one |
| ComMutex | `com_base.cpp` 3460 | one 64-bit atomic: writer bit and reader count | lock, unlock, lock_shared, unlock_shared | a reader counts itself in before it looks at the writer bit; both spin | writers exclude everybody; nothing is stuck when the lock is free; who can starve |
| ComSem, ComCondition | `com_base.cpp` 1995, 3524 | value / wait set | post, wait, reset / notify, wait | the condition has no predicate: a notify before the wait is lost | modelled inside their users |
| ComTask, ComTaskManager | `com_task.cpp`, `com_task.h` | `tasks`, per task a queue, `running`, a thread | createTask, destroyTask, sendMessage, sendMessageAndWait, sendAck, broadcast | `destroyTask` joins the task's thread under `mutex_tasks`; messages pushed around a stop; lost notifies | order and at-most-once delivery, onStart/onStop bracket messages, no lost wake-up for ever, no deadlock |
| ComThreadPool | `com_thread.h` 96 | `msgs`, `threads` with a flag each, running flag | push, worker loop, manager loop, start, stop, waitAllDone | worker waits for ever with no predicate; notify before wait; stop tries once to wake; two threads join and delete one thread | every message is processed once, thread counts stay in bounds, stop terminates |
| ComThreadRunner | `com_thread.h` 481 | queue, running flag | push, loop, destructor | waits before it drains; stops between messages | at-most-once, in order, bounded delay |
| ComWorkerManager | `com_task.cpp` 1-152 | `workers` by name | createWorker, destroyWorker(All), the destroy message of a finished worker | a finished worker's destroy message meets a newer worker of the same name; the search loop | a worker is destroyed once, and the right one |
| ComTimer, ComTimerManager | `com_timer.cpp` | `timers`, 100 ms tick, a pool | start, stop, restart, tick | a timer stopped between collection and delivery still fires; re-arm and removal during a tick | at most one expiry per interval, one-shot timers fire once, none starve |

### Shared data

| Component | Source | State | Operations | Hard behaviour | What makes it correct |
|---|---|---|---|---|---|
| com_mem store | `com_mem.cpp` | key -> value, listener tables, notification queue | set, remove, clear, addListener, removeListener, notification thread | change and notification are separate critical sections; hooks are copied before they are called | each change is announced with its kind, unless it stored nothing; a reader of notifications ends with the stored state |
| com_kv | `com_kv.cpp` | a table of an SQLite file | set, get, remove, remove_all, front/tail, batch | every call opens the file anew and makes the table if it sees none; remove_all is two statements; locks, retries, crashes | keys stay in the order in which they were set; a call or a batch happens as a whole or not at all |
| ComConfig | `com_config.cpp` | ini sections | load, get, set, groups, save | messages on change | last write read back |
| ComMapLRU | `com_base.h` 434 | map and order list, which refer to each other | put, get, capacity | a node of the list is freed and given out again; eviction at the limit | the entries used last are there, with what was stored last |
| auto test data | `com_auto_test.cpp` | latest values by group | set, get, remove, clear | check-then-act | - |

### Sockets and processes

| Component | Source | State | Operations | Hard behaviour | What makes it correct |
|---|---|---|---|---|---|
| ComTcpServer | `com_socket_linux.cpp` 1-327 | `clients` fd -> client, epoll set, pool | listener loop, accept, close, receive in the pool, send, stop | edge-triggered events dropped after a close; the descriptor is closed before its entry is erased and may be reused in between; close from several threads | one connect and one disconnect callback per connection; entries belong to open descriptors |
| ComUnixDomainServer | `com_socket_linux.cpp` 329-653 | as above with an fd queue | as above | as above | as above |
| ComTcpClient, ComUnixDomainClient | `com_socket.cpp` 1096-1415 | socket, flags | start, reconnect loop, send, stop | check-then-wait on connection; the descriptor is shared without a lock | no permanent wait after a connection |
| ComStringIpc client/server | `com_socket.cpp` 1601-2003 | name <-> fd, partial data per fd | register, forward, broadcast | partial data outlives its connection; one descriptor with two names | a message reaches the named client whole |
| ComMulticastNode | `com_socket.cpp` 1417-1599 | socket | start, receive, send | - | - |
| ComProcessSem/Mutex/Condition | `com_thread.cpp` 908-1545 | System V semaphores | init, post, wait, lock, notify, uninit | SEM_UNDO reverts a dead process's operations; non-atomic creation and notify | exclusion and recovery after a crash |
| ComShareMemory, process helpers | `com_thread.cpp` | - | - | kernel I/O | - |

### Data helpers

`ByteStreamReader` (`com_base.cpp` 4070) reads and searches bytes in memory or, through
`com_file.cpp` 1443-1635, in a file: its state is a position, and a search should find what
is there and end. The others have no loops of their own worth a module. Byte buffers, `Message`, `ComOption` and text functions
(`com_base.cpp`), `Serializer` (`com_serializer.cpp`), `com_stack.cpp`,
`com_url.cpp`, `com_base64.cpp`, `com_crc.cpp`, `com_md5.cpp` are sequential.
The other file functions, XML, SQLite wrappers, DNS, netlink and logging are I/O around the kernel or
around vendored code. `spdlog`, `fmt`, `tinyxml2`, `SimpleIni`, `cJSON`, `httplib`,
SQLite and cmocka are vendored and are not modelled.

### How the components interact

`ComTaskManager::sendMessageAndWait` prepares a request in the SyncAdapter named
"com_task", queues the message in a task and waits; the task answers with
`sendAck`, which posts. The timer thread and com_mem's notification thread send
messages to tasks and run callbacks in a ComThreadPool. Both socket servers hand
descriptors to a ComThreadPool. Every queue's consumer sleeps in a ComCondition or
a ComSem.

## 2. Plan

One module per object shared by threads or processes, the most used ones first. Every
module takes its sizes as CONSTANTS with named assumptions, has one action per critical
section or unlocked step of the code, and none declares a RECURSIVE operator, so
that each can be proved about.

| | Module | Models | Abstract specification | State |
|---|---|---|---|---|
| 1 | `SyncAdapter` | `com_sync.cpp` | `SyncRendezvous` | checked, all safety but the run's violated one proved, and the refinement |
| 2 | `TaskManager` | `com_task.cpp` 154-624 and the SyncAdapter it uses | - | checked, all safety proved |
| 3 | `ComMutex` | the spinning read-write lock | - | checked, all safety proved |
| 4 | `ThreadPool` | `ComThreadPool` | - | checked, all safety proved |
| 5 | `MemStore` | `com_mem.cpp` | - | checked, all safety proved |
| 6 | `TimerManager` | `com_timer.cpp` | - | checked, all safety proved |
| 7 | `SocketServer` | `com_socket_linux.cpp`, both servers | - | checked, all safety proved |
| 8 | `WorkerManager` | `ComWorkerManager` with its `ComThreadRunner` | - | checked, its safety proved |
| 9 | `ProcessSync` | `ComProcessMutex`, `ComProcessSem`, `ComProcessCondition` | - | checked, its safety proved |
| 10 | `StringIpc` | the string IPC client and server over 7 | - | checked, where names lead is proved |
| 11 | `TcpClient` | `ComTcpClient`, `ComUnixDomainClient` | - | checked |
| 12 | `KvStore` | `com_kv.cpp` and what it uses of `com_sqlite.cpp` | `KvQueue` | checked, the refinement proved |
| 13 | `MapLRU` | `ComMapLRU` | the order of all uses, kept beside it | checked, its safety proved |
| 14 | `ByteStream` | the searches of `ByteStreamReader` and `com_file.cpp` | occurrences of a key in a sequence | checked |

Composition: `SyncAdapter` is used by `TaskManager` through what `SyncRendezvous`
promises (ask, post, return); `MemStore` and `TimerManager` end where they hand a
message to a task or a pool, whose queueing `TaskManager` and `ThreadPool` show;
`StringIpc` uses connections and readers as `SocketServer` provides them. The modules
`MCThreads`, `MCPools`, `MCSocketServer`, `MCMemStore` and `MCLive` put several components that share no
state into one specification: its first state chooses one of them, and only that one
moves. Such a run answers each component's questions and nothing about their interplay.
The fairness of the parts that do not move is vacuous: none of their fair actions is
enabled in their initial states, or its condition says so.

A component's proofs are in `<component>_proofs`; those of components that are checked as
instances of a composition are about that composition: `WorkerManager` and `ProcessSync` in
`MCThreads_proofs`, `KvStore` and `MapLRU` in `MemStore_proofs`, `StringIpc` in
`SocketServer_proofs`.

## 3. The modules

Names of variables and actions are those of the code where it has them. A module
`MCx` adds to module `x` only the sets and symmetries of its runs. Operators with
the comment "Fault:" are not part of the specification: each is a plausible bug in
the operator that follows it, and shows that a property can tell the difference.

### SyncAdapter, SyncRendezvous

`sync_map` is two functions of the uuid, `sync_sem` and `sync_data`; the cache is a
sequence; a semaphore is an address with a `value` and is `alive` from `new` to
`delete`. `syncPrepare`, `syncPost`, `syncCancel` and `setSemCount` are one action
each, because a mutex covers them. `syncWait` is five: look up, wait or time out,
`pushSem`, erase. It holds no lock in between, and in particular gives its
semaphore back to the cache while the entry still points to it.

`SyncRendezvous` is what remains for a caller: requests are open or not, and a
wait returns bytes kept for its own request, or none. The mapping is: open = has
an entry, reply = `sync_data`, asked = `req`, got = `result`.

There are two kinds of callers. com_task.cpp follows an ownership rule, `Disciplined`:
every request has a uuid of its own from `createUUID`, and only its client
cancels it. Callers of com_sync may also choose their uuids (`FixedUUID`, as
com_sync_test.cpp does) and cancel those of others (`Canceller`).

### TaskManager

A task has a queue, a condition, a `running` flag and a thread whose place in
`TaskRunner` is `pc`. `mutex_tasks` is modelled by its owner, since `destroyTask`
keeps it while it joins; the task's queue mutex is inside the actions. `stopTask`
and its notify are two actions, and so are the last look at `running` and the
wait: notifications between them are lost, and the one-second time-out
(`wake`) makes up for it. A handler may send on to other tasks (`onMessageRelay`)
and answer (`sendAck`); it does not create or destroy tasks. `stopped_at` is history: where the thread was when
`running` was cleared. The wildcard of a name
is the set of tasks that it matches.

### ComMutex

The word is a record of the writer's bit and the readers' count (which stays below
2^63: every reader is a thread). Each load, compare-and-swap, increment and
decrement is an action. The weak compare-and-swap may fail without reason,
which reads the word again and is therefore the same as another turn of the loop.

### ThreadPool

Worker, manager, pushers, waiters and the stopping thread, one action per critical
section. `threads` is the table; the thread object of an entry is "none", "live" or
"deleted", since both the manager and `stopThreadPool` join and delete without a
lock. A join of a deleted object is undefined: the model goes on or ends as
"crashed". `wakeSpuriously` is the condition variable's right to wake anybody.

### MemStore

A change of `mem_msg`, the announcement in `keys` and the token in `sem_keys` are
three actions of a writer. The announcing thread is modelled step by step: token,
announcement, copies of the listener sets, calls. A listener reads the key when it is
told, which is what the interface is for; `seen` is what it read last. `told`,
`raced` and `hollow` are history. A `com_mem_set` may be given nothing (`Absent`), which
`Message::set` does not store; it is announced all the same, and `hollow` are the missing
keys announced as new in that way. `com_mem_remove_notify(key, callback)` removes nothing, as in the
code. No change and no subscription begins once the stop has begun: the stop is the
static destructor's.

### TimerManager

A ComTimer object and its entry in `timers` are different things: `start` copies
the object, and finds an earlier copy by its uuid. A uuid is the pair of its object
and a number, and `setType` takes the next one. The loop is three actions: the scan
under `mutex_timers`, handing on without it, the pause. `stop` is two: remove the
entry, reset the object's.

### SocketServer

Both servers in one module, chosen by `kind`. The kernel's half is external and modelled as
the code uses it: a descriptor number is the lowest free one, client events are
edge-triggered and come once for each change, the listening socket's is level-triggered,
and a `recv` that finds nothing, an end or an error says so. `accept4` and the
insertion of the entry are one step; every other step of `closeClient` (look up, tell,
close, erase) is its own. A job of the pool names a descriptor and carries the
description of its client, and both can be out of date when it is read.

`raced` holds the connections that two calls of `closeClient` touched, or whose number one of
them still held when it was given out again: for them the code calls back twice, closes
twice and loses entries, so the properties speak of the others, and say that the Unix
server, which closes in one thread, has none. `lost` holds the connections whose event the
listener left unhandled when it broke out of its loop after a close. `stopServer` walks the
map with `clients[i]`, which adds an empty entry for each index that is no descriptor, closes
everything and leaves the entries there; a second stop, as in the destructor, closes the same
numbers again and is not modelled.

### StringIpc

A frame is cut into its head (both names) and its tail (text and zero byte), which is the
least that lets pieces of two frames mix. `vals` and `val` keep what is gathered. The steps
of the server's `onRecv` are: add a piece; register the sender; hand on or forward; clear.
What a reader copies from `vals` it copies when it registers. The server's own `sendString`
runs in a thread of the application (`App`), which closes the connection itself when the
send fails, as a forwarding reader does. Three ghosts name what the
code does get wrong: `mixed` (two threads of the pool were inside the handling of pieces of
one connection, which nothing in the code prevents), `misnamed` (a frame was registered after
its connection had ended, or was about to be closed, or after a later one), `raced`
(a thread entered `closeClient` for a descriptor
that another was closing). The proof of NamesFollow showed that overlaps must be noted on
entry: with a third string a second closer can enter after the first has told the end of
the connection, and then remove the name of the descriptor's next owner. A remainder of an ended connection before the first
frame of the next one is allowed by HandedWhole itself. TLC confirms that
the exceptions `mixed`, `misnamed` and the remainder are needed; `raced` and a client's own
remainder do not come up in this instance.

### WorkerManager

Critical sections of `mutex_workers` are one action each, except the two that keep it
longer: `destroyWorkerAll` joins inside, and a `destroyWorker` whose search meets a name
that does not match never leaves its loop (`findHangs`). A worker's thread runs its
function, which may call the manager (`ask`), and pushes the request for its own
destruction to the runner. `Stuck` names the two deadlocks. `createWorker(const char*)`
calls itself for ever, as `com_task_test.cpp:139` does with a literal name, and is left out.

### ProcessSync

One System V semaphore, as one of the three classes; the processes share nothing
else. The kernel's half: waiters in a queue, an adjustment per process that its end adds to the
value (SEM_UNDO), SETVAL clears adjustments, IPC_RMID ends waits. A process may end before
any of its steps, and comes back where the class is a mutex. Creation and SETVAL are two
actions, and so are the counting and the posting of a notify. `disturbed` says that a SETVAL
met operations in progress or that a dead poster's tokens were already used; `Orphan` that the
creator ended between IPC_CREAT and SETVAL (or that `reset(false)` was called), after which
nobody ever gets the lock. Two classes that use one name share one semaphore; that is not
modelled.

### TcpClient

One action per access to what the threads share: the look at the flags, close, forget, tell,
clear the flag, open, set `connected`, notify, tell. Connections are numbered, so that a
request can be about one that is no longer there. `send` is two actions, the failing write
and the setting of `reconnect_now`; `waitForConnected` is two, the look and the sleep. The
Unix client connects in `startClient` and says that it is connected whether it is or not.
What is read, the sleeps' lengths and a wait with a time-out are left out.

### KvStore, KvQueue

A call is: open and look for the table, create it, run the statement and close, so that one
action stands for each access to the file; `com_kv_remove_all` has two, and starts over when
the second finds the file locked. A batch holds the write lock (`owner`) from its first change
to its end, and `draft` is the table as it sees it. SQLite is external: one writer, a
statement outside a transaction is atomic, an open transaction is rolled back when its handle
is closed or its process has ended. `giveUp`, and the failure of a COMMIT, may happen at any
time, since programs that only read can keep the file locked too; `die` may come before any
step.

`KvQueue` is what the users of a file may rely on: which keys there are, their data, and which
was set before which. The mapping orders keys by the ids of their rows. That this order is
the order of the calls is not evident: `com_kv_remove_all` resets the sequence of ids in a
statement of its own, when others may have added rows already, and the order is only saved
by AUTOINCREMENT's taking the largest row into account as well. A key spelled like the
column, `uuid`, is one of the three keys: the calls that look a key up write it between
double quotes, and then mean every row.

### MapLRU

`put` and `get` change the list and the map together. Nodes are numbers, and a freed one may
be given out at once, so that an entry that pointed to an old node would be found out. `get`
returns a reference, and the caller may store through it (`get(k, v)`). `recent` orders all
keys ever used, those that have left too: the reference the cache is compared with.

### ByteStream

A search is a loop, one action per byte, with `buffer_pos` (or the file's position) and
`match_count`; in between come the calls that move the position. `from` and `bounced` are
ghosts. The reference is where the key occurs in the data. FoundIsThere says what the code
achieves: the searches do not go back after a false start, and pass `ab` in `aab`.
`com_file_rfind`, once at the first byte, reads it again and again (`bounced`): the search does
not end if the key is not there, and a key `aa` is found in `ab`. TLC confirms that both
exceptions are needed.

## 4. What the runs check

| Run | Instance | Shows |
|---|---|---|
| `sync_owner` | 3 clients, 3 semaphores, a cache of 1, 4 requests, time-outs at any time | under the ownership rule no two waiters share a semaphore, none is leaked and no wake-up of an accepted reply is lost; a semaphore that the over-full cache deletes is still in the entry of the wait that gave it back, until that wait erases it, and nowhere else: nobody waits on it and none is handed out |
| `sync_free` | 2 clients, a chosen uuid used again, a third party that cancels, a full and resized cache, empty posts | without the rule semaphores may be mixed up, and yet no caller obtains bytes of another request or of an earlier use of its uuid |
| `sync_wake` | 2 clients, 2 semaphores, a cache of 2, 2 requests | **violated**: a late post to a finished wait wakes the next user of the semaphore |
| `task_queue` | 2 tasks, one in protected mode that registers one of 2 ids, 2 callers, 2 messages, 2 creations, relays, answers, stops with and without force | each task handles its messages in order and once; a forced stop leaves nothing behind, and an unforced one loses only what came while the thread was not at work on its queue; no thread runs in a deleted task |
| `task_live` | 1 task, 1 caller, fair threads; or a client of each kind, 2 losses, 1 request, 1 failed send; or a reader of memory or of a file, 6 texts, 4 keys; or 2 threads that wait for replies, 2 semaphores, a cache of 1, 3 requests | `destroyTask` returns and queued messages are handled, unless a handler that itself calls the manager is being joined; a client is connected again, wakes who waits for it, and stops; a search finds what is there unless it comes behind a false start, and ends unless it has come to the first byte of a file from behind; a client whose reply was accepted returns without the help of a time-out |
| `mutex` | 3 threads, for ever; or 3 processes of each class, which die at any step; or 2 workers of 2 names | exclusion and agreement of the word, readers before writers, no reader starves; the undo keeps the books and waiters go on; no worker is deleted under its thread, and a finished one is deleted unless the manager is stuck |
| `pool_safe` | 1 to 2 workers, 2 messages, every stop | each message is in one place; entries are live until a stop, and nothing runs after one; `waitAllDone` |
| `pool_live` | 2 workers, fair threads; or a server of each kind with 2 connections and one reader | sleeping through the notification is the only way to hold up a message or a stop; what an event announces is served unless the listener left the event behind |
| `pool_lost` | 1 worker, fair threads | **violated**: that way exists |
| `server` | a server of each kind, 2 connections, 2 readers, peers that send, end and reset, closes and a stop by the application; or 2 IPC clients, 2 messages, 3 connections of which 2 end | entries follow open descriptors, ends are told once, data is handed on once; IPC messages arrive whole and once where they are sent to, and names lead to connections |
| `mem` | 2 writers, 1 key, a callback and a task, 2 changes, 3 subscriptions; or 2 programs and a file of 3 keys, ids up to 3; or a cache of 2 entries and 4 keys | no announcement without a token; listeners converge; the flags are right unless two writers race or a set stores nothing; the file is a queue of keys with atomic calls and batches; the cache keeps the entries used last |
| `timer` | 2 timers, intervals of 1 and 2.5 rounds, 4 calls | expiries in the right round, once for a one-shot, none after a stop |

Why the bounds are enough. The early `pushSem` needs a second request for the
semaphore and a third one to see the mix-up. `pushSem` compares before it pushes, so a
cache of 1 holds two semaphores, and only a third that is given back beside them is
deleted: three clients whose requests are open at once, and a fourth request that may
take up what is left. Reuse of a uuid needs one uuid used twice. A relay needs two tasks and two messages, so that order can
differ; a destroyed task is created again once, so that old and new meet. Two
workers and two messages are the least in which a worker can take what another was
notified for; one pool minimum below the maximum lets the manager both create and
recycle. Three threads let two writers compete while a reader waits. In the store two
changes by two writers can be announced in either order, and with three calls a
listener can come, go and come back. With a MaxUUID of 2 a timer is re-identified
once while its old entry lives, and 2.5 rounds tell rounding up from rounding down.
Two connections and two descriptors let the second reuse the first one's number while a job
for it is queued; two readers can hold two jobs of one descriptor. Two IPC clients with three
connections let one come back on the other's number, and two messages make two frames mix.
Three processes give a holder, a waiter and one that dies or destroys; two semaphores under
the name give a handle that is out of date. Two workers under two names let a search meet the
wrong one first, and a name be used again. Two losses and a request of a client, with a
failed send between them, let each flag be set while the receiver is about to clear it.
Two programs and ids up to 3 let a key be set between the two statements of a remove_all and
after them, and let a key that is set again move behind another; the ids start over after a
remove_all, so behaviours go on from there. Four keys in a cache of two let one be evicted,
come back, and be evicted again by keys that take over its node; the texts of the reader have
a key not at all, twice, and after a false start from either side.

Symmetry is used only in runs without a leads-to property, over threads, semaphores,
workers, writers, timers or the users of a file, which no property names. Deadlock is checked where no
thread can end for good (`sync_*`); elsewhere the system really may stop, once everything
has been stopped and the bounds are used up, and in `WorkerManager` by a deadlock of the code.

### Fairness

- `SyncAdapter`: weak fairness of each step of a running call. The time-out has
  none, since `timeout_ms <= 0` waits for ever; nobody has to post.
- `TaskManager`: weak fairness of a task's thread and of a running `destroyTask`.
  Strong fairness only of a handler that waits for `mutex_tasks`: `std::mutex` wakes
  a waiter each time it is freed, and callers leave it free between their calls, so
  the waiter does not lose that race for ever. Nobody has to call.
- `ComMutex`: weak fairness of `unlock` after a write and of a spinning reader's
  look at the word. None of writers that spin: they can starve.
- `ThreadPool`: weak fairness of workers, manager, a running stop and a running
  push. No spurious wake-up is assumed.
- `SocketServer`: weak fairness of the listener, of each reader, and of a `closeClient`
  that the application has begun. Peers and the application need not do anything.
- `WorkerManager`: strong fairness of the steps of a destruction and of a worker that waits
  for `mutex_workers`, for the reason given for `TaskManager`; a worker's function returns
  once its `running` is false, which is the contract of `createWorker`.
- `ProcessSync`: a process that has created the semaphore sets its value, and one that holds
  the mutex unlocks, unless it dies, which it may at any time.
- `ByteStream`: a search that has begun goes on.
- `TcpClient`: weak fairness of the receiver thread, of a `send` that has failed and of a
  `stopClient` that has begun. Nothing is assumed of the network, so the property ends where
  the server is out of reach.

## 5. What is proved

TLAPS proves these for all values of the constants that satisfy the named assumptions.

| Theorem | Statement | Argument |
|---|---|---|
| `SyncAdapter_proofs!TypeCorrect` | types | `TInv`: types, and a client inside `syncWait` holds a semaphore (`held` is not NULL), without which pushing it back has no type |
| `SyncAdapter_proofs!RefinesRendezvous` | `Spec => Rendezvous!Spec` | step by step from `TInv`; the semaphore steps are stutters, the erase of an entry is `Return` or `Close` |
| `SyncAdapter_proofs!AcceptedRepliesReturn` | `AcceptedReplyReturned`, an action property, for callers of every kind | `RepliesKept`: accepted bytes stay with the entry as long as there is one. The property looks at the last step of a wait only, which reads what earlier posts left |
| `SyncAdapter_proofs!SemaphoresAreOwned`, `!AcceptedRepliesWake` | under `Disciplined`, `SemOwnership` and `AcceptedReplyWakes` | `OInv`: one client per uuid, an entry has a client, owners hold distinct semaphores that are not in the cache, the cache holds only live ones once, and an accepted reply's token is in its owner's semaphore. SemOwnership alone is not inductive: it does not say that what the cache gives out belongs to nobody |
| `SyncAdapter_proofs!SemaphoresLive` | under `Disciplined`, `SemLifetime`, for every size of the cache and every `setSemCount` | `LInv`: `OInv`, a semaphore that is alive is in the cache or has an owner (`Accounted`), and unless `setSemCount` is used the cache holds at most one more than its size (`CacheRoom`). That only the entry of a wait that has given its semaphore back can refer to a deleted one follows from `OInv`, whose owners hold live semaphores: the step that deletes one ends its ownership. The gap of `com_sync.cpp:212` is in the statement: a post that comes between the deletion and the erase uses it |
| `ComMutex_proofs!TypeCorrect`, `!WordAgrees`, `!LockExcludes`, `!ReadersAreFirst` | all safety | `IInv`: types, the count is the number of readers, exclusion. Exclusion needs the agreement (a successful swap from a word of 0 means that nobody is in), and the agreement needs the count to go up and down by one with a set |
| `TaskManager_proofs!TypeCorrect`, `!OrderIsKept`, `!DestroyedIsQuiet` | types, `InOrderOnce`, `DestroyedTaskIsQuiet` | `IInv`: types, `mutex_tasks` is held exactly during `destroyTask` (`HolderDestroys`), tasks of the map run until one picks them, and those outside it have nothing of an earlier one (`LivesWhileNamed`), what was handled, is in hand and is queued together is what was pushed (`InOrder`), a forced stop leaves the queue empty, and a thread that an unforced stop finds at work on its queue leaves its loop with that empty (`stopped_at` remembers where it was). InOrderOnce sees only what was handled and says nothing about the queue from which the next comes |
| `ThreadPool_proofs!TypeCorrect`, `!MessagesInOnePlace`, `!NoThreadIsLeft` | types, `InOnePlace`, `ThreadsAreOwned` | `IInv`: types, the counters fit the sets they count, messages in hands, queue, done and cleared are `Apart` and each pushed one is `Somewhere`, entries are `Owned`, and what each place of a stop may rely on (`Stopping`). What has returned can be said only from what the steps before it leave |
| `TimerManager_proofs!TypeCorrect`, `!TimersExpire`, `!StoppedTimersRest` | types, the action property `ExpiresOnTime`, and `StoppedIsSilent` | `IInv`: types, objects have uuids of their own, and entries have one that an object has or had (`Names`), no two the same (`Single`), an entry's interval is what its age leaves of it (`Counting`), a one-shot entry has its message still to make (`Shots`), and a stopped timer has no entry (`Silent`). The properties speak of the start of an entry, of which a step of the loop sees only what is left of the interval |
| `SocketServer_proofs!TypeCorrect`, `!EntriesStayOpen`, `!CallbacksStayTrue` | types, `EntriesAreOpen`, `CallbacksAreTrue` | `IInv`: types, what each thread has in hand (`ThreadsFit`), events are of open descriptors (`EventsHold`), a connection that was not accepted is known to nobody (`Fresh`), entries fit descriptors or have a closer that knows them (`Entries`), what was told (`Told`, `UnixTold`), which pieces were read (`PiecesFit`), and whose address a job carries (`Addresses`). The proof follows an entry from `accept4` through its closer to the erase |
| `SocketServer_proofs!NamesFollowClients` | `NamesFollow` | `Followed`, unless a registration came late or closers met: a descriptor is of one connection that was made (`Owned`), who closes one does so alone after its client has left, and between telling and closing no name leads there (`ClosersApart`), and names lead to their client (`Led`). The property says nothing of closers, and the step that frees a descriptor would break it |
| `SocketServer_proofs!MessagesHandedWhole` | `HandedWhole` | `OnTheWay`: two readers of one descriptor mix its connections (`ReadersApart`), what is on the way came from the connection it is on (`FromOwner`), a reader of a connection that is not mixed finds with each end the head that belongs to it (`Gathered`), what a client has and what is on the way to it are whole frames (`FramesWhole`), and the end of a message is in one place, behind those that its connection sent before (`Placed`: an order over wires, readers' hands, outboxes, queues and what was handed). HandedWhole sees only what was handed; each step moves one end to the next place, and the order must be known at the place it comes from |
| `MCThreads_proofs!DeletedHasEnded` | `WorkerOutlivesThread` | `ManagerInv`: the threads that destroy hold the mutex or a worker that is no longer in the table (`Entries`, `Sweeps`, `Targets`), as long as the application destroys no worker of a name, a request for it is of the worker in the table, whose function has returned (`Requests`); a deleted worker has ended, and one that was stopped had a reason (`Ended`) |
| `MCThreads_proofs!BooksBalance` | `UndoBalances` | `SemaphoreInv`: no process knows a semaphore still to be made (`Handles`), the queue holds the blocked processes, each once (`Queue`), and unless disturbed the value and the adjustments make the value it was set to, a mutex's holders being those who owe one (`Balance`). The sum is over any finite set of processes |
| `MemStore_proofs!TypeCorrect` | types | inductive as it stands |
| `MemStore_proofs!TokensCover` | `TokensCoverItems` | inductive with the types: a token follows its announcement, and the thread spends one for one |
| `MemStore_proofs!ListenersConverge` | `ListenerConverges` | `HInv`: for each key and each listener of its last announcement, an announcement is still pending, or on its way to that listener, or the listener knows the value. The property itself speaks only of quiet states and is not inductive |
| `MemStore_proofs!FlagsAreTrue` | `FlagsTellExistence` | `FlagsFit`: unless two writers raced, the last announcement of a key that is queued is right about whether it exists, and so is the last one told when none is pending; a key announced as new exists or is `hollow`, last set to nothing |
| `MemStore_proofs!FileIsQueue` | `StoresSpec => ImplementsQueue` | `FileInv`: the rows and the sequence of ids of the table, and of a batch's draft, are `Good` (keys that have data have an id, each its own), only a batch holds the lock, and without one the draft is the table. The ids make the order; each statement is a step of `KvQueue` or a stutter, the second statement of a remove_all included |
| `MemStore_proofs!CacheIsRecent` | `KeepsMostRecent` | `CacheInv`: the list is as long a beginning of all uses as the capacity allows, its nodes are distinct, and the entries refer to them. That `put` finds a free node is a matter of counting |

What the proofs assume of the constants is in the named assumptions: connections, workers and
the like are any sets, finite where something is counted (readers of a ComMutex, processes,
keys of a file); the threads of a pool, the listener and the application are
different threads; None and Nothing are no value that they stand beside; bounds are numbers.
TLC evaluates these assumptions for each instance. Inductions over numbers and finite sets are
by the least counterexample (`Least`), from the library's theorem that `<` is well-founded.

Only model-checked: all leads-to properties, those of `TcpClient` and `ByteStream`
included, since liveness under fairness is out of the prover's reach; `WokenByOwnReply`,
which the code violates. Every safety invariant of a passing run is proved. The proofs of
the bounded constants (`MaxSent`, `MaxConns`, ...) hold for every value of the bound.

## 6. What the code does otherwise

Shown by a run, with the line of the test it contradicts, in `PROJECT.json` under "findings":

- `sync_wake`: a wait can return true without bytes, woken by a late reply to another
  request that had its semaphore before (`com_sync.cpp:150`).
- `pool_lost`: a message pushed between a worker's look at the queue and its wait
  can stay there for ever (`com_thread.h:300`).

Modelled as they are, and not stated as properties because no doc, comment or test says
otherwise:

- `destroyTask` of a task whose handler waits for `mutex_tasks` never returns; the
  leads-to properties of TaskManager name this case.
- A stop without force drops what is queued when it comes before the thread has begun its
  loop, while it sleeps or just before that: the loop looks at `running` before the queue
  (com_task.cpp:196, 212). A stop that comes while the thread works on the queue loses
  nothing, but a handler that goes on sending to its own task then keeps it waiting.
- With `sem_cache` over-full, `pushSem` deletes a semaphore to which an entry of `sync_map`
  still refers, and a `syncPost` before the erase uses it (com_sync.cpp:150, 212).
- A writer of ComMutex can starve behind readers.
- `stopThreadPool` and the manager can both join and delete one thread; the manager can
  create more threads than the maximum when it counts while others end.
- `waitAllDone` can return while a message is in a worker's hand.
- com_mem's flags can be announced in the opposite order of the changes. A `com_mem_set`
  of a NULL string, NULL or no bytes or empty `ComBytes` stores nothing (com_base.cpp:3744,
  3753, 3764) and is announced all the same, as `DATA_SYNC_NEW` for a key that does not
  exist. The comment in com_mem.h:7-13 says `0=update, 1=add`; the definitions below it
  are `DATA_SYNC_NEW 0` and `DATA_SYNC_UPDATED 1`, and the modelled flags are these.
- A timer stopped between the scan and the handing on still fires; `setType` makes
  an already started entry unreachable. If `sendMessage` blocks, rounds come late:
  ExpiresOnTime counts rounds.

- Two threads that close one client of the TCP server both call back and both close, and the
  second close can hit a connection that got the number in between. After a close the
  listener leaves the rest of its events, which do not come again. A job by descriptor
  number can read a later connection under the earlier one's address. Data that a peer sent
  before its end is discarded when the end is handled first. `stopServer` leaves entries.
- `destroyWorker` with a pattern that does not match the first name never returns;
  `createWorker(const char*)` calls itself; `destroyWorkerAll` deadlocks with a worker that calls the manager; a late request stops a newer
  worker of the same name.
- A second `init` of a process mutex sets its value while the first process holds it; a creator
  that dies before SETVAL leaves a lock that nobody gets.
- Two pool threads (the default is two) mix the pieces of one IPC connection; the unfinished
  piece of an ended connection spoils the first frame of the next one on its number, and a
  client's own `val` likewise; a frame taken late registers a dead number.
- `com_kv_remove(file, "uuid")` empties the file. `com_kv_batch_stop` does not look at the
  result of its COMMIT, so a batch can be lost without notice. A call can fail because another
  created the table a moment before. After `com_sqlite_set_retry_count(0)` no statement is run
  at all and yet `com_sqlite_run_sql` says 0; the model takes the count to be positive.
- A Unix client is told that it is connected when it is not; a failed `send` drops the
  connection that has replaced the failed one; `waitForConnected` can sleep through the
  connection.

- The searches of ByteStreamReader and com_file pass a key that follows a false start; in
  memory `readUntil` returns only bytes that match, and `rfind` compares keys of more than one
  byte the wrong way round and starts at the position, or behind the end when it is given an
  offset. `com_file_rfind` of a key that is not there never returns.

## 7. What is not modelled

Every component without a module is listed in `PROJECT.json` with its reason. In
short: shared memory, files, netlink, multicast and logging are thin wrappers
of the kernel; ComConfig leaves concurrency to one mutex;
the sequential helpers other than `MapLRU` and `ByteStream` convert bytes, or call the
library; vendored code is not this library's. The Windows
and macOS variants differ: on Windows the semaphore of com_mem is an event that
does not count, and TokensCoverItems would not hold there.

Of the modelled components the following is left out. `SocketServer`: what `send` puts on the
wire, failures of `startServer`, a second start or stop. `StringIpc`: `stopIPC` of the server,
the removal by name (nobody calls it), texts that contain the separator, and data races on
the map `vals` itself, which the model takes to survive. `TcpClient`: received data and
waits of a length. `ProcessSync`: a name that two classes share. `SyncAdapter`: `clearSem` in
the destructor. `TaskManager`: handlers that create or destroy tasks. `TimerManager`: `setID`,
`setMessageID` and a second start of the manager. `KvStore`: the readers other than
`com_kv_get_string`, which make one query each, and keys called `id` or `data`.
`ByteStream`: `read`, `readLine` and `readUntil` with a predicate.
