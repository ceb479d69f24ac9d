---------------------------- MODULE SyncAdapter ----------------------------
(***************************************************************************)
(* The request/reply rendezvous of com_sync.cpp.  A client creates a uuid, *)
(* prepares an entry for it in sync_map (a semaphore, taken from sem_cache *)
(* or newly allocated, and the reply bytes), hands the uuid to another     *)
(* thread, and waits on the semaphore.  The other thread posts a reply     *)
(* under that uuid, in time, late, twice or never.                         *)
(*                                                                         *)
(* One action is one critical section: mutex_sync_map encloses             *)
(* mutex_sem_cache in syncPrepare and syncCancel, and no section does      *)
(* anything a holder of the other mutex waits for.  syncWait is five       *)
(* steps, because it holds no lock between them.                           *)
(***************************************************************************)
EXTENDS Integers, Sequences, FiniteSets

CONSTANTS
  Client,      \* threads that call syncPrepare and then syncWait or syncCancel
  Canceller,   \* other threads that call syncCancel on uuids they do not own
  Payload,     \* what is posted: reply bytes, or NoReply for NULL or no bytes
  NoReply,     \* the empty ComBytes
  Sem,         \* the addresses operator new may return for a ComSem
  NoSem,       \* the NULL pointer, and the sem of an absent entry
  UUIDMax,     \* bound: createUUID is called at most this many times
  FixedUUID,   \* uuids a caller picks by itself, as com_sync_test.cpp does
  SemCount,    \* the arguments of the calls of setSemCount
  CacheMax,    \* the initial sem_cache_size_max (100 in the constructor)
  SemValueMax  \* SEM_VALUE_MAX: sem_post fails beyond it

UUID == (0 .. UUIDMax - 1) \cup FixedUUID
NoUUID == -1

ASSUME NoSemAssumption == NoSem \notin Sem
ASSUME BoundAssumption ==
  /\ UUIDMax \in Nat
  /\ SemValueMax \in Nat \ {0}
  /\ CacheMax \in Nat \ {0}
  /\ SemCount \subseteq Nat \ {0}
ASSUME FixedUUIDAssumption ==
  \A k \in FixedUUID : k \in Nat /\ k >= UUIDMax

VARIABLES
  sync_sem,            \* sync_map[u].sem; NoSem when sync_map.count(u) = 0
  sync_data,           \* sync_map[u].data
  sem_cache,           \* the queue of idle semaphores
  sem_cache_size_max,
  alive,               \* the semaphores allocated and not yet deleted
  value,               \* the value of each semaphore
  uuid,                \* the next uuid createUUID returns
  pc,                  \* where each client is in its call
  req,                 \* the uuid of each client's current or last request
  held,                \* the local variable sem of syncWait
  ret,                 \* the local variable ret of syncWait
  result,              \* the bytes the last syncWait returned
  accepted             \* history: uuids whose syncPost returned true with bytes

sync_map_vars == <<sync_sem, sync_data>>
cache_vars == <<sem_cache, alive>>
call_vars == <<pc, req, held, ret, result>>
vars == <<sync_sem, sync_data, sem_cache, sem_cache_size_max, alive, value,
          uuid, pc, req, held, ret, result, accepted>>

Init ==
  /\ sync_sem = [u \in UUID |-> NoSem]
  /\ sync_data = [u \in UUID |-> NoReply]
  /\ sem_cache = <<>>
  /\ sem_cache_size_max = CacheMax
  /\ alive = {}
  /\ value = [s \in Sem |-> 0]
  /\ uuid = 0
  /\ pc = [c \in Client |-> "idle"]
  /\ req = [c \in Client |-> NoUUID]
  /\ held = [c \in Client |-> NoSem]
  /\ ret = [c \in Client |-> FALSE]
  /\ result = [c \in Client |-> NoReply]
  /\ accepted = {}

Goto(c, label) == pc' = [pc EXCEPT ![c] = label]

-----------------------------------------------------------------------------
\* The semaphore cache.

\* Drain s and put it back, or delete it when the cache holds too many.
pushSem(s) ==
  \/ /\ Len(sem_cache) > sem_cache_size_max
     /\ alive' = alive \ {s}
     /\ UNCHANGED <<sem_cache, value>>
  \/ /\ Len(sem_cache) <= sem_cache_size_max
     /\ value' = [value EXCEPT ![s] = 0]
     /\ sem_cache' = Append(sem_cache, s)
     /\ UNCHANGED alive

\* Fault: front() without pop().
popSemPeek(s) ==
  \/ /\ sem_cache = <<>>
     /\ s \in Sem \ alive
     /\ alive' = alive \cup {s}
     /\ value' = [value EXCEPT ![s] = 0]
     /\ UNCHANGED sem_cache
  \/ sem_cache # <<>> /\ s = Head(sem_cache) /\ UNCHANGED <<cache_vars, value>>

\* s is the oldest cached semaphore, or a new one when none is cached.
popSem(s) ==
  \/ /\ sem_cache = <<>>
     /\ s \in Sem \ alive
     /\ alive' = alive \cup {s}
     /\ value' = [value EXCEPT ![s] = 0]
     /\ UNCHANGED sem_cache
  \/ /\ sem_cache # <<>>
     /\ s = Head(sem_cache)
     /\ sem_cache' = Tail(sem_cache)
     /\ UNCHANGED <<alive, value>>

setSemCount(n) ==
  /\ sem_cache_size_max' = n
  /\ UNCHANGED <<sync_map_vars, cache_vars, value, uuid, call_vars, accepted>>

-----------------------------------------------------------------------------
\* A client's request: createUUID, syncPrepare, then syncWait or syncCancel.

\* The locals of the calls to come.
NewCall(c) ==
  /\ Goto(c, "created")
  /\ held' = [held EXCEPT ![c] = NoSem]
  /\ ret' = [ret EXCEPT ![c] = FALSE]
  /\ result' = [result EXCEPT ![c] = NoReply]

createUUID(c) ==
  /\ pc[c] = "idle"
  /\ uuid < UUIDMax
  /\ req' = [req EXCEPT ![c] = uuid]
  /\ uuid' = uuid + 1
  /\ NewCall(c)
  /\ UNCHANGED <<sync_map_vars, cache_vars, sem_cache_size_max, value, accepted>>

\* The caller numbers its request by itself and may use a number again.
chooseUUID(c, u) ==
  /\ pc[c] = "idle"
  /\ u \in FixedUUID
  /\ req' = [req EXCEPT ![c] = u]
  /\ NewCall(c)
  /\ UNCHANGED <<sync_map_vars, cache_vars, sem_cache_size_max, value, uuid,
                 accepted>>

\* An entry that is already there is left as it is.
syncPrepare(c) ==
  LET u == req[c] IN
  /\ pc[c] = "created"
  /\ Goto(c, "prepared")
  /\ \/ /\ sync_sem[u] # NoSem
        /\ UNCHANGED <<sync_map_vars, cache_vars, value, accepted>>
     \/ /\ sync_sem[u] = NoSem
        /\ \E s \in Sem : popSem(s) /\ sync_sem' = [sync_sem EXCEPT ![u] = s]
        /\ sync_data' = [sync_data EXCEPT ![u] = NoReply]
        /\ accepted' = accepted \ {u}
  /\ UNCHANGED <<sem_cache_size_max, uuid, req, held, ret, result>>

\* syncWait, first section: fetch the semaphore, or fail at once.
syncWaitLookup(c) ==
  LET u == req[c] IN
  /\ pc[c] = "prepared"
  /\ held' = [held EXCEPT ![c] = sync_sem[u]]
  /\ \/ sync_sem[u] # NoSem /\ Goto(c, "waiting") /\ UNCHANGED <<ret, result>>
     \/ sync_sem[u] = NoSem /\ Goto(c, "idle")
  /\ UNCHANGED <<sync_map_vars, cache_vars, sem_cache_size_max, value, uuid,
                 req, ret, result, accepted>>

\* syncWait holds no lock while it waits on the semaphore.  Of a deleted one
\* sem_timedwait reads freed memory, and may find anything there.
semWait(c) ==
  /\ pc[c] = "waiting"
  /\ \/ /\ value[held[c]] > 0
        /\ value' = [value EXCEPT ![held[c]] = @ - 1]
     \/ held[c] \notin alive /\ UNCHANGED value
  /\ ret' = [ret EXCEPT ![c] = TRUE]
  /\ Goto(c, "woken")
  /\ UNCHANGED <<sync_map_vars, cache_vars, sem_cache_size_max, uuid, req, held,
                 result, accepted>>

\* sem_timedwait gives up; a post may come just before it returns.
semTimeout(c) ==
  /\ pc[c] = "waiting"
  /\ ret' = [ret EXCEPT ![c] = FALSE]
  /\ Goto(c, "woken")
  /\ UNCHANGED <<sync_map_vars, cache_vars, sem_cache_size_max, value, uuid,
                 req, held, result, accepted>>

\* The semaphore goes back to the cache while sync_map still refers to it.
syncWaitPushSem(c) ==
  /\ pc[c] = "woken"
  /\ pushSem(held[c])
  /\ Goto(c, "pushed")
  /\ UNCHANGED <<sync_map_vars, sem_cache_size_max, uuid, req, held, ret, result,
                 accepted>>

\* Fault: the semaphore is drained here, after it has gone to the cache.
syncWaitEraseResets(c) ==
  LET u == req[c]
      found == sync_sem[u] # NoSem IN
  /\ pc[c] = "pushed"
  /\ value' = [value EXCEPT ![held[c]] = 0]
  /\ held' = [held EXCEPT ![c] = NoSem]
  /\ ret' = [ret EXCEPT ![c] = found /\ @]
  /\ result' = [result EXCEPT ![c] = IF found /\ ret[c] THEN sync_data[u]
                                                        ELSE NoReply]
  /\ sync_sem' = [sync_sem EXCEPT ![u] = NoSem]
  /\ sync_data' = [sync_data EXCEPT ![u] = NoReply]
  /\ Goto(c, "idle")
  /\ UNCHANGED <<cache_vars, sem_cache_size_max, uuid, req, accepted>>

\* Fault: a wait that timed out leaves its entry behind.
syncWaitEraseKeeps(c) ==
  LET u == req[c]
      found == sync_sem[u] # NoSem IN
  /\ pc[c] = "pushed"
  /\ held' = [held EXCEPT ![c] = NoSem]
  /\ ret' = [ret EXCEPT ![c] = found /\ @]
  /\ result' = [result EXCEPT ![c] = IF found /\ ret[c] THEN sync_data[u]
                                                        ELSE NoReply]
  /\ sync_sem' = IF ret[c] THEN [sync_sem EXCEPT ![u] = NoSem] ELSE sync_sem
  /\ sync_data' = [sync_data EXCEPT ![u] = NoReply]
  /\ Goto(c, "idle")
  /\ UNCHANGED <<cache_vars, sem_cache_size_max, value, uuid, req, accepted>>

\* syncWait, last section: take the bytes and erase the entry.
syncWaitErase(c) ==
  LET u == req[c]
      found == sync_sem[u] # NoSem IN
  /\ pc[c] = "pushed"
  /\ held' = [held EXCEPT ![c] = NoSem]
  /\ ret' = [ret EXCEPT ![c] = found /\ @]
  /\ result' = [result EXCEPT ![c] = IF found /\ ret[c] THEN sync_data[u]
                                                        ELSE NoReply]
  /\ sync_sem' = [sync_sem EXCEPT ![u] = NoSem]
  /\ sync_data' = [sync_data EXCEPT ![u] = NoReply]
  /\ Goto(c, "idle")
  /\ UNCHANGED <<cache_vars, sem_cache_size_max, value, uuid, req, accepted>>

\* syncCancel of u: put its semaphore back and erase the entry.
cancelEntry(u) ==
  /\ sync_sem[u] # NoSem
  /\ pushSem(sync_sem[u])
  /\ sync_sem' = [sync_sem EXCEPT ![u] = NoSem]
  /\ sync_data' = [sync_data EXCEPT ![u] = NoReply]
  /\ accepted' = accepted \ {u}

\* A client gives up the request it prepared instead of waiting for it.
syncCancel(c) ==
  /\ pc[c] = "prepared"
  /\ \/ cancelEntry(req[c])
     \/ /\ sync_sem[req[c]] = NoSem
        /\ UNCHANGED <<sync_map_vars, cache_vars, value, accepted>>
  /\ Goto(c, "idle")
  /\ UNCHANGED <<sem_cache_size_max, uuid, req, held, ret, result>>

\* Another thread cancels a uuid, whatever its owner is doing.
cancelOther(u) ==
  /\ cancelEntry(u)
  /\ UNCHANGED <<sem_cache_size_max, uuid, call_vars>>

-----------------------------------------------------------------------------
\* The replying threads.  A post to an absent uuid returns false and changes
\* nothing.  Whether its reply is late, doubled or empty is up to the caller.

\* Fault: no bytes clear the bytes of an earlier post.
syncPostClears(u, d) ==
  LET s == sync_sem[u] IN
  /\ s # NoSem
  /\ sync_data' = [sync_data EXCEPT ![u] = d]
  /\ value[s] < SemValueMax
  /\ value' = [value EXCEPT ![s] = @ + 1]
  /\ accepted' = IF d = NoReply THEN accepted ELSE accepted \cup {u}
  /\ UNCHANGED <<sync_sem, cache_vars, sem_cache_size_max, uuid, call_vars>>

\* Fault: sem_post is taken never to fail.
syncPostUnchecked(u, d) ==
  LET s == sync_sem[u] IN
  /\ s # NoSem
  /\ sync_data' = [sync_data EXCEPT ![u] = IF d = NoReply THEN @ ELSE d]
  /\ value' = [value EXCEPT ![s] = @ + 1]
  /\ accepted' = IF d = NoReply THEN accepted ELSE accepted \cup {u}
  /\ UNCHANGED <<sync_sem, cache_vars, sem_cache_size_max, uuid, call_vars>>

\* What sem_post does with a deleted semaphore, in freed memory, is not known:
\* it returns true or false, and popSem initialises the memory it reuses.
syncPost(u, d) ==
  LET s == sync_sem[u]
      answered == IF d = NoReply THEN accepted ELSE accepted \cup {u} IN
  /\ s # NoSem
  /\ sync_data' = [sync_data EXCEPT ![u] = IF d = NoReply THEN @ ELSE d]
  /\ \/ /\ s \in alive /\ value[s] < SemValueMax
        /\ value' = [value EXCEPT ![s] = @ + 1]
        /\ accepted' = answered
     \/ /\ s \in alive /\ value[s] = SemValueMax
        /\ UNCHANGED <<value, accepted>>
     \/ /\ s \notin alive
        /\ accepted' \in {accepted, answered}
        /\ UNCHANGED value
  /\ UNCHANGED <<sync_sem, cache_vars, sem_cache_size_max, uuid, call_vars>>

-----------------------------------------------------------------------------
\* Every uuid of the bounded run has been used and no call is under way.
Finished ==
  /\ uuid = UUIDMax
  /\ \A c \in Client : pc[c] = "idle"
  /\ UNCHANGED vars

WaitStep(c) ==
  \/ syncWaitLookup(c) \/ semWait(c) \/ semTimeout(c)
  \/ syncWaitPushSem(c) \/ syncWaitErase(c)

Next ==
  \/ \E c \in Client : createUUID(c)
  \/ \E c \in Client, u \in FixedUUID : chooseUUID(c, u)
  \/ \E c \in Client : syncPrepare(c)
  \/ \E c \in Client : WaitStep(c)
  \/ \E c \in Client : syncCancel(c)
  \/ \E x \in Canceller, u \in UUID : cancelOther(u)
  \/ \E u \in UUID, d \in Payload : syncPost(u, d)
  \/ \E n \in SemCount : setSemCount(n)
  \/ Finished

Spec == Init /\ [][Next]_vars

\* A waiting thread is scheduled; with an infinite timeout (timeout_ms <= 0)
\* only the semaphore wakes it, so semTimeout has no fairness.
Fairness ==
  \A c \in Client : /\ WF_vars(syncPrepare(c))
                    /\ WF_vars(syncWaitLookup(c))
                    /\ WF_vars(semWait(c))
                    /\ WF_vars(syncWaitPushSem(c))
                    /\ WF_vars(syncWaitErase(c))

FairSpec == Spec /\ Fairness
-----------------------------------------------------------------------------
\* The ownership rule of the code's own callers: every request has a uuid of
\* its own, and only its client cancels it.
Disciplined == FixedUUID = {} /\ Canceller = {}

TypeOK ==
  /\ sync_sem \in [UUID -> Sem \cup {NoSem}]
  /\ sync_data \in [UUID -> Payload \cup {NoReply}]
  /\ sem_cache \in Seq(Sem)
  /\ sem_cache_size_max \in Nat \ {0}
  /\ alive \subseteq Sem
  /\ value \in [Sem -> 0 .. SemValueMax]
  /\ uuid \in 0 .. UUIDMax
  /\ pc \in [Client -> {"idle", "created", "prepared", "waiting", "woken", "pushed"}]
  /\ req \in [Client -> UUID \cup {NoUUID}]
  /\ held \in [Client -> Sem \cup {NoSem}]
  /\ ret \in [Client -> BOOLEAN]
  /\ result \in [Client -> Payload \cup {NoReply}]
  /\ accepted \subseteq UUID

\* No two threads wait on one semaphore, although syncWait returns its
\* semaphore to the cache before it erases the entry that refers to it.
WaitersDoNotShare ==
  \A c, d \in Client :
    pc[c] = "waiting" /\ pc[d] = "waiting" /\ held[c] = held[d] => c = d

\* Two live entries share a semaphore only while the wait of one of them has
\* ended and its client has yet to erase it (between pushSem and the erase).
ShareOnlyWhileErasing ==
  \A u, v \in UUID :
    u # v /\ sync_sem[u] = sync_sem[v] /\ sync_sem[u] # NoSem
      => \E c \in Client : pc[c] = "pushed" /\ req[c] \in {u, v}

\* The cache never holds one semaphore twice: popSem would give it to two
\* requests, and clearSem would delete it twice.
CacheHasNoDuplicate ==
  \A i, j \in 1 .. Len(sem_cache) : sem_cache[i] = sem_cache[j] => i = j

\* The wake-up of an accepted reply is never lost: no reset() of a recycled
\* semaphore and no other waiter takes the token a client waits for.
AcceptedReplyWakes ==
  \A c \in Client :
    pc[c] = "waiting" /\ req[c] \in accepted => value[held[c]] > 0

\* Whatever the order of posts, repeated and empty ones included, a wait that
\* succeeds returns the bytes of a reply that syncPost said it had accepted.
AcceptedReplyReturned ==
  [][\A c \in Client :
       pc[c] = "pushed" /\ pc'[c] = "idle" /\ ret'[c] /\ req[c] \in accepted
         => result'[c] # NoReply]_vars

\* A client whose reply was accepted while it waited returns, even with an
\* infinite timeout.
AcceptedReplyReturns ==
  \A c \in Client :
    (pc[c] = "waiting" /\ req[c] \in accepted) ~> (pc[c] = "idle")

\* Nobody waits on a deleted semaphore and popSem hands none out.  An entry may
\* refer to one, which a late syncPost would post, but only when the cache was
\* over-full, and only between the pushSem and the erase of its own wait.
DeletedOnlyWhileErasing ==
  /\ \A c \in Client : pc[c] \in {"prepared", "waiting", "woken"} =>
       /\ sync_sem[req[c]] \in alive
       /\ pc[c] # "prepared" => held[c] \in alive
  /\ \A i \in 1 .. Len(sem_cache) : sem_cache[i] \in alive
  /\ \A u \in UUID : sync_sem[u] \in Sem \ alive =>
       \E c \in Client : pc[c] = "pushed" /\ req[c] = u

\* Semaphores are owned as their early recycling needs it: waiters do not share
\* one, entries share one only across an erase, the cache holds none twice.
SemOwnership ==
  WaitersDoNotShare /\ ShareOnlyWhileErasing /\ CacheHasNoDuplicate

\* When no request is under way every semaphore ever allocated is idle in the
\* cache: none leaks on a timeout, a cancel or a failed wait.
NoLeakedSem ==
  (\A c \in Client : pc[c] \in {"idle", "created"})
    => alive = {sem_cache[i] : i \in 1 .. Len(sem_cache)}

\* The cache keeps one semaphore more than sem_cache_size_max, and no more: the
\* comparison comes before the push.
CacheBounded == SemCount = {} => Len(sem_cache) <= CacheMax + 1

\* A semaphore lives as long as a wait needs it, though an over-full cache
\* deletes it before its entry is erased, and none leaks.
SemLifetime == DeletedOnlyWhileErasing /\ NoLeakedSem /\ CacheBounded

\* A wait that succeeds was woken by a reply to its own request.
WokenByOwnReply ==
  \A c \in Client : pc[c] = "pushed" /\ ret[c] => req[c] \in accepted

-----------------------------------------------------------------------------
Rendezvous == INSTANCE SyncRendezvous WITH
  open <- {u \in UUID : sync_sem[u] # NoSem},
  reply <- sync_data,
  asked <- req,
  got <- result

\* Semaphore recycling, time-outs and early pushes aside, the adapter behaves
\* as the rendezvous: no caller ever obtains bytes kept for another request,
\* or bytes of an earlier use of its own uuid.
ImplementsRendezvous == Rendezvous!Spec
=============================================================================
