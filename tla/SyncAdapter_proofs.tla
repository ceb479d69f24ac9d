------------------------ MODULE SyncAdapter_proofs ------------------------
(***************************************************************************)
(* Proofs about SyncAdapter for every number of clients, cancellers,       *)
(* semaphores and uuids and every cache size: type correctness, the        *)
(* refinement of SyncRendezvous, replies, and the life of the semaphores.  *)
(***************************************************************************)
EXTENDS SyncAdapter, SequenceTheorems, TLAPS

\* A semaphore taken from the cache or allocated is one of Sem, and the cache
\* and the values keep their types.
LEMMA PopSemType ==
  ASSUME TypeOK, NEW s, popSem(s)
  PROVE  /\ s \in Sem
         /\ sem_cache' \in Seq(Sem)
         /\ alive' \subseteq Sem
         /\ value' \in [Sem -> 0 .. SemValueMax]
<1>1. CASE sem_cache = <<>> /\ s \in Sem \ alive
  BY <1>1, BoundAssumption DEF popSem, TypeOK
<1>2. CASE sem_cache # <<>> /\ s = Head(sem_cache)
  <2>1. Head(sem_cache) \in Sem /\ Tail(sem_cache) \in Seq(Sem)
    BY <1>2, HeadTailProperties DEF TypeOK
  <2> QED
    BY <1>2, <2>1 DEF popSem, TypeOK
<1> QED
  BY <1>1, <1>2 DEF popSem

\* Pushing a semaphore back keeps the same types.
LEMMA PushSemType ==
  ASSUME TypeOK, NEW s \in Sem, pushSem(s)
  PROVE  /\ sem_cache' \in Seq(Sem)
         /\ alive' \subseteq Sem
         /\ value' \in [Sem -> 0 .. SemValueMax]
<1>1. CASE Len(sem_cache) > sem_cache_size_max
           /\ alive' = alive \ {s}
           /\ UNCHANGED <<sem_cache, value>>
  BY <1>1 DEF TypeOK
<1>2. CASE /\ value' = [value EXCEPT ![s] = 0]
           /\ sem_cache' = Append(sem_cache, s)
           /\ UNCHANGED alive
  <2>1. Append(sem_cache, s) \in Seq(Sem)
    BY AppendProperties DEF TypeOK
  <2>2. value' \in [Sem -> 0 .. SemValueMax]
    BY <1>2, BoundAssumption DEF TypeOK
  <2> QED
    BY <1>2, <2>1, <2>2 DEF TypeOK
<1> QED
  BY <1>1, <1>2 DEF pushSem

\* The clients that are inside syncWait hold a semaphore, and every client that
\* has begun a request has a uuid.  Proved together with TypeOK, which needs it.
Holding ==
  \A c \in Client :
    /\ pc[c] \in {"waiting", "woken", "pushed"} => held[c] \in Sem
    /\ pc[c] # "idle" => req[c] \in UUID

TInv == TypeOK /\ Holding

LEMMA InitTInv == Init => TInv
  BY BoundAssumption DEF Init, TInv, TypeOK, Holding, NoUUID

LEMMA TypeStep == TInv /\ [Next]_vars => TInv'
<1> SUFFICES ASSUME TInv, [Next]_vars PROVE TInv'
  OBVIOUS
<1> USE DEF TInv
<1>1. ASSUME NEW c \in Client, createUUID(c) PROVE TInv'
  <2>1. uuid \in UUID /\ uuid + 1 \in 0 .. UUIDMax
    BY <1>1, BoundAssumption DEF createUUID, UUID, TypeOK
  <2> QED
    BY <1>1, <2>1 DEF createUUID, NewCall, Goto, sync_map_vars, cache_vars,
                      TypeOK, Holding
<1>2. ASSUME NEW c \in Client, NEW u \in FixedUUID, chooseUUID(c, u) PROVE TInv'
  <2>1. u \in UUID
    BY DEF UUID
  <2> QED
    BY <1>2, <2>1 DEF chooseUUID, NewCall, Goto, sync_map_vars, cache_vars,
                      TypeOK, Holding
<1>3. ASSUME NEW c \in Client, syncPrepare(c) PROVE TInv'
  <2>1. CASE sync_sem[req[c]] # NoSem
    BY <1>3, <2>1 DEF syncPrepare, Goto, sync_map_vars, cache_vars, TypeOK, Holding
  <2>2. CASE sync_sem[req[c]] = NoSem
    <3>1. PICK s \in Sem : /\ popSem(s)
                           /\ sync_sem' = [sync_sem EXCEPT ![req[c]] = s]
      BY <1>3, <2>2 DEF syncPrepare
    <3>2. /\ sem_cache' \in Seq(Sem)
          /\ alive' \subseteq Sem
          /\ value' \in [Sem -> 0 .. SemValueMax]
      BY <3>1, PopSemType
    <3> QED
      BY <1>3, <2>2, <3>1, <3>2 DEF syncPrepare, Goto, TypeOK, Holding
  <2> QED
    BY <2>1, <2>2
<1>4. ASSUME NEW c \in Client, syncWaitLookup(c) PROVE TInv'
  BY <1>4 DEF syncWaitLookup, Goto, sync_map_vars, cache_vars, TypeOK, Holding
<1>5. ASSUME NEW c \in Client, semWait(c) PROVE TInv'
  <2>1. value' \in [Sem -> 0 .. SemValueMax]
    BY <1>5, BoundAssumption DEF semWait, TypeOK, Holding
  <2> QED
    BY <1>5, <2>1 DEF semWait, Goto, sync_map_vars, cache_vars, TypeOK, Holding
<1>6. ASSUME NEW c \in Client, semTimeout(c) PROVE TInv'
  BY <1>6 DEF semTimeout, Goto, sync_map_vars, cache_vars, TypeOK, Holding
<1>7. ASSUME NEW c \in Client, syncWaitPushSem(c) PROVE TInv'
  <2>1. held[c] \in Sem
    BY <1>7 DEF syncWaitPushSem, Holding
  <2>2. /\ sem_cache' \in Seq(Sem)
        /\ alive' \subseteq Sem
        /\ value' \in [Sem -> 0 .. SemValueMax]
    BY <1>7, <2>1, PushSemType DEF syncWaitPushSem
  <2> QED
    BY <1>7, <2>1, <2>2 DEF syncWaitPushSem, Goto, sync_map_vars, TypeOK, Holding
<1>8. ASSUME NEW c \in Client, syncWaitErase(c) PROVE TInv'
  BY <1>8 DEF syncWaitErase, Goto, cache_vars, TypeOK, Holding
<1>9. ASSUME NEW u \in UUID, cancelEntry(u)
      PROVE  /\ sem_cache' \in Seq(Sem)
             /\ alive' \subseteq Sem
             /\ value' \in [Sem -> 0 .. SemValueMax]
             /\ sync_sem' \in [UUID -> Sem \cup {NoSem}]
             /\ sync_data' \in [UUID -> Payload \cup {NoReply}]
             /\ accepted' \subseteq UUID
  <2>1. sync_sem[u] \in Sem
    BY <1>9 DEF cancelEntry, TypeOK
  <2> QED
    BY <1>9, <2>1, PushSemType DEF cancelEntry, TypeOK
<1>10. ASSUME NEW c \in Client, syncCancel(c) PROVE TInv'
  <2>1. req[c] \in UUID
    BY <1>10 DEF syncCancel, Holding
  <2>2. CASE cancelEntry(req[c])
    BY <1>10, <2>1, <2>2, <1>9 DEF syncCancel, Goto, TypeOK, Holding
  <2>3. CASE UNCHANGED <<sync_map_vars, cache_vars, value, accepted>>
    BY <1>10, <2>3 DEF syncCancel, Goto, sync_map_vars, cache_vars, TypeOK, Holding
  <2> QED
    BY <1>10, <2>2, <2>3 DEF syncCancel
<1>11. ASSUME NEW u \in UUID, cancelOther(u) PROVE TInv'
  BY <1>11, <1>9 DEF cancelOther, call_vars, TypeOK, Holding
<1>12. ASSUME NEW u \in UUID, NEW d \in Payload, syncPost(u, d) PROVE TInv'
  <2>1. sync_sem[u] \in Sem
    BY <1>12 DEF syncPost, TypeOK
  <2>2. value' \in [Sem -> 0 .. SemValueMax]
    <3>1. value \in [Sem -> 0 .. SemValueMax] /\ SemValueMax \in Nat
      BY BoundAssumption DEF TypeOK
    <3>2. CASE UNCHANGED value
      BY <3>1, <3>2
    <3>3. CASE /\ value[sync_sem[u]] < SemValueMax
               /\ value' = [value EXCEPT ![sync_sem[u]] = @ + 1]
      <4>1. value[sync_sem[u]] + 1 \in 0 .. SemValueMax
        BY <2>1, <3>1, <3>3
      <4> QED
        BY <3>1, <3>3, <4>1
    <3> QED
      BY <1>12, <3>2, <3>3 DEF syncPost
  <2> QED
    BY <1>12, <2>2 DEF syncPost, cache_vars, call_vars, TypeOK, Holding
<1>13. ASSUME NEW n \in SemCount, setSemCount(n) PROVE TInv'
  BY <1>13, BoundAssumption
     DEF setSemCount, sync_map_vars, cache_vars, call_vars, TypeOK, Holding
<1>14. CASE UNCHANGED vars
  BY <1>14 DEF vars, TypeOK, Holding
<1>15. CASE Finished
  BY <1>14, <1>15 DEF Finished
<1>16. ASSUME NEW c \in Client, WaitStep(c) PROVE TInv'
  BY <1>16, <1>4, <1>5, <1>6, <1>7, <1>8 DEF WaitStep
<1> QED
  BY <1>1, <1>2, <1>3, <1>10, <1>11, <1>12, <1>13, <1>14, <1>15, <1>16
     DEF Next

THEOREM TInvHolds == Spec => []TInv
  BY InitTInv, TypeStep, PTL DEF Spec

\* Every variable of the adapter keeps its type, whoever calls it and however.
THEOREM TypeCorrect == Spec => []TypeOK
<1>1. TInv => TypeOK
  BY DEF TInv
<1> QED
  BY <1>1, TInvHolds, PTL

-----------------------------------------------------------------------------
(***************************************************************************)
(* The refinement.  The requests whose entry is in sync_map are the open   *)
(* ones; the semaphores, the cache and the steps of a wait before its last *)
(* are invisible.                                                          *)
(***************************************************************************)
Entries == {u \in UUID : sync_sem[u] # NoSem}

LEMMA InitRefines == Init => Rendezvous!Init
  BY DEF Init, Rendezvous!Init, NoUUID

\* Erasing an entry closes the request, and erasing an absent one does nothing.
LEMMA EraseCloses ==
  ASSUME TInv, NEW u \in UUID,
         sync_sem' = [sync_sem EXCEPT ![u] = NoSem],
         sync_data' = [sync_data EXCEPT ![u] = NoReply]
  PROVE  Rendezvous!Close(u)
<1>1. Entries' = Entries \ {u}
  BY DEF TInv, TypeOK, Entries
<1> QED
  BY <1>1 DEF Rendezvous!Close, Entries

LEMMA StepRefines ==
  TInv /\ [Next]_vars => [Rendezvous!Next]_(Rendezvous!vars)
<1> SUFFICES ASSUME TInv, [Next]_vars
             PROVE  Rendezvous!Next \/ UNCHANGED Rendezvous!vars
  OBVIOUS
<1>0. ASSUME UNCHANGED <<sync_sem, sync_data, req, result>>
      PROVE  UNCHANGED Rendezvous!vars
  BY <1>0 DEF Rendezvous!vars
<1>1. ASSUME NEW c \in Client, createUUID(c) PROVE Rendezvous!Next
  <2>1. uuid \in UUID
    BY <1>1, BoundAssumption DEF createUUID, UUID, TInv, TypeOK
  <2>2. Rendezvous!Ask(c, uuid)
    BY <1>1 DEF createUUID, NewCall, sync_map_vars, Rendezvous!Ask
  <2> QED
    BY <2>1, <2>2 DEF Rendezvous!Next
<1>2. ASSUME NEW c \in Client, NEW u \in FixedUUID, chooseUUID(c, u)
      PROVE  Rendezvous!Next
  <2>1. u \in UUID
    BY DEF UUID
  <2>2. Rendezvous!Ask(c, u)
    BY <1>2 DEF chooseUUID, NewCall, sync_map_vars, Rendezvous!Ask
  <2> QED
    BY <2>1, <2>2 DEF Rendezvous!Next
<1>3. ASSUME NEW c \in Client, syncPrepare(c)
      PROVE  Rendezvous!Next \/ UNCHANGED Rendezvous!vars
  <2>1. PICK u \in UUID : u = req[c]
    BY <1>3 DEF syncPrepare, TInv, Holding
  <2>2. CASE sync_sem[u] # NoSem
    BY <1>3, <2>1, <2>2, <1>0 DEF syncPrepare, sync_map_vars
  <2>3. CASE sync_sem[u] = NoSem
    <3>1. PICK s \in Sem : sync_sem' = [sync_sem EXCEPT ![u] = s]
      BY <1>3, <2>1, <2>3 DEF syncPrepare
    <3>2. u \notin Entries /\ Entries' = Entries \cup {u}
      BY <2>1, <2>3, <3>1, NoSemAssumption DEF TInv, TypeOK, Entries
    <3>3. Rendezvous!Open(u)
      BY <1>3, <2>1, <2>3, <3>2 DEF syncPrepare, Rendezvous!Open, Entries
    <3> QED
      BY <3>3 DEF Rendezvous!Next
  <2> QED
    BY <2>2, <2>3
<1>4. ASSUME NEW c \in Client, WaitStep(c)
      PROVE  Rendezvous!Next \/ UNCHANGED Rendezvous!vars
  <2>1. CASE syncWaitErase(c)
    <3>1. PICK u \in UUID : u = req[c]
      BY <2>1 DEF syncWaitErase, TInv, Holding
    <3>2. Rendezvous!Close(u)
      BY <2>1, <3>1, EraseCloses DEF syncWaitErase
    <3>3. Rendezvous!Return(c)
      BY <2>1, <3>1, <3>2 DEF syncWaitErase, Rendezvous!Return, Rendezvous!Close
    <3> QED
      BY <3>3 DEF Rendezvous!Next
  <2>2. CASE syncWaitLookup(c) \/ semWait(c) \/ semTimeout(c) \/ syncWaitPushSem(c)
    BY <2>2, <1>0 DEF syncWaitLookup, semWait, semTimeout, syncWaitPushSem, sync_map_vars
  <2> QED
    BY <1>4, <2>1, <2>2 DEF WaitStep
<1>5. ASSUME NEW u \in UUID, cancelEntry(u), UNCHANGED <<req, result>>
      PROVE  Rendezvous!Next
  BY <1>5, EraseCloses DEF cancelEntry, Rendezvous!Cancel, Rendezvous!Next
<1>6. ASSUME NEW c \in Client, syncCancel(c)
      PROVE  Rendezvous!Next \/ UNCHANGED Rendezvous!vars
  <2>1. PICK u \in UUID : u = req[c]
    BY <1>6 DEF syncCancel, TInv, Holding
  <2> QED
    BY <1>6, <2>1, <1>0, <1>5 DEF syncCancel, sync_map_vars
<1>7. ASSUME NEW u \in UUID, cancelOther(u) PROVE Rendezvous!Next
  BY <1>7, <1>5 DEF cancelOther, call_vars
<1>8. ASSUME NEW u \in UUID, NEW d \in Payload, syncPost(u, d) PROVE Rendezvous!Next
  <2>1. Rendezvous!Post(u, d)
    BY <1>8 DEF syncPost, call_vars, Rendezvous!Post
  <2> QED
    BY <2>1 DEF Rendezvous!Next
<1>9. ASSUME NEW n \in SemCount, setSemCount(n) PROVE UNCHANGED Rendezvous!vars
  BY <1>9, <1>0 DEF setSemCount, sync_map_vars, call_vars
<1>10. CASE Finished \/ UNCHANGED vars
  BY <1>10, <1>0 DEF Finished, vars
<1> QED
  BY <1>1, <1>2, <1>3, <1>4, <1>6, <1>7, <1>8, <1>9, <1>10 DEF Next

\* For every number of clients and semaphores and every use of the interface,
\* foreign cancels and shared uuids included, the adapter is a rendezvous.
THEOREM RefinesRendezvous == Spec => ImplementsRendezvous
  BY InitRefines, StepRefines, TInvHolds, PTL
     DEF Spec, ImplementsRendezvous, Rendezvous!Spec

-----------------------------------------------------------------------------
(* Accepted replies, for callers of every kind *)

\* Bytes that were accepted stay with the entry for as long as there is one.
RepliesKept == \A u \in accepted : sync_sem[u] # NoSem => sync_data[u] # NoReply

LEMMA RepliesKeptStep ==
  ASSUME TInv, RepliesKept, [Next]_vars
  PROVE  RepliesKept'
<1>1. /\ DOMAIN sync_sem = UUID /\ DOMAIN sync_data = UUID /\ accepted \subseteq UUID
      /\ \A c \in Client : pc[c] # "idle" => req[c] \in UUID
  BY DEF TInv, TypeOK, Holding
<1>2. ASSUME UNCHANGED <<sync_map_vars, accepted>> PROVE RepliesKept'
  BY <1>2 DEF RepliesKept, sync_map_vars
<1>3. ASSUME NEW u \in UUID, sync_sem' = [sync_sem EXCEPT ![u] = NoSem],
             sync_data' = [sync_data EXCEPT ![u] = NoReply], accepted' \subseteq accepted
      PROVE  RepliesKept'
  BY <1>1, <1>3 DEF RepliesKept
<1>4. ASSUME NEW c \in Client, createUUID(c) \/ \E u \in FixedUUID : chooseUUID(c, u)
      PROVE  RepliesKept'
  BY <1>2, <1>4 DEF createUUID, chooseUUID
<1>5. ASSUME NEW c \in Client, syncPrepare(c) PROVE RepliesKept'
  <2>1. PICK u \in UUID : u = req[c]
    BY <1>1, <1>5 DEF syncPrepare
  <2>2. CASE UNCHANGED <<sync_map_vars, accepted>>
    BY <1>2, <2>2
  <2>3. ASSUME NEW s, sync_sem' = [sync_sem EXCEPT ![u] = s],
               sync_data' = [sync_data EXCEPT ![u] = NoReply], accepted' = accepted \ {u}
        PROVE  RepliesKept'
    BY <1>1, <2>3 DEF RepliesKept
  <2> QED
    BY <1>5, <2>1, <2>2, <2>3 DEF syncPrepare
<1>6. ASSUME NEW c \in Client, WaitStep(c) PROVE RepliesKept'
  <2>1. CASE syncWaitErase(c)
    <3>1. PICK u \in UUID : u = req[c]
      BY <1>1, <2>1 DEF syncWaitErase
    <3> QED
      BY <1>3, <2>1, <3>1 DEF syncWaitErase
  <2>2. CASE ~syncWaitErase(c)
    BY <1>2, <1>6, <2>2
       DEF WaitStep, syncWaitLookup, semWait, semTimeout, syncWaitPushSem
  <2> QED
    BY <2>1, <2>2
<1>7. ASSUME NEW u \in UUID, cancelEntry(u) PROVE RepliesKept'
  BY <1>3, <1>7 DEF cancelEntry
<1>8. ASSUME NEW c \in Client, syncCancel(c) PROVE RepliesKept'
  BY <1>1, <1>2, <1>7, <1>8 DEF syncCancel
<1>9. ASSUME NEW u \in UUID, NEW d \in Payload, syncPost(u, d) PROVE RepliesKept'
  <2>1. /\ UNCHANGED sync_sem /\ sync_sem[u] # NoSem
        /\ sync_data' = [sync_data EXCEPT ![u] = IF d = NoReply THEN @ ELSE d]
        /\ accepted' \in {accepted, IF d = NoReply THEN accepted ELSE accepted \cup {u}}
    BY <1>9 DEF syncPost
  <2> QED
    BY <1>1, <2>1 DEF RepliesKept
<1>10. ASSUME NEW n \in SemCount, setSemCount(n) PROVE RepliesKept'
  BY <1>2, <1>10 DEF setSemCount
<1>11. CASE Finished \/ UNCHANGED vars
  <2>1. UNCHANGED vars
    BY <1>11 DEF Finished
  <2> QED
    BY <1>2, <2>1 DEF vars, sync_map_vars
<1> QED
  BY <1>4, <1>5, <1>6, <1>7, <1>8, <1>9, <1>10, <1>11 DEF Next, cancelOther

\* Whatever the order of posts, repeated and empty ones included, and whoever shares
\* or cancels a uuid, a wait that succeeds after a reply to its uuid was accepted
\* returns bytes (com_sync.cpp, syncWait and syncPost).
THEOREM AcceptedRepliesReturn == Spec => AcceptedReplyReturned
<1>1. Init => TInv /\ RepliesKept
  BY InitTInv DEF Init, RepliesKept
<1>2. TInv /\ RepliesKept /\ [Next]_vars => (TInv /\ RepliesKept)'
  BY TypeStep, RepliesKeptStep
<1>3. ASSUME TInv, RepliesKept, [Next]_vars
      PROVE  [\A c \in Client :
                pc[c] = "pushed" /\ pc'[c] = "idle" /\ ret'[c] /\ req[c] \in accepted
                  => result'[c] # NoReply]_vars
  <2>1. SUFFICES ASSUME Next, NEW c \in Client, pc[c] = "pushed", pc'[c] = "idle", ret'[c],
                        req[c] \in accepted
                 PROVE  result'[c] # NoReply
    BY <1>3
  <2>2. DOMAIN pc = Client /\ DOMAIN ret = Client /\ DOMAIN result = Client
    BY <1>3 DEF TInv, TypeOK
  <2>3. syncWaitErase(c)
    <3>1. ASSUME NEW e \in Client, NEW l, pc[e] # "pushed" \/ l # "idle",
                 pc' = [pc EXCEPT ![e] = l]
          PROVE  FALSE
      BY <2>1, <2>2, <3>1
    <3>2. ASSUME pc' = pc PROVE FALSE
      BY <2>1, <3>2
    <3>3. ASSUME NEW e \in Client,
                 \/ createUUID(e) \/ \E u \in FixedUUID : chooseUUID(e, u)
                 \/ syncPrepare(e) \/ syncCancel(e)
          PROVE  FALSE
      BY <3>1, <3>3 DEF createUUID, chooseUUID, NewCall, syncPrepare, syncCancel, Goto
    <3>4. ASSUME NEW e \in Client, WaitStep(e) PROVE syncWaitErase(e)
      BY <3>1, <3>4 DEF WaitStep, syncWaitLookup, semWait, semTimeout, syncWaitPushSem, Goto
    <3>5. ASSUME \/ \E u \in UUID : cancelOther(u) \/ \E d \in Payload : syncPost(u, d)
                 \/ \E n \in SemCount : setSemCount(n)
          PROVE  FALSE
      BY <3>2, <3>5 DEF cancelOther, syncPost, setSemCount, call_vars
    <3>6. ~Finished
      BY <3>2 DEF Finished, vars
    <3>7. PICK e \in Client : syncWaitErase(e)
      BY <2>1, <3>3, <3>4, <3>5, <3>6 DEF Next
    <3>8. c = e
      BY <2>1, <2>2, <3>7 DEF syncWaitErase, Goto
    <3> QED
      BY <3>7, <3>8
  <2>4. sync_sem[req[c]] # NoSem /\ ret[c]
    BY <2>1, <2>2, <2>3 DEF syncWaitErase
  <2>5. result'[c] = sync_data[req[c]]
    BY <2>2, <2>3, <2>4 DEF syncWaitErase
  <2> QED
    BY <1>3, <2>1, <2>4, <2>5 DEF RepliesKept
<1> QED
  BY <1>1, <1>2, <1>3, PTL DEF Spec, AcceptedReplyReturned

-----------------------------------------------------------------------------
(* Semaphore ownership, for callers that keep the rule of the task module  *)
(* (Disciplined): a uuid of its own for every request, and no cancel by    *)
(* others.  syncWait puts its semaphore back into the cache while sync_map *)
(* still refers to it, so entries do share semaphores; what is proved is   *)
(* that the clients who still count on theirs never do.                    *)

\* A client owns its semaphore from syncPrepare to pushSem; its request is live
\* from syncPrepare to the erase.
Owner(c) == pc[c] \in {"prepared", "waiting", "woken"}
Live(c) == Owner(c) \/ pc[c] = "pushed"
SemOf(c) == sync_sem[req[c]]

OneClientPerUUID ==
  \A c, d \in Client :
    pc[c] # "idle" /\ pc[d] # "idle" /\ req[c] = req[d] => c = d

ReqIssued == \A c \in Client : pc[c] # "idle" => req[c] < uuid

EntryHasClient ==
  \A u \in UUID : sync_sem[u] # NoSem => \E c \in Client : Live(c) /\ req[c] = u

LiveHasEntry ==
  \A c \in Client :
    /\ Live(c) => SemOf(c) \in Sem
    /\ pc[c] \in {"waiting", "woken"} => held[c] = SemOf(c)

OwnersDistinct ==
  \A c, d \in Client : Owner(c) /\ Owner(d) /\ SemOf(c) = SemOf(d) => c = d

OwnedNotCached ==
  \A c \in Client : Owner(c) =>
    \A i \in 1 .. Len(sem_cache) : sem_cache[i] # SemOf(c)

KnownAreAlive ==
  /\ \A c \in Client : Owner(c) => SemOf(c) \in alive
  /\ \A i \in 1 .. Len(sem_cache) : sem_cache[i] \in alive

\* The token of an accepted reply stays in the semaphore until its owner wakes.
TokenKept ==
  \A c \in Client :
    pc[c] \in {"prepared", "waiting"} /\ req[c] \in accepted => value[SemOf(c)] > 0

Requests == OneClientPerUUID /\ ReqIssued /\ EntryHasClient /\ LiveHasEntry
Cache == OwnedNotCached /\ CacheHasNoDuplicate /\ KnownAreAlive

OInv == TInv /\ Requests /\ OwnersDistinct /\ Cache /\ TokenKept

-----------------------------------------------------------------------------
LEMMA InitOInv == Init => OInv
<1> SUFFICES ASSUME Init PROVE OInv
  OBVIOUS
<1>1. TInv
  BY InitTInv
<1>2. Requests /\ OwnersDistinct /\ TokenKept
  BY NoSemAssumption
     DEF Init, Requests, OneClientPerUUID, ReqIssued, EntryHasClient, LiveHasEntry,
         OwnersDistinct, TokenKept, Owner, Live
<1>3. Cache
  BY DEF Init, Cache, OwnedNotCached, CacheHasNoDuplicate, KnownAreAlive, Owner
<1> QED
  BY <1>1, <1>2, <1>3 DEF OInv

\* Popping gives a semaphore nobody owns and leaves the rest of the cache.
LEMMA PopSemFresh ==
  ASSUME OInv, NEW s \in Sem, popSem(s)
  PROVE  /\ \A c \in Client : Owner(c) => SemOf(c) # s
         /\ \A i \in 1 .. Len(sem_cache') :
              /\ sem_cache'[i] # s
              /\ \E j \in 1 .. Len(sem_cache) : sem_cache'[i] = sem_cache[j]
         /\ \A i, j \in 1 .. Len(sem_cache') : sem_cache'[i] = sem_cache'[j] => i = j
         /\ s \in alive' /\ alive \subseteq alive'
         /\ \A t \in Sem : t # s => value'[t] = value[t]
<1>1. CASE sem_cache = <<>> /\ s \in Sem \ alive
  BY <1>1 DEF popSem, OInv, TInv, TypeOK, Cache, KnownAreAlive
<1>2. CASE sem_cache # <<>> /\ s = Head(sem_cache)
  <2>1. /\ s = sem_cache[1] /\ 1 \in 1 .. Len(sem_cache)
        /\ Len(Tail(sem_cache)) = Len(sem_cache) - 1
        /\ \A i \in 1 .. Len(Tail(sem_cache)) : Tail(sem_cache)[i] = sem_cache[i + 1]
    BY <1>2, HeadTailProperties DEF OInv, TInv, TypeOK
  <2>2. sem_cache' = Tail(sem_cache) /\ alive' = alive /\ value' = value
    BY <1>2 DEF popSem
  <2>3. \A i \in 1 .. Len(sem_cache') :
          i + 1 \in 1 .. Len(sem_cache) /\ sem_cache'[i] = sem_cache[i + 1] /\ i + 1 # 1
    BY <2>1, <2>2
  <2>4. \A i \in 1 .. Len(sem_cache') : sem_cache'[i] # s
    BY <2>1, <2>3 DEF OInv, Cache, CacheHasNoDuplicate
  <2>5. \A i, j \in 1 .. Len(sem_cache') : sem_cache'[i] = sem_cache'[j] => i = j
    BY <2>3 DEF OInv, Cache, CacheHasNoDuplicate
  <2>6. \A c \in Client : Owner(c) => SemOf(c) # s
    BY <2>1 DEF OInv, Cache, OwnedNotCached
  <2> QED
    BY <2>1, <2>2, <2>3, <2>4, <2>5, <2>6 DEF OInv, Cache, KnownAreAlive
<1> QED
  BY <1>1, <1>2 DEF popSem

\* Pushing s adds at most s to the cache and touches no other semaphore.
LEMMA PushSemOnlyS ==
  ASSUME OInv, NEW s \in Sem, pushSem(s), s \in alive,
         \A i \in 1 .. Len(sem_cache) : sem_cache[i] # s
  PROVE  /\ \A i \in 1 .. Len(sem_cache') :
              /\ sem_cache'[i] \in alive'
              /\ \/ sem_cache'[i] = s
                 \/ \E j \in 1 .. Len(sem_cache) : sem_cache'[i] = sem_cache[j]
         /\ \A i, j \in 1 .. Len(sem_cache') : sem_cache'[i] = sem_cache'[j] => i = j
         /\ \A t \in alive : t # s => t \in alive'
         /\ \A t \in Sem : t # s => value'[t] = value[t]
<1>1. CASE alive' = alive \ {s} /\ UNCHANGED <<sem_cache, value>>
  BY <1>1 DEF OInv, Cache, CacheHasNoDuplicate, KnownAreAlive
<1>2. CASE /\ value' = [value EXCEPT ![s] = 0]
           /\ sem_cache' = Append(sem_cache, s)
           /\ UNCHANGED alive
  <2>1. /\ Len(sem_cache) \in Nat
        /\ Len(sem_cache') = Len(sem_cache) + 1
        /\ \A i \in 1 .. Len(sem_cache) : sem_cache'[i] = sem_cache[i]
        /\ sem_cache'[Len(sem_cache) + 1] = s
    BY <1>2, AppendProperties, LenProperties DEF OInv, TInv, TypeOK
  <2>2. \A i \in 1 .. Len(sem_cache') :
          \/ i \in 1 .. Len(sem_cache) /\ sem_cache'[i] = sem_cache[i]
          \/ i = Len(sem_cache) + 1 /\ sem_cache'[i] = s
    BY <2>1
  <2>3. \A i, j \in 1 .. Len(sem_cache') : sem_cache'[i] = sem_cache'[j] => i = j
    BY <2>2 DEF OInv, Cache, CacheHasNoDuplicate
  <2> QED
    BY <1>2, <2>2, <2>3 DEF OInv, TInv, TypeOK, Cache, KnownAreAlive
<1> QED
  BY <1>1, <1>2 DEF pushSem

-----------------------------------------------------------------------------
(***************************************************************************)
(* One lemma per kind of step.                                             *)
(***************************************************************************)

\* Steps that leave the semaphores alone and only move one client on.
LEMMA CreateStep ==
  ASSUME Disciplined, OInv, NEW c \in Client, createUUID(c)
  PROVE  Requests' /\ OwnersDistinct' /\ Cache' /\ TokenKept'
<1> USE DEF OInv, TInv, TypeOK, createUUID, NewCall, Goto, sync_map_vars, cache_vars,
        Owner, Live, SemOf
<1>1. /\ uuid \in UUID /\ uuid < uuid + 1
      /\ \A u \in UUID : u \in Int
      /\ \A d \in Client : pc[d] # "idle" => req[d] < uuid + 1 /\ req[d] # uuid
  BY BoundAssumption DEF Disciplined, UUID, Requests, ReqIssued, Holding
<1>2. \A d \in Client : d # c => pc'[d] = pc[d] /\ req'[d] = req[d] /\ held'[d] = held[d]
  OBVIOUS
<1>3. pc'[c] = "created" /\ req'[c] = uuid /\ pc[c] = "idle"
  OBVIOUS
<1>4. Requests'
  <2>1. OneClientPerUUID'
    BY <1>1, <1>2, <1>3 DEF Requests, OneClientPerUUID
  <2>2. ReqIssued'
    BY <1>1, <1>2, <1>3 DEF ReqIssued
  <2>3. EntryHasClient'
    BY <1>2, <1>3 DEF Requests, EntryHasClient
  <2>4. LiveHasEntry'
    BY <1>2, <1>3 DEF Requests, LiveHasEntry
  <2> QED
    BY <2>1, <2>2, <2>3, <2>4 DEF Requests
<1>5. OwnersDistinct'
  BY <1>2, <1>3 DEF OwnersDistinct
<1>6. Cache'
  BY <1>2, <1>3 DEF Cache, OwnedNotCached, CacheHasNoDuplicate, KnownAreAlive
<1>7. TokenKept'
  BY <1>2, <1>3 DEF TokenKept
<1> QED
  BY <1>4, <1>5, <1>6, <1>7

LEMMA PrepareStep ==
  ASSUME Disciplined, OInv, TInv', NEW c \in Client, syncPrepare(c)
  PROVE  Requests' /\ OwnersDistinct' /\ Cache' /\ TokenKept'
<1> USE DEF OInv, TInv, TypeOK, Holding, Owner, Live, SemOf
<1>1. PICK u \in UUID : u = req[c]
  BY DEF syncPrepare
<1>2. /\ pc[c] = "created"
      /\ pc' = [pc EXCEPT ![c] = "prepared"]
      /\ UNCHANGED <<uuid, req, held>>
  BY DEF syncPrepare, Goto
<1>3. sync_sem[u] = NoSem
  BY <1>1, <1>2 DEF Requests, EntryHasClient, OneClientPerUUID
<1>4. PICK s \in Sem : /\ popSem(s)
                       /\ sync_sem' = [sync_sem EXCEPT ![u] = s]
  BY <1>1, <1>3 DEF syncPrepare
<1>5. accepted' = accepted \ {u}
  BY <1>1, <1>3 DEF syncPrepare
<1>6. SemOf(c)' = s
  BY <1>1, <1>2, <1>4
<1>7. \A d \in Client : d # c =>
        /\ pc'[d] = pc[d]
        /\ pc[d] # "idle" => req[d] # u /\ SemOf(d)' = SemOf(d)
  BY <1>1, <1>2, <1>4 DEF Requests, OneClientPerUUID
<1>8. Requests'
  <2>1. OneClientPerUUID' /\ ReqIssued'
    BY <1>2 DEF Requests, OneClientPerUUID, ReqIssued
  <2>2. EntryHasClient'
    BY <1>1, <1>2, <1>4 DEF Requests, EntryHasClient
  <2>3. LiveHasEntry'
    BY <1>1, <1>2, <1>6, <1>7 DEF Requests, LiveHasEntry
  <2> QED
    BY <2>1, <2>2, <2>3 DEF Requests
<1>9. OwnersDistinct'
  BY <1>2, <1>4, <1>6, <1>7, PopSemFresh DEF OwnersDistinct
<1>10. Cache'
  <2>0. \A d \in Client : d # c /\ Owner(d)' => Owner(d) /\ SemOf(d)' = SemOf(d)
    BY <1>7
  <2>1. OwnedNotCached'
    <3>1. SUFFICES ASSUME NEW d \in Client, Owner(d)', NEW i \in 1 .. Len(sem_cache')
                   PROVE  sem_cache'[i] # SemOf(d)'
      BY DEF OwnedNotCached
    <3>2. /\ sem_cache'[i] # s
          /\ \E j \in 1 .. Len(sem_cache) : sem_cache'[i] = sem_cache[j]
      BY <1>4, PopSemFresh
    <3> QED
      BY <3>1, <3>2, <2>0, <1>6 DEF Cache, OwnedNotCached
  <2>2. CacheHasNoDuplicate'
    BY <1>4, PopSemFresh DEF CacheHasNoDuplicate
  <2>3. KnownAreAlive'
    <3>1. ASSUME NEW d \in Client, Owner(d)' PROVE SemOf(d)' \in alive'
      <4>1. s \in alive' /\ alive \subseteq alive'
        BY <1>4, PopSemFresh
      <4>2. CASE d = c
        BY <4>1, <4>2, <1>6
      <4>3. CASE d # c
        <5>1. SemOf(d) \in alive /\ SemOf(d)' = SemOf(d)
          BY <3>1, <4>3, <2>0 DEF Cache, KnownAreAlive
        <5> QED
          BY <4>1, <5>1
      <4> QED
        BY <4>2, <4>3
    <3>2. ASSUME NEW i \in 1 .. Len(sem_cache') PROVE sem_cache'[i] \in alive'
      <4>1. PICK j \in 1 .. Len(sem_cache) : sem_cache'[i] = sem_cache[j]
        BY <1>4, PopSemFresh
      <4>2. sem_cache[j] \in alive /\ alive \subseteq alive'
        BY <1>4, PopSemFresh DEF Cache, KnownAreAlive
      <4> QED
        BY <4>1, <4>2
    <3> QED
      BY <3>1, <3>2 DEF KnownAreAlive
  <2> QED
    BY <2>1, <2>2, <2>3 DEF Cache
<1>11. TokenKept'
  <2> SUFFICES ASSUME NEW d \in Client,
                      pc'[d] \in {"prepared", "waiting"}, req'[d] \in accepted'
               PROVE  value'[SemOf(d)'] > 0
    BY DEF TokenKept
  <2>1. d # c
    BY <1>1, <1>2, <1>5
  <2>2. pc[d] \in {"prepared", "waiting"} /\ req[d] \in accepted /\ SemOf(d)' = SemOf(d)
    BY <2>1, <1>2, <1>5, <1>7
  <2>3. value[SemOf(d)] > 0 /\ SemOf(d) \in Sem /\ SemOf(d) # s
    BY <2>2, <1>4, PopSemFresh DEF TokenKept, Requests, LiveHasEntry
  <2> QED
    BY <2>2, <2>3, <1>4, PopSemFresh
<1> QED
  BY <1>8, <1>9, <1>10, <1>11

\* Steps of a client that change no entry and no ownership: the lookup and the
\* two ways a wait ends.
LEMMA WaitStepInv ==
  ASSUME Disciplined, OInv, TInv', NEW c \in Client,
         syncWaitLookup(c) \/ semWait(c) \/ semTimeout(c)
  PROVE  Requests' /\ OwnersDistinct' /\ Cache' /\ TokenKept'
<1> USE DEF OInv, TInv, TypeOK, Owner, Live, SemOf
<1>1. /\ UNCHANGED <<sync_sem, sem_cache, alive, uuid, req, accepted>>
      /\ \A d \in Client : d # c => pc'[d] = pc[d] /\ held'[d] = held[d]
  BY DEF syncWaitLookup, semWait, semTimeout, sync_map_vars, cache_vars, Goto
<1>2. pc[c] = "prepared" => SemOf(c) # NoSem
  BY NoSemAssumption DEF Requests, LiveHasEntry
<1>3. \/ /\ pc[c] = "prepared" /\ pc'[c] = "waiting"
         /\ held'[c] = SemOf(c) /\ value' = value
      \/ /\ pc[c] = "waiting" /\ pc'[c] = "woken"
         /\ held'[c] = held[c]
         /\ \A t \in Sem : t # SemOf(c) => value'[t] = value[t]
  BY <1>2 DEF syncWaitLookup, semWait, semTimeout, Goto, Requests, LiveHasEntry
<1>4. \A d \in Client :
        /\ Owner(d)' <=> Owner(d)
        /\ Live(d)' <=> Live(d)
        /\ pc'[d] = "idle" <=> pc[d] = "idle"
        /\ SemOf(d)' = SemOf(d)
  BY <1>1, <1>3
<1> HIDE DEF TInv, TypeOK, Owner, Live, SemOf
<1>5. Requests'
  <2>1. OneClientPerUUID' /\ ReqIssued'
    BY <1>1, <1>4 DEF Requests, OneClientPerUUID, ReqIssued
  <2>2. EntryHasClient'
    BY <1>1, <1>4 DEF Requests, EntryHasClient
  <2>3. LiveHasEntry'
    BY <1>1, <1>3, <1>4 DEF Requests, LiveHasEntry
  <2> QED
    BY <2>1, <2>2, <2>3 DEF Requests
<1>6. OwnersDistinct'
  BY <1>4 DEF OwnersDistinct
<1>7. Cache'
  <2>1. OwnedNotCached'
    BY <1>1, <1>4 DEF Cache, OwnedNotCached
  <2>2. CacheHasNoDuplicate'
    BY <1>1 DEF Cache, CacheHasNoDuplicate
  <2>3. KnownAreAlive'
    BY <1>1, <1>4 DEF Cache, KnownAreAlive
  <2> QED
    BY <2>1, <2>2, <2>3 DEF Cache
<1>8. TokenKept'
  <2> SUFFICES ASSUME NEW d \in Client,
                      pc'[d] \in {"prepared", "waiting"}, req'[d] \in accepted'
               PROVE  value'[SemOf(d)'] > 0
    BY DEF TokenKept
  <2>1. /\ pc[d] \in {"prepared", "waiting"} /\ req[d] \in accepted
        /\ SemOf(d)' = SemOf(d)
    BY <1>1, <1>3, <1>4
  <2>2. value[SemOf(d)] > 0 /\ SemOf(d) \in Sem
    BY <2>1 DEF TokenKept, Requests, LiveHasEntry, Live, Owner
  <2>3. d # c => SemOf(d) # SemOf(c)
    BY <2>1, <1>3 DEF OwnersDistinct, Owner
  <2> QED
    BY <2>1, <2>2, <2>3, <1>3
<1> QED
  BY <1>5, <1>6, <1>7, <1>8

\* When a client gives up its semaphore, nobody else owned it and the cache did
\* not hold it, so the clients that go on keep theirs.
LEMMA GiveUp ==
  ASSUME OInv, NEW c \in Client, Owner(c), pushSem(SemOf(c)),
         UNCHANGED req,
         \A d \in Client : d # c => pc'[d] = pc[d],
         \A d \in Client : d # c /\ Owner(d) => SemOf(d)' = SemOf(d),
         pc'[c] \in {"pushed", "idle"},
         accepted' \subseteq accepted
  PROVE  OwnersDistinct' /\ Cache' /\ TokenKept'
<1> USE DEF OInv, TInv, TypeOK
<1>1. PICK s \in Sem : s = SemOf(c)
  BY DEF Requests, LiveHasEntry, Live
<1>2. /\ s \in alive
      /\ \A i \in 1 .. Len(sem_cache) : sem_cache[i] # s
  BY <1>1 DEF Cache, KnownAreAlive, OwnedNotCached
<1>3. /\ \A i \in 1 .. Len(sem_cache') :
           /\ sem_cache'[i] \in alive'
           /\ \/ sem_cache'[i] = s
              \/ \E j \in 1 .. Len(sem_cache) : sem_cache'[i] = sem_cache[j]
      /\ \A i, j \in 1 .. Len(sem_cache') : sem_cache'[i] = sem_cache'[j] => i = j
      /\ \A t \in alive : t # s => t \in alive'
      /\ \A t \in Sem : t # s => value'[t] = value[t]
  <2>1. pushSem(s)
    BY <1>1 DEF pushSem
  <2> QED
    BY <2>1, <1>2, PushSemOnlyS
<1>4. \A d \in Client : Owner(d)' =>
        Owner(d) /\ d # c /\ SemOf(d)' = SemOf(d) /\ SemOf(d) # s /\ SemOf(d) \in Sem
  BY <1>1 DEF Owner, OwnersDistinct, Requests, LiveHasEntry, Live
<1>5. OwnersDistinct'
  BY <1>4 DEF OwnersDistinct
<1>6. OwnedNotCached'
  <2> SUFFICES ASSUME NEW d \in Client, Owner(d)', NEW i \in 1 .. Len(sem_cache')
               PROVE  sem_cache'[i] # SemOf(d)'
    BY DEF OwnedNotCached
  <2>1. Owner(d) /\ SemOf(d)' = SemOf(d) /\ SemOf(d) # s
    BY <1>4
  <2>2. \A j \in 1 .. Len(sem_cache) : sem_cache[j] # SemOf(d)
    BY <2>1 DEF Cache, OwnedNotCached
  <2>3. \/ sem_cache'[i] = s
        \/ \E j \in 1 .. Len(sem_cache) : sem_cache'[i] = sem_cache[j]
    BY <1>3
  <2> QED
    BY <2>1, <2>2, <2>3
<1>7. CacheHasNoDuplicate'
  BY <1>3 DEF CacheHasNoDuplicate
<1>8. KnownAreAlive'
  BY <1>3, <1>4 DEF Cache, KnownAreAlive
<1>9. TokenKept'
  <2> SUFFICES ASSUME NEW d \in Client,
                      pc'[d] \in {"prepared", "waiting"}, req'[d] \in accepted'
               PROVE  value'[SemOf(d)'] > 0
    BY DEF TokenKept
  <2>1. Owner(d)'
    BY DEF Owner
  <2>2. /\ pc[d] \in {"prepared", "waiting"} /\ req[d] \in accepted
        /\ SemOf(d)' = SemOf(d) /\ SemOf(d) # s /\ SemOf(d) \in Sem
    BY <2>1, <1>4
  <2> QED
    BY <2>2, <1>3 DEF TokenKept
<1> QED
  BY <1>5, <1>6, <1>7, <1>8, <1>9 DEF Cache

\* syncWait puts the semaphore back: its client stops owning it here.
LEMMA PushSemStep ==
  ASSUME Disciplined, OInv, NEW c \in Client, syncWaitPushSem(c)
  PROVE  Requests' /\ OwnersDistinct' /\ Cache' /\ TokenKept'
<1> USE DEF OInv, TInv, TypeOK
<1>1. /\ pc[c] = "woken" /\ pc' = [pc EXCEPT ![c] = "pushed"]
      /\ UNCHANGED <<sync_sem, uuid, req, held, accepted>>
  BY DEF syncWaitPushSem, sync_map_vars, Goto
<1>2. Owner(c) /\ held[c] = SemOf(c)
  BY <1>1 DEF Owner, Requests, LiveHasEntry
<1>3. Requests'
  <2>1. OneClientPerUUID' /\ ReqIssued'
    BY <1>1 DEF Requests, OneClientPerUUID, ReqIssued
  <2>2. EntryHasClient'
    BY <1>1 DEF Requests, EntryHasClient, Live, Owner
  <2>3. LiveHasEntry'
    BY <1>1 DEF Requests, LiveHasEntry, Live, Owner, SemOf
  <2> QED
    BY <2>1, <2>2, <2>3 DEF Requests
<1>4. pushSem(SemOf(c))
  BY <1>2 DEF syncWaitPushSem, pushSem
<1>5. OwnersDistinct' /\ Cache' /\ TokenKept'
  BY <1>1, <1>2, <1>4, GiveUp DEF SemOf
<1> QED
  BY <1>3, <1>5

\* Erasing the entry of a client that has just stopped being live leaves the
\* requests consistent.
LEMMA EraseRequests ==
  ASSUME Disciplined, OInv, NEW c \in Client, Live(c),
         pc' = [pc EXCEPT ![c] = "idle"],
         sync_sem' = [sync_sem EXCEPT ![req[c]] = NoSem],
         UNCHANGED <<uuid, req>>,
         \A d \in Client : d # c => held'[d] = held[d]
  PROVE  /\ Requests'
         /\ \A d \in Client : d # c /\ Live(d) => SemOf(d)' = SemOf(d)
<1> USE DEF OInv, TInv, TypeOK, Holding, Live, Owner
<1>1. \A d \in Client : d # c /\ Live(d) => req[d] # req[c] /\ SemOf(d)' = SemOf(d)
  BY DEF Requests, OneClientPerUUID, SemOf
<1>2. OneClientPerUUID' /\ ReqIssued'
  BY DEF Requests, OneClientPerUUID, ReqIssued
<1>3. EntryHasClient'
  <2> SUFFICES ASSUME NEW u \in UUID, sync_sem'[u] # NoSem
               PROVE  \E d \in Client : Live(d)' /\ req'[d] = u
    BY DEF EntryHasClient
  <2>1. u # req[c] /\ sync_sem[u] # NoSem
    OBVIOUS
  <2>2. PICK d \in Client : Live(d) /\ req[d] = u
    BY <2>1 DEF Requests, EntryHasClient
  <2> QED
    BY <2>1, <2>2
<1>4. LiveHasEntry'
  BY <1>1 DEF Requests, LiveHasEntry
<1> QED
  BY <1>1, <1>2, <1>3, <1>4 DEF Requests

LEMMA EraseStep ==
  ASSUME Disciplined, OInv, NEW c \in Client, syncWaitErase(c)
  PROVE  Requests' /\ OwnersDistinct' /\ Cache' /\ TokenKept'
<1> USE DEF OInv, TInv, TypeOK
<1>1. /\ pc[c] = "pushed" /\ pc' = [pc EXCEPT ![c] = "idle"]
      /\ sync_sem' = [sync_sem EXCEPT ![req[c]] = NoSem]
      /\ UNCHANGED <<sem_cache, alive, value, uuid, req, accepted>>
      /\ \A d \in Client : d # c => held'[d] = held[d]
  BY DEF syncWaitErase, cache_vars, Goto
<1>2. /\ Requests'
      /\ \A d \in Client : d # c /\ Live(d) => SemOf(d)' = SemOf(d)
  BY <1>1, EraseRequests DEF Live
<1>3. \A d \in Client : pc'[d] # "idle" => d # c /\ pc'[d] = pc[d]
  BY <1>1
<1>4. \A d \in Client : Owner(d)' => Owner(d) /\ SemOf(d)' = SemOf(d)
  BY <1>2, <1>3 DEF Owner, Live
<1>5. OwnersDistinct'
  BY <1>4 DEF OwnersDistinct
<1>6. Cache'
  BY <1>1, <1>4 DEF Cache, OwnedNotCached, CacheHasNoDuplicate, KnownAreAlive
<1>7. TokenKept'
  BY <1>1, <1>3, <1>4 DEF TokenKept, Owner
<1> QED
  BY <1>2, <1>5, <1>6, <1>7

LEMMA CancelStep ==
  ASSUME Disciplined, OInv, NEW c \in Client, syncCancel(c)
  PROVE  Requests' /\ OwnersDistinct' /\ Cache' /\ TokenKept'
<1> USE DEF OInv, TInv, TypeOK
<1>1. /\ pc[c] = "prepared" /\ pc' = [pc EXCEPT ![c] = "idle"]
      /\ UNCHANGED <<uuid, req, held>>
  BY DEF syncCancel, Goto
<1>2. Owner(c) /\ Live(c) /\ SemOf(c) \in Sem
  BY <1>1 DEF Owner, Live, Requests, LiveHasEntry
<1>3. cancelEntry(req[c])
  BY <1>2, NoSemAssumption DEF syncCancel, SemOf
<1>4. /\ sync_sem' = [sync_sem EXCEPT ![req[c]] = NoSem]
      /\ accepted' \subseteq accepted
      /\ pushSem(SemOf(c))
  BY <1>3 DEF cancelEntry, pushSem, SemOf
<1>5. /\ Requests'
      /\ \A d \in Client : d # c /\ Live(d) => SemOf(d)' = SemOf(d)
  BY <1>1, <1>2, <1>4, EraseRequests
<1>6. OwnersDistinct' /\ Cache' /\ TokenKept'
  <2>1. \A d \in Client : d # c => pc'[d] = pc[d]
    BY <1>1
  <2>2. \A d \in Client : d # c /\ Owner(d) => SemOf(d)' = SemOf(d)
    BY <1>5 DEF Live
  <2>3. pc'[c] = "idle"
    BY <1>1
  <2> QED
    BY <1>1, <1>2, <1>4, <2>1, <2>2, <2>3, GiveUp
<1> QED
  BY <1>5, <1>6

LEMMA PostStep ==
  ASSUME Disciplined, OInv, NEW u \in UUID, NEW d \in Payload, syncPost(u, d)
  PROVE  Requests' /\ OwnersDistinct' /\ Cache' /\ TokenKept'
<1> USE DEF OInv, TInv, TypeOK
<1>1. UNCHANGED <<sync_sem, sem_cache, alive, uuid, pc, req, held>>
  BY DEF syncPost, cache_vars, call_vars
<1>2. Requests' /\ OwnersDistinct' /\ Cache'
  BY <1>1 DEF Requests, OneClientPerUUID, ReqIssued, EntryHasClient, LiveHasEntry,
              OwnersDistinct, Cache, OwnedNotCached, CacheHasNoDuplicate,
              KnownAreAlive, Owner, Live, SemOf
<1>3. \/ value' = value /\ accepted' = accepted
      \/ /\ value' = [value EXCEPT ![sync_sem[u]] = @ + 1]
         /\ accepted' \subseteq accepted \cup {u}
      \/ /\ sync_sem[u] \notin alive /\ value' = value
         /\ accepted' \subseteq accepted \cup {u}
  BY DEF syncPost
<1>4. sync_sem[u] \in Sem /\ (\A s \in Sem : value[s] \in Nat)
  BY BoundAssumption DEF syncPost
<1>5. TokenKept'
  <2> SUFFICES ASSUME NEW c \in Client,
                      pc'[c] \in {"prepared", "waiting"}, req'[c] \in accepted'
               PROVE  value'[SemOf(c)'] > 0
    BY DEF TokenKept
  <2>1. pc[c] \in {"prepared", "waiting"} /\ SemOf(c)' = SemOf(c) /\ SemOf(c) \in Sem
    BY <1>1 DEF SemOf, Requests, LiveHasEntry, Live, Owner
  <2>2. CASE req[c] \in accepted
    <3>1. value[SemOf(c)] > 0
      BY <2>1, <2>2 DEF TokenKept
    <3>2. value'[SemOf(c)] \in {value[SemOf(c)], value[SemOf(c)] + 1}
      BY <1>3, <1>4, <2>1
    <3> QED
      BY <2>1, <3>1, <3>2, <1>4
  <2>3. CASE req[c] \notin accepted
    <3>1. req[c] = u
      BY <1>1, <1>3, <2>3
    <3>2. SemOf(c) = sync_sem[u] /\ SemOf(c) \in alive
      BY <2>1, <3>1 DEF SemOf, Cache, KnownAreAlive, Owner
    <3>3. value' = [value EXCEPT ![sync_sem[u]] = @ + 1]
      BY <1>1, <1>3, <2>3, <3>2
    <3> QED
      BY <2>1, <3>2, <3>3, <1>4
  <2> QED
    BY <2>2, <2>3
<1> QED
  BY <1>2, <1>5

LEMMA QuietStep ==
  ASSUME OInv, UNCHANGED <<sync_sem, sem_cache, alive, value, uuid, pc, req, held, accepted>>
  PROVE  Requests' /\ OwnersDistinct' /\ Cache' /\ TokenKept'
  BY DEF OInv, Requests, OneClientPerUUID, ReqIssued, EntryHasClient, LiveHasEntry,
         OwnersDistinct, Cache, OwnedNotCached, CacheHasNoDuplicate,
         KnownAreAlive, TokenKept, Owner, Live, SemOf

LEMMA OStep == Disciplined /\ OInv /\ [Next]_vars => OInv'
<1> SUFFICES ASSUME Disciplined, OInv, [Next]_vars PROVE OInv'
  OBVIOUS
<1>1. TInv'
  BY TypeStep DEF OInv
<1>2. SUFFICES Requests' /\ OwnersDistinct' /\ Cache' /\ TokenKept'
  BY <1>1 DEF OInv
<1>3. ASSUME NEW c \in Client, createUUID(c) \/ syncPrepare(c) \/ syncCancel(c)
      PROVE  Requests' /\ OwnersDistinct' /\ Cache' /\ TokenKept'
  BY <1>1, <1>3, CreateStep, PrepareStep, CancelStep
<1>4. ASSUME NEW c \in Client, WaitStep(c)
      PROVE  Requests' /\ OwnersDistinct' /\ Cache' /\ TokenKept'
  BY <1>1, <1>4, WaitStepInv, PushSemStep, EraseStep DEF WaitStep
<1>5. ASSUME NEW u \in UUID, NEW d \in Payload, syncPost(u, d)
      PROVE  Requests' /\ OwnersDistinct' /\ Cache' /\ TokenKept'
  BY <1>5, PostStep
<1>6. ASSUME NEW n \in SemCount, setSemCount(n)
      PROVE  Requests' /\ OwnersDistinct' /\ Cache' /\ TokenKept'
  BY <1>6, QuietStep DEF setSemCount, sync_map_vars, cache_vars, call_vars
<1>7. CASE UNCHANGED vars
  BY <1>7, QuietStep DEF vars
<1> QED
  BY <1>3, <1>4, <1>5, <1>6, <1>7 DEF Next, Finished, Disciplined

LEMMA OInvHolds == ASSUME Disciplined PROVE Spec => []OInv
<1>1. OInv /\ [Next]_vars => OInv'
  BY OStep
<1> QED
  BY <1>1, InitOInv, PTL DEF Spec

\* No two threads ever wait on one semaphore, whatever the number of clients
\* and however small the cache.
THEOREM WaitersNeverShare == ASSUME Disciplined PROVE Spec => []WaitersDoNotShare
<1>1. OInv => WaitersDoNotShare
  BY DEF OInv, Requests, LiveHasEntry, OwnersDistinct, Owner, WaitersDoNotShare
<1> QED
  BY <1>1, OInvHolds, PTL

\* Entries share a semaphore only across the gap between pushSem and the erase.
THEOREM SharingIsTransient == ASSUME Disciplined PROVE Spec => []ShareOnlyWhileErasing
<1>1. OInv => ShareOnlyWhileErasing
  <2> SUFFICES ASSUME OInv, NEW u \in UUID, NEW v \in UUID, u # v,
                      sync_sem[u] = sync_sem[v], sync_sem[u] # NoSem
               PROVE  \E c \in Client : pc[c] = "pushed" /\ req[c] \in {u, v}
    BY DEF ShareOnlyWhileErasing
  <2>1. PICK c \in Client : Live(c) /\ req[c] = u
    BY DEF OInv, Requests, EntryHasClient
  <2>2. PICK d \in Client : Live(d) /\ req[d] = v
    BY DEF OInv, Requests, EntryHasClient
  <2> QED
    BY <2>1, <2>2 DEF OInv, OwnersDistinct, Live, SemOf
<1> QED
  BY <1>1, OInvHolds, PTL

\* The wake-up of an accepted reply is never lost.
THEOREM AcceptedRepliesWake == ASSUME Disciplined PROVE Spec => []AcceptedReplyWakes
<1>1. OInv => AcceptedReplyWakes
  BY DEF OInv, Requests, LiveHasEntry, TokenKept, AcceptedReplyWakes
<1> QED
  BY <1>1, OInvHolds, PTL

\* The cache never holds a semaphore twice.
THEOREM CacheIsDuplicateFree == ASSUME Disciplined PROVE Spec => []CacheHasNoDuplicate
<1>1. OInv => CacheHasNoDuplicate
  BY DEF OInv, Cache
<1> QED
  BY <1>1, OInvHolds, PTL

\* Under the ownership rule semaphores are never shared by waiters nor cached
\* twice, although syncWait recycles them before it erases their entry.
THEOREM SemaphoresAreOwned == ASSUME Disciplined PROVE Spec => []SemOwnership
  BY WaitersNeverShare, SharingIsTransient, CacheIsDuplicateFree, PTL
     DEF SemOwnership

-----------------------------------------------------------------------------
(* The life of the semaphores, whatever the size of the cache.  pushSem     *)
(* deletes one when the cache holds too many, while an entry that is not   *)
(* erased yet still refers to it: what is proved is that only such entries *)
(* do, that whoever waits has a live semaphore, and that none leaks.       *)

\* Each semaphore is cached or owned, or its deletion would be a leak.
Accounted ==
  \A s \in alive :
    \/ \E i \in 1 .. Len(sem_cache) : sem_cache[i] = s
    \/ \E c \in Client : Owner(c) /\ SemOf(c) = s

CacheRoom ==
  SemCount = {} => sem_cache_size_max = CacheMax /\ Len(sem_cache) <= CacheMax + 1

LInv == OInv /\ Accounted /\ CacheRoom

LEMMA InitLInv == Init => LInv
<1> SUFFICES ASSUME Init PROVE LInv
  OBVIOUS
<1>1. Accounted /\ sem_cache = <<>> /\ sem_cache_size_max = CacheMax
  BY DEF Init, Accounted
<1>2. CacheRoom
  BY <1>1, BoundAssumption DEF CacheRoom
<1> QED
  BY <1>1, <1>2, InitOInv DEF LInv

\* The steps of a client that gives its semaphore back, or deletes it.
LEMMA GiveUpLives ==
  ASSUME LInv, NEW c \in Client, Owner(c), pushSem(SemOf(c)),
         UNCHANGED <<req, sem_cache_size_max>>,
         \A d \in Client : d # c => pc'[d] = pc[d],
         \A d \in Client : d # c /\ Live(d) => SemOf(d)' = SemOf(d)
  PROVE  Accounted' /\ CacheRoom'
<1>1. PICK n \in Nat : n = Len(sem_cache)
  BY DEF LInv, OInv, TInv, TypeOK
<1>2. PICK s \in Sem : s = SemOf(c)
  BY DEF LInv, OInv, Requests, LiveHasEntry, Live
<1>3. \A t \in alive : t # s =>
        \/ \E i \in 1 .. n : sem_cache[i] = t
        \/ \E d \in Client : Owner(d)' /\ SemOf(d)' = t
  BY <1>1, <1>2 DEF LInv, Accounted, Owner, Live
<1>4. CASE n > sem_cache_size_max
  <2>1. alive' = alive \ {s} /\ sem_cache' = sem_cache
    BY <1>1, <1>2, <1>4 DEF pushSem, LInv, OInv, TInv, TypeOK
  <2>2. Accounted'
    BY <1>1, <1>3, <2>1 DEF Accounted
  <2> QED
    BY <2>1, <2>2 DEF LInv, CacheRoom
<1>5. CASE ~(n > sem_cache_size_max)
  <2>1. alive' = alive /\ sem_cache' = Append(sem_cache, s)
    BY <1>1, <1>2, <1>5 DEF pushSem
  <2>2. /\ Len(sem_cache') = n + 1 /\ sem_cache'[n + 1] = s
        /\ \A i \in 1 .. n : sem_cache'[i] = sem_cache[i]
    BY <1>1, <2>1, AppendProperties DEF LInv, OInv, TInv, TypeOK
  <2>3. Accounted'
    <3> SUFFICES ASSUME NEW t \in alive
                 PROVE  \/ \E i \in 1 .. n + 1 : sem_cache'[i] = t
                        \/ \E d \in Client : Owner(d)' /\ SemOf(d)' = t
      BY <2>1, <2>2 DEF Accounted
    <3>1. n + 1 \in 1 .. n + 1 /\ \A i \in 1 .. n : i \in 1 .. n + 1
      OBVIOUS
    <3> QED
      BY <1>3, <2>2, <3>1
  <2>4. sem_cache_size_max \in Nat /\ CacheMax \in Nat
    BY BoundAssumption DEF LInv, OInv, TInv, TypeOK
  <2>5. CacheRoom'
    BY <1>5, <2>2, <2>4 DEF LInv, CacheRoom
  <2> QED
    BY <2>3, <2>5
<1> QED
  BY <1>4, <1>5

LEMMA PrepareLives ==
  ASSUME Disciplined, LInv, NEW c \in Client, syncPrepare(c)
  PROVE  Accounted' /\ CacheRoom'
<1> USE DEF LInv, OInv
<1>1. PICK u \in UUID : u = req[c]
  BY DEF syncPrepare, TInv, Holding
<1>2. /\ pc[c] = "created"
      /\ pc' = [pc EXCEPT ![c] = "prepared"]
      /\ UNCHANGED <<req, sem_cache_size_max>>
  BY DEF syncPrepare, Goto
<1>3. sync_sem[u] = NoSem
  BY <1>1, <1>2 DEF Requests, EntryHasClient, OneClientPerUUID, Live, Owner
<1>4. PICK s \in Sem : popSem(s) /\ sync_sem' = [sync_sem EXCEPT ![u] = s]
  BY <1>1, <1>3 DEF syncPrepare
<1>5. pc \in [Client -> {"idle", "created", "prepared", "waiting", "woken", "pushed"}]
      /\ sync_sem \in [UUID -> Sem \cup {NoSem}]
  BY DEF TInv, TypeOK
<1>6. Owner(c)' /\ SemOf(c)' = s
  BY <1>1, <1>2, <1>4, <1>5 DEF Owner, SemOf
<1>7. \A d \in Client : Live(d) =>
        d # c /\ pc'[d] = pc[d] /\ SemOf(d)' = SemOf(d)
  BY <1>1, <1>2, <1>4, <1>5
  DEF Requests, OneClientPerUUID, Live, Owner, SemOf, TInv, Holding
<1>8. s \in alive' /\ alive \subseteq alive' /\ alive' \subseteq alive \cup {s}
  BY <1>4, PopSemFresh DEF popSem
<1>9. Accounted'
  <2> SUFFICES ASSUME NEW t \in alive', t # s
               PROVE  \/ \E i \in 1 .. Len(sem_cache') : sem_cache'[i] = t
                      \/ \E d \in Client : Owner(d)' /\ SemOf(d)' = t
    BY <1>6 DEF Accounted
  <2>1. \/ \E i \in 1 .. Len(sem_cache) : sem_cache[i] = t
        \/ \E d \in Client : Owner(d) /\ SemOf(d) = t
    BY <1>8 DEF Accounted
  <2>2. CASE \E i \in 1 .. Len(sem_cache) : sem_cache[i] = t
    <3>1. PICK n \in Nat : n = Len(sem_cache)
      BY DEF TInv, TypeOK
    <3>2. PICK i \in 1 .. n : sem_cache[i] = t
      BY <2>2, <3>1
    <3>3. sem_cache # <<>> /\ s = Head(sem_cache) /\ sem_cache' = Tail(sem_cache)
      <4>1. sem_cache # <<>>
        BY <3>1, <3>2
      <4> QED
        BY <1>4, <4>1 DEF popSem
    <3>4. /\ s = sem_cache[1] /\ Len(sem_cache') = n - 1
          /\ \A j \in 1 .. n - 1 : sem_cache'[j] = sem_cache[j + 1]
      BY <3>1, <3>3, HeadTailProperties DEF TInv, TypeOK
    <3>5. i - 1 \in 1 .. n - 1 /\ (i - 1) + 1 = i
      BY <3>2, <3>4
    <3> QED
      BY <3>2, <3>4, <3>5
  <2>3. CASE \E d \in Client : Owner(d) /\ SemOf(d) = t
    BY <1>7, <2>3 DEF Live, Owner
  <2> QED
    BY <2>1, <2>2, <2>3
<1>10. CacheRoom'
  <2>1. PICK n \in Nat : n = Len(sem_cache)
    BY DEF TInv, TypeOK
  <2>2. CASE sem_cache' = sem_cache
    BY <1>2, <2>2 DEF CacheRoom
  <2>3. CASE sem_cache # <<>> /\ sem_cache' = Tail(sem_cache)
    <3>1. Len(sem_cache') = n - 1 /\ CacheMax \in Nat
      BY <2>1, <2>3, HeadTailProperties, BoundAssumption DEF TInv, TypeOK
    <3> QED
      BY <1>2, <2>1, <3>1 DEF CacheRoom
  <2> QED
    BY <1>4, <2>2, <2>3 DEF popSem
<1> QED
  BY <1>9, <1>10

\* The steps that neither take a semaphore nor give one back.
LEMMA RestLives ==
  ASSUME LInv, UNCHANGED <<sem_cache, sem_cache_size_max, alive>>,
         \A c \in Client : Owner(c) => Owner(c)' /\ SemOf(c)' = SemOf(c)
  PROVE  Accounted' /\ CacheRoom'
  BY DEF LInv, Accounted, CacheRoom

LEMMA WaitStepLives ==
  ASSUME LInv, NEW c \in Client,
         createUUID(c) \/ syncWaitLookup(c) \/ semWait(c) \/ semTimeout(c)
  PROVE  Accounted' /\ CacheRoom'
<1>1. pc \in [Client -> {"idle", "created", "prepared", "waiting", "woken", "pushed"}]
  BY DEF LInv, OInv, TInv, TypeOK
<1>2. UNCHANGED <<sem_cache, sem_cache_size_max, alive, sync_sem>>
  BY DEF createUUID, syncWaitLookup, semWait, semTimeout, cache_vars, sync_map_vars
<1>3. \A d \in Client : d # c => pc'[d] = pc[d] /\ SemOf(d)' = SemOf(d)
  BY <1>1, <1>2 DEF createUUID, NewCall, syncWaitLookup, semWait, semTimeout, Goto, SemOf,
                    LInv, OInv, TInv, TypeOK
<1>4. CASE createUUID(c)
  <2>1. pc[c] = "idle" /\ pc'[c] = "created"
    BY <1>1, <1>4 DEF createUUID, NewCall, Goto
  <2> QED
    BY <1>2, <1>3, <2>1, RestLives DEF Owner
<1>5. CASE syncWaitLookup(c)
  <2>1. pc[c] = "prepared" /\ SemOf(c) \in Sem /\ UNCHANGED req
    BY <1>5 DEF syncWaitLookup, LInv, OInv, Requests, LiveHasEntry, Live, Owner
  <2>2. pc'[c] = "waiting"
    BY <1>1, <1>5, <2>1, NoSemAssumption DEF syncWaitLookup, Goto, SemOf
  <2> QED
    BY <1>2, <1>3, <2>1, <2>2, RestLives DEF Owner, SemOf
<1>6. CASE semWait(c) \/ semTimeout(c)
  <2>1. pc[c] = "waiting" /\ pc'[c] = "woken" /\ UNCHANGED req
    BY <1>1, <1>6 DEF semWait, semTimeout, Goto
  <2> QED
    BY <1>2, <1>3, <2>1, RestLives DEF Owner, SemOf
<1> QED
  BY <1>4, <1>5, <1>6

LEMMA EraseLives ==
  ASSUME Disciplined, LInv, NEW c \in Client, syncWaitErase(c)
  PROVE  Accounted' /\ CacheRoom'
<1>1. /\ pc[c] = "pushed" /\ pc' = [pc EXCEPT ![c] = "idle"]
      /\ sync_sem' = [sync_sem EXCEPT ![req[c]] = NoSem]
      /\ UNCHANGED <<sem_cache, sem_cache_size_max, alive, uuid, req>>
      /\ \A d \in Client : d # c => held'[d] = held[d]
  BY DEF syncWaitErase, cache_vars, Goto, LInv, OInv, TInv, TypeOK
<1>2. \A d \in Client : d # c /\ Live(d) => SemOf(d)' = SemOf(d)
  BY <1>1, EraseRequests DEF Live, LInv
<1>3. /\ pc'[c] = "idle" /\ ~Owner(c)
      /\ \A d \in Client : d # c => pc'[d] = pc[d]
  BY <1>1 DEF LInv, OInv, TInv, TypeOK, Owner
<1> QED
  BY <1>1, <1>2, <1>3, RestLives DEF Owner, Live

LEMMA PushLives ==
  ASSUME Disciplined, LInv, NEW c \in Client, syncWaitPushSem(c) \/ syncCancel(c)
  PROVE  Accounted' /\ CacheRoom'
<1> USE DEF LInv, OInv
<1>1. pc \in [Client -> {"idle", "created", "prepared", "waiting", "woken", "pushed"}]
  BY DEF TInv, TypeOK
<1>2. CASE syncWaitPushSem(c)
  <2>1. /\ pc[c] = "woken" /\ pc' = [pc EXCEPT ![c] = "pushed"]
        /\ UNCHANGED <<sync_sem, sem_cache_size_max, req>>
    BY <1>2 DEF syncWaitPushSem, sync_map_vars, Goto
  <2>2. Owner(c) /\ held[c] = SemOf(c)
    BY <2>1 DEF Owner, Requests, LiveHasEntry
  <2>3. pushSem(SemOf(c))
    BY <1>2, <2>2 DEF syncWaitPushSem, pushSem
  <2>4. pc'[c] = "pushed" /\ \A d \in Client : d # c => pc'[d] = pc[d]
    BY <1>1, <2>1
  <2>5. \A d \in Client : SemOf(d)' = SemOf(d)
    BY <2>1 DEF SemOf
  <2> QED
    BY <2>1, <2>2, <2>3, <2>4, <2>5, GiveUpLives
<1>3. CASE syncCancel(c)
  <2>1. /\ pc[c] = "prepared" /\ pc' = [pc EXCEPT ![c] = "idle"]
        /\ UNCHANGED <<sem_cache_size_max, uuid, req, held>>
    BY <1>3 DEF syncCancel, Goto
  <2>2. Owner(c) /\ Live(c) /\ SemOf(c) \in Sem
    BY <2>1 DEF Owner, Live, Requests, LiveHasEntry
  <2>3. cancelEntry(req[c])
    BY <1>3, <2>2, NoSemAssumption DEF syncCancel, SemOf
  <2>4. pushSem(SemOf(c)) /\ sync_sem' = [sync_sem EXCEPT ![req[c]] = NoSem]
    BY <2>3 DEF cancelEntry, pushSem, SemOf
  <2>5. \A d \in Client : d # c /\ Live(d) => SemOf(d)' = SemOf(d)
    BY <2>1, <2>2, <2>4, EraseRequests
  <2>6. pc'[c] = "idle" /\ \A d \in Client : d # c => pc'[d] = pc[d]
    BY <1>1, <2>1
  <2> QED
    BY <2>1, <2>2, <2>4, <2>5, <2>6, GiveUpLives
<1> QED
  BY <1>2, <1>3

LEMMA LStep == ASSUME Disciplined PROVE LInv /\ [Next]_vars => LInv'
<1> SUFFICES ASSUME LInv, [Next]_vars PROVE Accounted' /\ CacheRoom'
  BY OStep DEF LInv
<1>1. ASSUME NEW c \in Client, createUUID(c) \/ syncPrepare(c) \/ syncCancel(c) \/ WaitStep(c)
      PROVE  Accounted' /\ CacheRoom'
  BY <1>1, WaitStepLives, PrepareLives, PushLives, EraseLives DEF WaitStep
<1>2. ASSUME UNCHANGED <<sync_sem, sem_cache, sem_cache_size_max, alive, pc, req>>
      PROVE  Accounted' /\ CacheRoom'
  BY <1>2, RestLives DEF Owner, SemOf
<1>3. ASSUME NEW u \in UUID, NEW d \in Payload, syncPost(u, d)
      PROVE  Accounted' /\ CacheRoom'
  BY <1>2, <1>3 DEF syncPost, cache_vars, call_vars
<1>4. ASSUME NEW n \in SemCount, setSemCount(n)
      PROVE  Accounted' /\ CacheRoom'
  BY <1>4 DEF setSemCount, sync_map_vars, cache_vars, call_vars, LInv, Accounted, CacheRoom,
              Owner, SemOf
<1>5. CASE UNCHANGED vars
  BY <1>2, <1>5 DEF vars
<1> QED
  BY <1>1, <1>3, <1>4, <1>5 DEF Next, Finished, Disciplined

\* For every size of the cache and every number of clients, nobody waits on a deleted
\* semaphore, the cache holds none, only an entry whose wait is over refers to one, and
\* none leaks on a time-out, a cancel or a failed wait.
THEOREM SemaphoresLive == ASSUME Disciplined PROVE Spec => []SemLifetime
<1>1. LInv => SemLifetime
  <2> SUFFICES ASSUME LInv PROVE DeletedOnlyWhileErasing /\ NoLeakedSem /\ CacheBounded
    BY DEF SemLifetime
  <2>1. ASSUME NEW c \in Client, Owner(c)
        PROVE  sync_sem[req[c]] \in alive /\ (pc[c] # "prepared" => held[c] \in alive)
    BY <2>1 DEF LInv, OInv, Requests, LiveHasEntry, Cache, KnownAreAlive, Owner, SemOf
  <2>2. ASSUME NEW u \in UUID, sync_sem[u] \in Sem \ alive
        PROVE  \E c \in Client : pc[c] = "pushed" /\ req[c] = u
    <3>1. PICK c \in Client : Live(c) /\ req[c] = u
      BY <2>2, NoSemAssumption DEF LInv, OInv, Requests, EntryHasClient
    <3> QED
      BY <2>1, <2>2, <3>1 DEF Live
  <2>3. DeletedOnlyWhileErasing
    BY <2>1, <2>2 DEF DeletedOnlyWhileErasing, Owner, LInv, OInv, Cache, KnownAreAlive
  <2>4. ASSUME \A c \in Client : pc[c] \in {"idle", "created"}
        PROVE  alive = {sem_cache[i] : i \in 1 .. Len(sem_cache)}
    <3>1. \A c \in Client : ~Owner(c)
      BY <2>4 DEF Owner
    <3>2. \A s \in alive : \E i \in 1 .. Len(sem_cache) : sem_cache[i] = s
      BY <3>1 DEF LInv, Accounted
    <3>3. \A i \in 1 .. Len(sem_cache) : sem_cache[i] \in alive
      BY DEF LInv, OInv, Cache, KnownAreAlive
    <3> QED
      BY <3>2, <3>3
  <2> QED
    BY <2>3, <2>4 DEF LInv, CacheRoom, CacheBounded, NoLeakedSem
<1>2. LInv /\ [Next]_vars => LInv'
  BY LStep
<1> QED
  BY <1>1, <1>2, InitLInv, PTL DEF Spec
=============================================================================
