-------------------------- MODULE ThreadPool_proofs --------------------------
(***************************************************************************)
(* ThreadPool for every finite set of workers and all sets of pushers and  *)
(* bounds: types, no message lost or doubled, and who owns the threads.    *)
(*                                                                         *)
(* Messages: the four places a message can be in exclude each other, and   *)
(* exactly the pushed messages are in one.  Threads: an object that is not *)
(* deleted has an entry, so that clearing the entries after the joins      *)
(* forgets nobody, and nothing is created any more by then.                *)
(***************************************************************************)
EXTENDS ThreadPool, FiniteSetTheorems, SequenceTheorems, TLAPS

-----------------------------------------------------------------------------
(* The inductive invariant *)

\* The sum of the manager's two counts stays within its type.
CountsFit == mpc = "pausing" => seen <= Cardinality(Worker)

Queued(m) == \E i \in 1 .. Len(msgs) : msgs[i] = m
InHand(m) == \E w \in Worker : hand[w] = m

\* A message is once in the queue, in one hand, and in one place only.
Apart ==
  /\ \A i, j \in 1 .. Len(msgs) : msgs[i] = msgs[j] => i = j
  /\ \A v, w \in Worker : hand[v] = hand[w] /\ hand[w] # Nothing => v = w
  /\ \A w \in Worker : wpc[w] = "run" <=> hand[w] # Nothing
  /\ \A m \in Message :
       /\ Queued(m) => ~InHand(m) /\ handled[m] = 0 /\ m \notin dropped
       /\ InHand(m) => handled[m] = 0 /\ m \notin dropped
       /\ m \in dropped => handled[m] = 0

\* The messages that were pushed are the ones that are somewhere.
Somewhere ==
  /\ \A m \in Message :
       m \in Pushed <=> Queued(m) \/ InHand(m) \/ handled[m] = 1 \/ m \in dropped
  /\ \A p \in Pusher : ppc[p] = "push" => count[p] < MaxPush
  /\ \A p \in Pusher : ppc[p] = "done" => \A k \in 1 .. MaxPush : ~Queued(<<p, k>>)

\* A thread has an object from its creation on, and it is deleted only when the
\* thread has returned; an object that is not deleted has an entry.
Owned ==
  /\ \A w \in Worker :
       /\ obj[w] = "none" <=> wpc[w] = "none"
       /\ obj[w] = "deleted" => wpc[w] = "ended"
       /\ w \in threads /\ flag[w] = -1 => wpc[w] = "ended"
       /\ obj[w] = "live" => w \in threads
  /\ spc \notin {"join", "crashed"} => \A w \in threads : obj[w] = "live"

\* stopThreadPool joins every thread that has an entry, and no thread is created
\* once it has begun.
Stopping ==
  /\ spc # "idle" => ~running
  /\ spc = "join" => \A w \in threads : w \in todo \/ obj[w] = "deleted"
  /\ spc \in {"manager", "stopped"} => threads = {}
  /\ spc = "stopped" => mpc = "ended"

IInv == TypeOK /\ CountsFit /\ Apart /\ Somewhere /\ Owned /\ Stopping

-----------------------------------------------------------------------------
(* Types *)

LEMMA MessageShape ==
  ASSUME NEW m \in Message
  PROVE  m[1] \in Pusher /\ m[2] \in 1 .. MaxPush /\ m = <<m[1], m[2]>> /\ m # Nothing
  BY PoolAssumption DEF Message

LEMMA QueueTypes ==
  ASSUME TypeOK, msgs # <<>>
  PROVE  Head(msgs) \in Message /\ Tail(msgs) \in Seq(Message) /\ Len(msgs) > 0
  BY DEF TypeOK

LEMMA ElementsType ==
  ASSUME TypeOK
  PROVE  /\ Elements(msgs) \subseteq Message
         /\ \A m \in Message : m \in Elements(msgs) <=> Queued(m)
  BY DEF TypeOK, Elements, Queued

\* The threads the manager counts are workers.
LEMMA CountsBounded ==
  ASSUME TypeOK
  PROVE  /\ Cardinality(Worker) \in Nat
         /\ getRunningCount \in 0 .. Cardinality(Worker)
         /\ getPauseCount \in 0 .. Cardinality(Worker)
  <1>1. ASSUME NEW S \in SUBSET Worker PROVE Cardinality(S) \in 0 .. Cardinality(Worker)
    BY PoolAssumption, FS_Subset, FS_CardinalityType
  <1>2. {w \in threads : flag[w] = 1} \subseteq Worker /\ {w \in threads : flag[w] = 0} \subseteq Worker
    BY DEF TypeOK
  <1> QED  BY <1>1, <1>2, PoolAssumption, FS_CardinalityType DEF getRunningCount, getPauseCount

LEMMA PushTypes ==
  ASSUME IInv, NEW p \in Pusher,
         pushCheck(p) \/ PushStep(p) \/ waitRunning(p) \/ waitMessages(p)
  PROVE  TypeOK'
  <1> USE DEF IInv, TypeOK, pushFrame, managerVars, stopVars, PGoto
  <1>1. CASE pushCheck(p)  BY <1>1 DEF pushCheck
  <1>2. ASSUME NEW u \in BOOLEAN, pushPoolMessage(p, u) PROVE TypeOK'
    <2>1. count[p] < MaxPush /\ count[p] + 1 \in 1 .. MaxPush
      BY <1>2, PoolAssumption DEF pushPoolMessage, Somewhere
    <2>2. <<p, count[p] + 1>> \in Message  BY <2>1 DEF Message
    <2>3. <<<<p, count[p] + 1>>>> \in Seq(Message)  BY <2>2
    <2>4. msgs' \in Seq(Message)  BY <1>2, <2>2, <2>3 DEF pushPoolMessage
    <2>5. count' \in [Pusher -> 0 .. MaxPush]  BY <1>2, <2>1, PoolAssumption DEF pushPoolMessage
    <2> QED  BY <1>2, <2>4, <2>5 DEF pushPoolMessage
  <1>3. CASE pushNotify(p)  BY <1>3 DEF pushNotify
  <1>4. CASE waitRunning(p)  BY <1>4 DEF waitRunning
  <1>5. CASE waitMessages(p)  BY <1>5 DEF waitMessages
  <1> QED  BY <1>1, <1>2, <1>3, <1>4, <1>5 DEF PushStep

LEMMA WorkerTypes ==
  ASSUME IInv, NEW w \in Worker, ThreadLoop(w) \/ wakeSpuriously(w)
  PROVE  TypeOK'
  <1> USE DEF IInv, TypeOK, workerFrame, WGoto, setFlag, managerVars, stopVars, pushVars
  <1>1. CASE loop(w)  BY <1>1 DEF loop
  <1>2. CASE countMessages(w)  BY <1>2 DEF countMessages
  <1>3. CASE exitIfSpare(w)  BY <1>3 DEF exitIfSpare
  <1>4. CASE markPaused(w)  BY <1>4 DEF markPaused
  <1>5. CASE wait(w)  BY <1>5 DEF wait
  <1>6. CASE wake(w)  BY <1>6 DEF wake
  <1>7. CASE wakeSpuriously(w)  BY <1>7 DEF wakeSpuriously
  <1>8. CASE markRunning(w)  BY <1>8 DEF markRunning
  <1>9. CASE take(w)  BY <1>9, QueueTypes DEF take
  <1>10. CASE drained(w)  BY <1>10 DEF drained
  <1>11. CASE threadPoolRunner(w)
    <2>1. hand[w] \in Message /\ handled[hand[w]] = 0
      BY <1>11 DEF threadPoolRunner, Apart, InHand
    <2>2. handled' \in [Message -> 0 .. 1]  BY <1>11, <2>1 DEF threadPoolRunner
    <2> QED  BY <1>11, <2>2 DEF threadPoolRunner
  <1>12. CASE exit(w)  BY <1>12 DEF exit
  <1> QED
    BY <1>1, <1>2, <1>3, <1>4, <1>5, <1>6, <1>7, <1>8, <1>9, <1>10, <1>11, <1>12
    DEF ThreadLoop

LEMMA ManagerTypes ==
  ASSUME IInv, ThreadManager
  PROVE  TypeOK' /\ CountsFit'
  <1> USE DEF IInv, TypeOK, managerFrame, stopVars, pushVars
  <1>1. CASE createThread
    <2>1. more' \in 0 .. Max /\ mpc' # "pausing"  BY <1>1, PoolAssumption DEF createThread
    <2> QED  BY <1>1, <2>1 DEF createThread, CountsFit
  <1>2. CASE createEnd  BY <1>2, PoolAssumption DEF createEnd, CountsFit
  <1>3. CASE managerLoop  BY <1>3 DEF managerLoop, CountsFit
  <1>4. CASE managerRecycle  BY <1>4 DEF managerRecycle, recycleThread, CountsFit
  <1>5. CASE managerFinal  BY <1>5 DEF managerFinal, recycleThread, CountsFit
  <1>6. CASE managerCountRunning
    <2>1. seen' \in 0 .. Cardinality(Worker) * 2 /\ seen' <= Cardinality(Worker)
      BY <1>6, CountsBounded DEF managerCountRunning
    <2> QED  BY <1>6, <2>1 DEF managerCountRunning, CountsFit
  <1>7. CASE managerCountPaused
    <2>1. seen' \in 0 .. Cardinality(Worker) * 2
      BY <1>7, CountsBounded DEF managerCountPaused, CountsFit
    <2> QED  BY <1>7, <2>1 DEF managerCountPaused, CountsFit
  <1>8. CASE managerDecide
    <2>1. Len(msgs) \div QueueSize \in Int /\ seen \in Nat
      BY CountsBounded, PoolAssumption
    <2>2. more' \in 0 .. Max
      BY <1>8, <2>1, PoolAssumption DEF managerDecide, AtMost
    <2>3. seen' \in 0 .. Cardinality(Worker) * 2  BY <1>8, CountsBounded DEF managerDecide
    <2> QED  BY <1>8, <2>2, <2>3 DEF managerDecide, CountsFit
  <1> QED
    BY <1>1, <1>2, <1>3, <1>4, <1>5, <1>6, <1>7, <1>8 DEF ThreadManager

LEMMA StopTypes ==
  ASSUME IInv, (\E f \in BOOLEAN : stopThreadPool(f)) \/ StopStep
  PROVE  TypeOK'
  <1> USE DEF IInv, TypeOK, stopFrame, managerVars, pushVars
  <1>1. ASSUME NEW f \in BOOLEAN, stopThreadPool(f) PROVE TypeOK'
    BY <1>1 DEF stopThreadPool
  <1>2. CASE stopClear  BY <1>2, ElementsType DEF stopClear
  <1>3. CASE stopNotify  BY <1>3 DEF stopNotify
  <1>4. CASE stopCopy  BY <1>4 DEF stopCopy
  <1>5. ASSUME NEW w \in Worker, stopJoin(w) PROVE TypeOK'  BY <1>5 DEF stopJoin
  <1>6. CASE stopErase  BY <1>6 DEF stopErase
  <1>7. CASE stopManager  BY <1>7 DEF stopManager
  <1> QED  BY <1>1, <1>2, <1>3, <1>4, <1>5, <1>6, <1>7 DEF StopStep

LEMMA ClearTypes ==
  ASSUME IInv, clearPoolMessage
  PROVE  TypeOK'
  BY ElementsType DEF IInv, TypeOK, clearPoolMessage, pushFrame, managerVars, stopVars, pushVars

-----------------------------------------------------------------------------
(* Where the messages are *)

Places == <<msgs, hand, handled, dropped, count>>

\* Most steps move no message.
LEMMA PlacesUntouched ==
  ASSUME IInv, UNCHANGED Places,
         \A w \in Worker : wpc'[w] = "run" <=> wpc[w] = "run",
         \A p \in Pusher : ppc'[p] = "push" => count[p] < MaxPush,
         \A p \in Pusher : ppc'[p] = "done" => ppc[p] = "done" \/ msgs = <<>>
  PROVE  Apart' /\ Somewhere'
  <1>1. \A m : (Queued(m)' <=> Queued(m)) /\ (InHand(m)' <=> InHand(m))
    BY DEF Places, Queued, InHand
  <1>2. Pushed' = Pushed  BY DEF Places, Pushed
  <1>3. Apart'  BY <1>1 DEF IInv, Apart, Places
  <1>4. \A p \in Pusher : ppc'[p] = "done" => \A k \in 1 .. MaxPush : ~Queued(<<p, k>>)
    BY DEF IInv, Somewhere, Queued
  <1>5. Somewhere'  BY <1>1, <1>2, <1>4 DEF IInv, Somewhere, Places
  <1> QED  BY <1>3, <1>5

\* The places of a queue that has grown by one, at its end or at its front.
LEMMA OneMorePlace ==
  ASSUME NEW n \in Nat, NEW k \in 1 .. n + 1
  PROVE  /\ k \in 1 .. n \/ k = n + 1
         /\ k = 1 \/ k \in 2 .. n + 1
         /\ k # 1 => k - 1 \in 1 .. n
  OBVIOUS

LEMMA PushPlaces ==
  ASSUME IInv, NEW p \in Pusher, NEW u \in BOOLEAN, pushPoolMessage(p, u)
  PROVE  Apart' /\ Somewhere'
  <1> USE DEF pushPoolMessage, pushFrame, PGoto
  <1> DEFINE m == <<p, count[p] + 1>>
  <1>1. count[p] \in Nat /\ count[p] < MaxPush
    BY PoolAssumption DEF IInv, TypeOK, Somewhere
  <1>2. m \in Message /\ m \notin Pushed
    BY <1>1, PoolAssumption DEF Message, Pushed
  <1>3. ~Queued(m) /\ ~InHand(m) /\ handled[m] = 0 /\ m \notin dropped
    BY <1>2 DEF IInv, Somewhere, TypeOK
  <1>4. msgs \in Seq(Message) /\ Len(msgs) \in Nat  BY DEF IInv, TypeOK
  <1>5. Len(msgs') = Len(msgs) + 1
        /\ \/ /\ \A i \in 1 .. Len(msgs) : msgs'[i] = msgs[i]
              /\ msgs'[Len(msgs) + 1] = m
           \/ /\ \A i \in 2 .. Len(msgs) + 1 : msgs'[i] = msgs[i - 1]
              /\ msgs'[1] = m
    <2>1. CASE u
      <3>1. msgs' = <<m>> \o msgs  BY <2>1
      <3> QED  BY <1>2, <1>4, <3>1
    <2>2. CASE ~u
      <3>1. msgs' = Append(msgs, m)  BY <2>2
      <3> QED  BY <1>2, <1>4, <3>1
    <2> QED  BY <2>1, <2>2
  <1>6. \A n : Queued(n)' <=> Queued(n) \/ n = m
    <2> TAKE n
    <2>1. ASSUME Queued(n) PROVE Queued(n)'
      <3>1. PICK i \in 1 .. Len(msgs) : msgs[i] = n  BY <2>1 DEF Queued
      <3>2. i \in 1 .. Len(msgs') /\ i + 1 \in 1 .. Len(msgs') /\ i + 1 \in 2 .. Len(msgs) + 1
            /\ (i + 1) - 1 = i
        BY <1>4, <1>5
      <3>3. msgs'[i] = n \/ msgs'[i + 1] = n  BY <1>5, <3>1, <3>2
      <3> QED  BY <3>2, <3>3 DEF Queued
    <2>2. ASSUME n = m PROVE Queued(n)'
      <3>1. Len(msgs) + 1 \in 1 .. Len(msgs') /\ 1 \in 1 .. Len(msgs')  BY <1>4, <1>5
      <3> QED  BY <1>5, <2>2, <3>1 DEF Queued
    <2>3. ASSUME Queued(n)', n # m PROVE Queued(n)
      <3>1. PICK i \in 1 .. Len(msgs') : msgs'[i] = n  BY <2>3 DEF Queued
      <3>2. i \in 1 .. Len(msgs) \/ i = Len(msgs) + 1  BY <1>4, <1>5
      <3>3. i = 1 \/ (i \in 2 .. Len(msgs) + 1 /\ i - 1 \in 1 .. Len(msgs))  BY <1>4, <1>5
      <3>4. \/ msgs[i] = n /\ i \in 1 .. Len(msgs)
            \/ msgs[i - 1] = n /\ i - 1 \in 1 .. Len(msgs)
        <4>1. CASE /\ \A k \in 1 .. Len(msgs) : msgs'[k] = msgs[k]
                   /\ msgs'[Len(msgs) + 1] = m
          <5>1. i # Len(msgs) + 1  BY <2>3, <3>1, <4>1
          <5> QED  BY <3>1, <3>2, <4>1, <5>1
        <4>2. CASE /\ \A k \in 2 .. Len(msgs) + 1 : msgs'[k] = msgs[k - 1]
                   /\ msgs'[1] = m
          <5>1. i # 1  BY <2>3, <3>1, <4>2
          <5> QED  BY <3>1, <3>3, <4>2, <5>1
        <4> QED  BY <1>5, <4>1, <4>2
      <3> QED  BY <3>4 DEF Queued
    <2> QED  BY <2>1, <2>2, <2>3
  <1>7. \A i, j \in 1 .. Len(msgs') : msgs'[i] = msgs'[j] => i = j
    <2>0. Len(msgs') = Len(msgs) + 1  BY <1>5
    <2> HIDE DEF m, pushPoolMessage
    <2>1. \A i \in 1 .. Len(msgs) : msgs[i] # m  BY <1>3 DEF Queued
    <2>2. \A i, j \in 1 .. Len(msgs) : msgs[i] = msgs[j] => i = j  BY DEF IInv, Apart
    <2> SUFFICES ASSUME NEW i \in 1 .. Len(msgs'), NEW j \in 1 .. Len(msgs'), msgs'[i] = msgs'[j]
                 PROVE  i = j
      OBVIOUS
    <2>3. CASE /\ \A k \in 1 .. Len(msgs) : msgs'[k] = msgs[k]
               /\ msgs'[Len(msgs) + 1] = m
      <3>1. /\ i \in 1 .. Len(msgs) \/ i = Len(msgs) + 1
            /\ j \in 1 .. Len(msgs) \/ j = Len(msgs) + 1
        BY <1>4, <2>0, OneMorePlace
      <3> QED  BY <2>1, <2>2, <2>3, <3>1
    <2>4. CASE /\ \A k \in 2 .. Len(msgs) + 1 : msgs'[k] = msgs[k - 1]
               /\ msgs'[1] = m
      <3>1. /\ i = 1 \/ i \in 2 .. Len(msgs) + 1
            /\ j = 1 \/ j \in 2 .. Len(msgs) + 1
        BY <1>4, <2>0, OneMorePlace
      <3>2. \A k \in 2 .. Len(msgs) + 1 :
              k - 1 \in 1 .. Len(msgs) /\ msgs'[k] = msgs[k - 1] /\ msgs'[k] # m
      <4> TAKE k \in 2 .. Len(msgs) + 1
      <4>1. k \in 1 .. Len(msgs) + 1 /\ k # 1  BY <1>4
      <4>2. k - 1 \in 1 .. Len(msgs)  BY <1>4, <4>1, OneMorePlace
      <4> QED  BY <2>1, <2>4, <4>2
      <3>3. CASE i = 1 \/ j = 1
        BY <2>4, <3>1, <3>2, <3>3
      <3>4. CASE i # 1 /\ j # 1
        <4>1. /\ i - 1 \in 1 .. Len(msgs) /\ j - 1 \in 1 .. Len(msgs)
              /\ msgs[i - 1] = msgs[j - 1]
          BY <3>1, <3>2, <3>4
        <4>2. i - 1 = j - 1  BY <2>2, <4>1
        <4> QED  BY <4>2
      <3> QED  BY <3>3, <3>4
    <2> QED  BY <1>5, <2>3, <2>4
  <1>8. \A n : InHand(n)' <=> InHand(n)  BY DEF InHand
  <1>9. Apart'
    <2>1. \A n \in Message :
            /\ Queued(n)' => ~InHand(n)' /\ handled[n] = 0 /\ n \notin dropped
            /\ InHand(n)' => handled[n] = 0 /\ n \notin dropped
            /\ n \in dropped => handled[n] = 0
      BY <1>3, <1>6, <1>8 DEF IInv, Apart
    <2> QED  BY <1>7, <2>1 DEF IInv, Apart
  <1>10. \A n \in Message : n \in Pushed' <=> n \in Pushed \/ n = m
    <2> TAKE n \in Message
    <2>1. n[1] \in Pusher /\ n[2] \in Nat /\ n = <<n[1], n[2]>>  BY MessageShape
    <2>2. CASE n[1] # p
      <3>1. count'[n[1]] = count[n[1]] /\ n # m  BY <2>1, <2>2 DEF IInv, TypeOK
      <3> QED  BY <3>1 DEF Pushed
    <2>3. CASE n[1] = p
      <3>1. count'[p] = count[p] + 1  BY DEF IInv, TypeOK
      <3>2. n = m <=> n[2] = count[p] + 1  BY <2>1, <2>3
      <3>3. n[2] <= count[p] + 1 <=> n[2] <= count[p] \/ n[2] = count[p] + 1  BY <1>1, <2>1
      <3> QED  BY <2>3, <3>1, <3>2, <3>3 DEF Pushed
    <2> QED  BY <2>2, <2>3
  <1>11. Somewhere'
    <2>1. \A n \in Message :
            n \in Pushed' <=> Queued(n)' \/ InHand(n)' \/ handled'[n] = 1 \/ n \in dropped'
      BY <1>6, <1>8, <1>10 DEF IInv, Somewhere
    <2>2. \A q \in Pusher : ppc'[q] \in {"push", "done"} => q # p /\ ppc'[q] = ppc[q]
      BY DEF IInv, TypeOK
    <2>3. \A q \in Pusher : ppc'[q] = "push" => count'[q] < MaxPush
      BY <2>2 DEF IInv, TypeOK, Somewhere
    <2>4. \A q \in Pusher : ppc'[q] = "done" => \A k \in 1 .. MaxPush : ~Queued(<<q, k>>)'
      BY <1>6, <2>2 DEF IInv, Somewhere
    <2> QED  BY <2>1, <2>3, <2>4 DEF Somewhere
  <1> QED  BY <1>9, <1>11

\* The queue is emptied for good: clearPoolMessage and a forced stop.
LEMMA ClearPlaces ==
  ASSUME IInv, dropped' = dropped \cup Elements(msgs), msgs' = <<>>,
         UNCHANGED <<hand, handled, count, wpc, ppc>>
  PROVE  Apart' /\ Somewhere'
  <1>1. \A n \in Message : n \in dropped' <=> n \in dropped \/ Queued(n)
    BY ElementsType DEF IInv
  <1>2. \A n : ~Queued(n)'  BY DEF Queued
  <1>3. \A n : InHand(n)' <=> InHand(n)  BY DEF InHand
  <1>4. Apart'  BY <1>1, <1>2, <1>3 DEF IInv, Apart
  <1>5. Pushed' = Pushed  BY DEF Pushed
  <1>6. Somewhere'  BY <1>1, <1>2, <1>3, <1>5 DEF IInv, Somewhere
  <1> QED  BY <1>4, <1>6

LEMMA TakePlaces ==
  ASSUME IInv, NEW w \in Worker, take(w)
  PROVE  Apart' /\ Somewhere'
  <1> USE DEF take, workerFrame, WGoto, pushVars
  <1> DEFINE m == Head(msgs)
  <1>1. m \in Message /\ Len(msgs) > 0 /\ msgs \in Seq(Message) /\ m = msgs[1] /\ m # Nothing
    BY QueueTypes, MessageShape DEF IInv, TypeOK
  <1>2. Queued(m)  BY <1>1 DEF Queued
  <1>3. ~InHand(m) /\ handled[m] = 0 /\ m \notin dropped  BY <1>1, <1>2 DEF IInv, Apart
  <1>4. Len(msgs') = Len(msgs) - 1 /\ \A i \in 1 .. Len(msgs') : msgs'[i] = msgs[i + 1]
    BY <1>1
  <1>5. \A i, j \in 1 .. Len(msgs) : msgs[i] = msgs[j] => i = j  BY DEF IInv, Apart
  <1>6. \A i \in 1 .. Len(msgs') : i + 1 \in 1 .. Len(msgs) /\ i + 1 # 1  BY <1>1, <1>4
  <1>7. \A n : Queued(n)' <=> Queued(n) /\ n # m
    <2> TAKE n
    <2>1. ASSUME Queued(n)' PROVE Queued(n) /\ n # m
      <3>1. PICK i \in 1 .. Len(msgs') : msgs'[i] = n  BY <2>1 DEF Queued
      <3>2. msgs[i + 1] = n /\ i + 1 \in 1 .. Len(msgs) /\ i + 1 # 1 /\ 1 \in 1 .. Len(msgs)
        BY <1>1, <1>4, <1>6, <3>1
      <3> QED  BY <1>1, <1>5, <3>2 DEF Queued
    <2>2. ASSUME Queued(n), n # m PROVE Queued(n)'
      <3>1. PICK i \in 1 .. Len(msgs) : msgs[i] = n  BY <2>2 DEF Queued
      <3>2. i - 1 \in 1 .. Len(msgs') /\ (i - 1) + 1 = i  BY <1>1, <1>4, <2>2, <3>1
      <3> QED  BY <1>4, <3>1, <3>2 DEF Queued
    <2> QED  BY <2>1, <2>2
  <1>8. hand[w] = Nothing  BY DEF IInv, Apart
  <1>9. hand'[w] = m /\ \A v \in Worker \ {w} : hand'[v] = hand[v]  BY DEF IInv, TypeOK
  <1>10. \A n \in Message : InHand(n)' <=> InHand(n) \/ n = m
    <2> TAKE n \in Message
    <2>1. n # Nothing  BY MessageShape
    <2> QED  BY <1>8, <1>9, <2>1 DEF InHand
  <1>11. Apart'
    <2>1. \A i, j \in 1 .. Len(msgs') : msgs'[i] = msgs'[j] => i = j
      <3> SUFFICES ASSUME NEW i \in 1 .. Len(msgs'), NEW j \in 1 .. Len(msgs'), msgs'[i] = msgs'[j]
                   PROVE  i = j
        OBVIOUS
      <3>1. i + 1 = j + 1  BY <1>4, <1>5, <1>6
      <3> QED  BY <3>1
    <2>2. \A v, x \in Worker : hand'[v] = hand'[x] /\ hand'[v] # Nothing => v = x
      BY <1>3, <1>9 DEF IInv, Apart, InHand
    <2>3. \A v \in Worker : wpc'[v] = "run" <=> hand'[v] # Nothing
      BY <1>1, <1>9 DEF IInv, TypeOK, Apart
    <2>4. \A n \in Message :
            /\ Queued(n)' => ~InHand(n)' /\ handled[n] = 0 /\ n \notin dropped
            /\ InHand(n)' => handled[n] = 0 /\ n \notin dropped
            /\ n \in dropped => handled[n] = 0
      BY <1>3, <1>7, <1>10 DEF IInv, Apart
    <2> QED  BY <2>1, <2>2, <2>3, <2>4 DEF Apart
  <1>12. Pushed' = Pushed  BY DEF Pushed
  <1>13. Somewhere'  BY <1>1, <1>2, <1>7, <1>10, <1>12 DEF IInv, Somewhere
  <1> QED  BY <1>11, <1>13

LEMMA HandlePlaces ==
  ASSUME IInv, NEW w \in Worker, threadPoolRunner(w)
  PROVE  Apart' /\ Somewhere'
  <1> USE DEF threadPoolRunner, workerFrame, WGoto, pushVars
  <1> DEFINE m == hand[w]
  <1>1. m # Nothing /\ m \in Message  BY DEF IInv, TypeOK, Apart
  <1>2. InHand(m)  BY DEF InHand
  <1>3. ~Queued(m) /\ handled[m] = 0 /\ m \notin dropped  BY <1>1, <1>2 DEF IInv, Apart
  <1>4. hand'[w] = Nothing /\ \A v \in Worker \ {w} : hand'[v] = hand[v]
    BY DEF IInv, TypeOK
  <1>5. \A n \in Message : InHand(n)' <=> InHand(n) /\ n # m
    <2> TAKE n \in Message
    <2>1. n # Nothing  BY MessageShape
    <2> QED  BY <1>1, <1>4, <2>1 DEF InHand, IInv, Apart
  <1>6. handled'[m] = 1 /\ \A n \in Message : n # m => handled'[n] = handled[n]
    BY <1>1, <1>3 DEF IInv, TypeOK
  <1>7. \A n : Queued(n)' <=> Queued(n)  BY DEF Queued
  <1>8. Apart'
    <2>1. \A v, x \in Worker : hand'[v] = hand'[x] /\ hand'[v] # Nothing => v = x
      BY <1>4 DEF IInv, Apart
    <2>2. \A v \in Worker : wpc'[v] = "run" <=> hand'[v] # Nothing
      BY <1>4 DEF IInv, TypeOK, Apart
    <2>3. \A n \in Message :
            /\ Queued(n)' => ~InHand(n)' /\ handled'[n] = 0 /\ n \notin dropped
            /\ InHand(n)' => handled'[n] = 0 /\ n \notin dropped
            /\ n \in dropped => handled'[n] = 0
      BY <1>3, <1>5, <1>6, <1>7 DEF IInv, Apart
    <2> QED  BY <2>1, <2>2, <2>3 DEF IInv, Apart
  <1>9. Pushed' = Pushed  BY DEF Pushed
  <1>10. Somewhere'  BY <1>1, <1>2, <1>5, <1>6, <1>7, <1>9 DEF IInv, Somewhere
  <1> QED  BY <1>8, <1>10

-----------------------------------------------------------------------------
(* The parts of the invariant that a step leaves alone *)

LEMMA CountsUntouched ==
  ASSUME IInv, UNCHANGED managerVars
  PROVE  CountsFit'
  BY DEF IInv, CountsFit, managerVars

LEMMA ThreadsUntouched ==
  ASSUME IInv, UNCHANGED <<running, threads, obj, flag, wpc, mpc, spc, todo>>
  PROVE  Owned' /\ Stopping'
  BY DEF IInv, Owned, Stopping

-----------------------------------------------------------------------------
(* One lemma for each kind of step *)

LEMMA PushStepKeeps ==
  ASSUME IInv, NEW p \in Pusher,
         pushCheck(p) \/ PushStep(p) \/ waitRunning(p) \/ waitMessages(p)
  PROVE  IInv'
  <1>1. TypeOK'  BY PushTypes
  <1>2. pushFrame
    BY DEF pushCheck, PushStep, pushPoolMessage, pushNotify, waitRunning, waitMessages
  <1>3. CountsFit' /\ Owned' /\ Stopping'
    BY <1>2, CountsUntouched, ThreadsUntouched DEF pushFrame, managerVars, stopVars
  <1>4. Apart' /\ Somewhere'
    <2>1. CASE \E u \in BOOLEAN : pushPoolMessage(p, u)  BY <2>1, PushPlaces
    <2>2. CASE pushCheck(p) \/ pushNotify(p) \/ waitRunning(p) \/ waitMessages(p)
      <3>1. UNCHANGED Places /\ wpc' = wpc
        BY <1>2, <2>2
        DEF Places, pushFrame, pushCheck, pushNotify, waitRunning, waitMessages
      <3>2. \A q \in Pusher : ppc'[q] = "push" => count[q] < MaxPush
        BY <2>2 DEF pushCheck, pushNotify, waitRunning, waitMessages, PGoto, IInv, TypeOK, Somewhere
      <3>3. \A q \in Pusher : ppc'[q] = "done" => ppc[q] = "done" \/ msgs = <<>>
        BY <2>2 DEF pushCheck, pushNotify, waitRunning, waitMessages, PGoto, IInv, TypeOK
      <3> QED  BY <3>1, <3>2, <3>3, PlacesUntouched
    <2> QED  BY <2>1, <2>2 DEF PushStep
  <1> QED  BY <1>1, <1>3, <1>4 DEF IInv

LEMMA ClearKeeps ==
  ASSUME IInv, clearPoolMessage
  PROVE  IInv'
  <1>1. TypeOK'  BY ClearTypes
  <1>2. CountsFit' /\ Owned' /\ Stopping'
    BY CountsUntouched, ThreadsUntouched DEF clearPoolMessage, pushFrame, managerVars, stopVars
  <1>3. Apart' /\ Somewhere'  BY ClearPlaces DEF clearPoolMessage, pushFrame, pushVars
  <1> QED  BY <1>1, <1>2, <1>3 DEF IInv

\* A worker owns its object all the time; only exit, its last step, marks its entry.
LEMMA WorkerOwned ==
  ASSUME IInv, NEW w \in Worker, ThreadLoop(w) \/ wakeSpuriously(w)
  PROVE  Owned' /\ Stopping'
  <1>1. UNCHANGED <<running, threads, obj, mpc, spc, todo>>
    BY DEF ThreadLoop, loop, countMessages, exitIfSpare, markPaused, wait, wake,
           wakeSpuriously, markRunning, take, drained, threadPoolRunner, exit, workerFrame,
           managerVars, stopVars
  <1>2. Stopping'  BY <1>1 DEF IInv, Stopping
  <1>3. wpc[w] \notin {"none", "ended"} /\ wpc'[w] # "none"
        /\ \A v \in Worker : v # w => wpc'[v] = wpc[v] /\ flag'[v] = flag[v]
    BY DEF IInv, TypeOK, ThreadLoop, loop, countMessages, exitIfSpare, markPaused, wait, wake,
           wakeSpuriously, markRunning, take, drained, threadPoolRunner, exit, WGoto, setFlag
  <1>4. w \in threads /\ flag'[w] = -1 => wpc'[w] = "ended"
    <2>1. CASE exit(w)  BY <2>1 DEF exit, WGoto, IInv, TypeOK
    <2>2. CASE markPaused(w) \/ markRunning(w)
      BY <2>2 DEF markPaused, markRunning, setFlag, IInv, TypeOK
    <2>3. CASE UNCHANGED flag  BY <1>3, <2>3 DEF IInv, Owned
    <2> QED
      BY <2>1, <2>2, <2>3
      DEF ThreadLoop, loop, countMessages, exitIfSpare, wait, wake, wakeSpuriously, take,
          drained, threadPoolRunner
  <1>5. Owned'  BY <1>1, <1>3, <1>4 DEF IInv, Owned
  <1> QED  BY <1>2, <1>5

LEMMA WorkerKeeps ==
  ASSUME IInv, NEW w \in Worker, ThreadLoop(w) \/ wakeSpuriously(w)
  PROVE  IInv'
  <1>1. TypeOK'  BY WorkerTypes
  <1>2. workerFrame
    BY DEF ThreadLoop, loop, countMessages, exitIfSpare, markPaused, wait, wake,
           wakeSpuriously, markRunning, take, drained, threadPoolRunner, exit
  <1>3. CountsFit'  BY <1>2, CountsUntouched DEF workerFrame
  <1>4. Apart' /\ Somewhere'
    <2>1. CASE take(w)  BY <2>1, TakePlaces
    <2>2. CASE threadPoolRunner(w)  BY <2>2, HandlePlaces
    <2>3. CASE ~take(w) /\ ~threadPoolRunner(w)
      <3>1. UNCHANGED Places /\ ppc' = ppc
        BY <1>2, <2>3
        DEF ThreadLoop, loop, countMessages, exitIfSpare, markPaused, wait, wake,
            wakeSpuriously, markRunning, drained, exit, workerFrame, pushVars, Places
      <3>2. \A v \in Worker : wpc'[v] = "run" <=> wpc[v] = "run"
        BY <2>3
        DEF IInv, TypeOK, ThreadLoop, loop, countMessages, exitIfSpare, markPaused, wait, wake,
            wakeSpuriously, markRunning, drained, exit, WGoto
      <3> QED  BY <3>1, <3>2, PlacesUntouched DEF IInv, Somewhere
    <2> QED  BY <2>1, <2>2, <2>3
  <1> QED  BY <1>1, <1>3, <1>4, WorkerOwned DEF IInv

\* createThread makes object, entry and thread together; recycleThread deletes an
\* object and its entry, and only of threads that have returned.
LEMMA ManagerOwned ==
  ASSUME IInv, ThreadManager
  PROVE  Owned' /\ Stopping'
  <1> USE DEF managerFrame, stopVars
  <1>1. CASE createThread
    <2>1. PICK w \in Worker :
            /\ wpc[w] = "none"
            /\ threads' = threads \cup {w}
            /\ flag' = [flag EXCEPT ![w] = 0]
            /\ obj' = [obj EXCEPT ![w] = "live"]
            /\ wpc' = [wpc EXCEPT ![w] = "loop"]
      BY <1>1 DEF createThread
    <2>2. flag'[w] = 0 /\ obj'[w] = "live" /\ wpc'[w] = "loop"
          /\ \A v \in Worker : v # w =>
               flag'[v] = flag[v] /\ obj'[v] = obj[v] /\ wpc'[v] = wpc[v]
      BY <2>1 DEF IInv, TypeOK
    <2>3. spc = "idle" /\ spc' = spc  BY <1>1 DEF createThread, IInv, Stopping
    <2>4. Owned'  BY <2>1, <2>2, <2>3 DEF IInv, TypeOK, Owned
    <2>5. Stopping'  BY <2>3 DEF Stopping
    <2> QED  BY <2>4, <2>5
  <1>2. ASSUME NEW next \in {"running", "ended"}, recycleThread(next),
               UNCHANGED <<running, spc, todo, flag, wpc>>, mpc # "ended"
        PROVE  Owned' /\ Stopping'
    <2>1. \A w \in Quit : wpc[w] = "ended"  BY DEF IInv, TypeOK, Owned, Quit
    <2>2. \A w \in Worker : obj'[w] = IF w \in Quit THEN "deleted" ELSE obj[w]
      BY <1>2 DEF recycleThread
    <2>3. threads' = threads \ Quit  BY <1>2 DEF recycleThread
    <2>4. Owned'  BY <1>2, <2>1, <2>2, <2>3 DEF IInv, TypeOK, Owned
    <2>5. Stopping'  BY <1>2, <2>2, <2>3 DEF IInv, TypeOK, Stopping
    <2> QED  BY <2>4, <2>5
  <1>3. CASE managerRecycle  BY <1>2, <1>3 DEF managerRecycle
  <1>4. CASE managerFinal  BY <1>2, <1>4 DEF managerFinal
  <1>5. CASE createEnd \/ managerLoop \/ managerCountRunning \/ managerCountPaused \/ managerDecide
    <2>1. UNCHANGED <<running, threads, obj, flag, wpc, spc, todo>> /\ mpc # "ended"
      BY <1>5 DEF createEnd, managerLoop, managerCountRunning, managerCountPaused, managerDecide
    <2> QED  BY <2>1 DEF IInv, Owned, Stopping
  <1> QED  BY <1>1, <1>3, <1>4, <1>5 DEF ThreadManager

LEMMA ManagerKeeps ==
  ASSUME IInv, ThreadManager
  PROVE  IInv'
  <1>1. managerFrame
    BY DEF ThreadManager, createThread, createEnd, managerLoop, managerRecycle, managerFinal,
           managerCountRunning, managerCountPaused, managerDecide
  <1>2. \A w \in Worker : wpc'[w] = "run" <=> wpc[w] = "run"
    BY DEF IInv, TypeOK, ThreadManager, createThread, createEnd, managerLoop, managerRecycle,
           managerFinal, managerCountRunning, managerCountPaused, managerDecide
  <1>3. Apart' /\ Somewhere'
    BY <1>1, <1>2, PlacesUntouched DEF managerFrame, pushVars, Places, IInv, Somewhere
  <1> QED  BY <1>3, ManagerTypes, ManagerOwned DEF IInv

LEMMA StopOwned ==
  ASSUME IInv, (\E f \in BOOLEAN : stopThreadPool(f)) \/ StopStep
  PROVE  Owned' /\ Stopping'
  <1> USE DEF stopFrame, managerVars, FreeThreads
  <1>1. ASSUME NEW f \in BOOLEAN, stopThreadPool(f) PROVE Owned' /\ Stopping'
    BY <1>1 DEF stopThreadPool, IInv, Owned, Stopping
  <1>2. CASE stopClear  BY <1>2 DEF stopClear, IInv, Owned, Stopping
  <1>3. CASE stopNotify  BY <1>3 DEF stopNotify, IInv, Owned, Stopping
  <1>4. CASE stopCopy  BY <1>4 DEF stopCopy, IInv, Owned, Stopping
  <1>5. ASSUME NEW w \in Worker, stopJoin(w) PROVE Owned' /\ Stopping'
    <2>1. \A v \in Worker : v # w => obj'[v] = obj[v]  BY <1>5 DEF stopJoin, IInv, TypeOK
    <2>2. obj'[w] = "deleted" /\ wpc[w] = "ended"
      BY <1>5 DEF stopJoin, IInv, TypeOK, Owned
    <2>3. spc = "join" /\ spc' \in {"join", "crashed"} /\ todo' = todo \ {w}
          /\ UNCHANGED <<running, threads, flag, wpc, mpc>>
      BY <1>5 DEF stopJoin
    <2>4. Owned'  BY <2>1, <2>2, <2>3 DEF IInv, TypeOK, Owned
    <2>5. Stopping'  BY <2>1, <2>2, <2>3 DEF IInv, TypeOK, Stopping
    <2> QED  BY <2>4, <2>5
  <1>6. CASE stopErase
    <2>1. \A w \in threads : obj[w] = "deleted"
      BY <1>6 DEF stopErase, IInv, Stopping
    <2>2. \A w \in Worker : obj[w] # "live"  BY <2>1 DEF IInv, Owned
    <2> QED  BY <1>6, <2>2 DEF stopErase, IInv, Owned, Stopping
  <1>7. CASE stopManager  BY <1>7 DEF stopManager, IInv, Owned, Stopping
  <1> QED  BY <1>1, <1>2, <1>3, <1>4, <1>5, <1>6, <1>7 DEF StopStep

LEMMA StopKeeps ==
  ASSUME IInv, (\E f \in BOOLEAN : stopThreadPool(f)) \/ StopStep
  PROVE  IInv'
  <1>1. stopFrame
    BY DEF StopStep, stopThreadPool, stopClear, stopNotify, stopCopy, stopJoin, stopErase,
           stopManager
  <1>2. CountsFit'  BY <1>1, CountsUntouched DEF stopFrame
  <1>3. Apart' /\ Somewhere'
    <2>1. CASE stopClear  BY <1>1, <2>1, ClearPlaces DEF stopClear, stopFrame, pushVars
    <2>2. CASE UNCHANGED <<msgs, dropped>>
      <3>1. UNCHANGED Places /\ wpc' = wpc /\ ppc' = ppc
        BY <1>1, <2>2 DEF stopFrame, pushVars, Places
      <3> QED  BY <3>1, PlacesUntouched DEF IInv, Somewhere
    <2> QED
      BY <2>1, <2>2
      DEF StopStep, stopThreadPool, stopNotify, stopCopy, stopJoin, stopErase, stopManager
  <1> QED  BY <1>2, <1>3, StopTypes, StopOwned DEF IInv

-----------------------------------------------------------------------------
(* The theorems *)

LEMMA Initially == Init => IInv
  <1> SUFFICES ASSUME Init PROVE IInv  OBVIOUS
  <1> USE DEF Init
  <1>1. TypeOK
    <2>1. more \in 0 .. Max /\ 0 \in 0 .. MaxPush  BY PoolAssumption
    <2>2. seen \in 0 .. Cardinality(Worker) * 2
      BY PoolAssumption, FS_CardinalityType
    <2>3. /\ flag \in [Worker -> {-1, 0, 1}]
          /\ obj \in [Worker -> {"none", "live", "deleted"}]
          /\ condition \in [Worker -> {"none", "waiting", "notified"}]
          /\ wpc \in [Worker -> {"none", "loop", "count", "spare", "pause", "wait", "asleep",
                                 "mark", "drain", "run", "exit", "ended"}]
          /\ hand \in [Worker -> Message \cup {Nothing}]
      OBVIOUS
    <2>4. /\ ppc \in [Pusher -> {"idle", "push", "notify", "counted", "done"}]
          /\ count \in [Pusher -> 0 .. MaxPush]
          /\ handled \in [Message -> 0 .. 1]
      BY <2>1
    <2>5. msgs \in Seq(Message)  OBVIOUS
    <2> QED  BY <2>1, <2>2, <2>3, <2>4, <2>5 DEF TypeOK
  <1>2. CountsFit  BY DEF CountsFit
  <1>3. Apart  BY MessageShape DEF Apart, Queued, InHand
  <1>4. Somewhere
    <2>1. \A m \in Message : m \notin Pushed
      BY MessageShape, PoolAssumption DEF Pushed
    <2> QED  BY <2>1, MessageShape DEF Somewhere, Queued, InHand
  <1>5. Owned  BY DEF Owned
  <1>6. Stopping  BY DEF Stopping
  <1> QED  BY <1>1, <1>2, <1>3, <1>4, <1>5, <1>6 DEF IInv

LEMMA StepKeepsInv ==
  ASSUME IInv, [Next]_vars
  PROVE  IInv'
  <1>1. CASE UNCHANGED vars
    <2> USE <1>1 DEF vars, workerVars, managerVars, stopVars, pushVars
    <2>1. TypeOK'  BY DEF IInv, TypeOK
    <2>2. CountsFit' /\ Owned' /\ Stopping'
      BY CountsUntouched, ThreadsUntouched
    <2>3. Apart' /\ Somewhere'  BY PlacesUntouched DEF Places, IInv, Somewhere
    <2> QED  BY <2>1, <2>2, <2>3 DEF IInv
  <1>2. ASSUME NEW p \in Pusher,
               pushCheck(p) \/ PushStep(p) \/ waitRunning(p) \/ waitMessages(p)
        PROVE  IInv'
    BY <1>2, PushStepKeeps
  <1>3. ASSUME NEW w \in Worker, ThreadLoop(w) \/ wakeSpuriously(w) PROVE IInv'
    BY <1>3, WorkerKeeps
  <1> QED  BY <1>1, <1>2, <1>3, ClearKeeps, ManagerKeeps, StopKeeps DEF Next

LEMMA Invariance == Spec => []IInv
  BY Initially, StepKeepsInv, PTL DEF Spec

\* Every variable of ComThreadPool keeps its type: no message is handled twice, the
\* manager's count fits, and createThread is never asked for more than the maximum.
THEOREM TypeCorrect == Spec => []TypeOK
  <1>1. IInv => TypeOK  BY DEF IInv
  <1> QED  BY <1>1, Invariance, PTL

\* However many workers drain the queue, come and go: every message pushed is in one
\* place, and waitAllDone returns when its caller's messages have left the queue.
THEOREM MessagesInOnePlace == Spec => []InOnePlace
  <1>1. IInv => InOnePlace
    <2> SUFFICES ASSUME IInv PROVE InOnePlace  OBVIOUS
    <2>1. ASSUME NEW m \in Message
          PROVE  Cardinality({i \in 1 .. Len(msgs) : msgs[i] = m})
                   = IF Queued(m) THEN 1 ELSE 0
      <3>1. CASE Queued(m)
        <4>1. PICK i \in 1 .. Len(msgs) : msgs[i] = m  BY <3>1 DEF Queued
        <4>2. {j \in 1 .. Len(msgs) : msgs[j] = m} = {i}  BY <4>1 DEF IInv, Apart
        <4> QED  BY <3>1, <4>2, FS_Singleton
      <3>2. CASE ~Queued(m)
        <4>1. {j \in 1 .. Len(msgs) : msgs[j] = m} = {}  BY <3>2 DEF Queued
        <4> QED  BY <3>2, <4>1, FS_EmptySet
      <3> QED  BY <3>1, <3>2
    <2>2. ASSUME NEW m \in Message
          PROVE  Cardinality({w \in Worker : hand[w] = m}) = IF InHand(m) THEN 1 ELSE 0
      <3>1. CASE InHand(m)
        <4>1. PICK w \in Worker : hand[w] = m  BY <3>1 DEF InHand
        <4>2. {v \in Worker : hand[v] = m} = {w}  BY <4>1, MessageShape DEF IInv, Apart
        <4> QED  BY <3>1, <4>2, FS_Singleton
      <3>2. CASE ~InHand(m)
        <4>1. {v \in Worker : hand[v] = m} = {}  BY <3>2 DEF InHand
        <4> QED  BY <3>2, <4>1, FS_EmptySet
      <3> QED  BY <3>1, <3>2
    <2>3. ASSUME NEW m \in Message
          PROVE  Cardinality({i \in 1 .. Len(msgs) : msgs[i] = m})
                   + Cardinality({w \in Worker : hand[w] = m})
                   + handled[m] + (IF m \in dropped THEN 1 ELSE 0)
                 = IF m \in Pushed THEN 1 ELSE 0
      <3>1. handled[m] \in {0, 1}  BY DEF IInv, TypeOK
      <3>2. /\ Queued(m) => ~InHand(m) /\ handled[m] = 0 /\ m \notin dropped
            /\ InHand(m) => handled[m] = 0 /\ m \notin dropped
            /\ m \in dropped => handled[m] = 0
            /\ m \in Pushed <=> Queued(m) \/ InHand(m) \/ handled[m] = 1 \/ m \in dropped
        BY DEF IInv, Apart, Somewhere
      <3> QED  BY <2>1, <2>2, <3>1, <3>2
    <2>4. ASSUME NEW p \in Waiter, NEW k \in 1 .. MaxPush, ppc[p] = "done"
          PROVE  <<p, k>> \notin Elements(msgs)
      <3>1. p \in Pusher /\ <<p, k>> \in Message  BY PoolAssumption DEF Message
      <3> QED  BY <2>4, <3>1, ElementsType DEF IInv, Somewhere
    <2> QED  BY <2>3, <2>4 DEF InOnePlace
  <1> QED  BY <1>1, Invariance, PTL

\* The entries of threads refer to threads that exist until stopThreadPool deletes
\* them, and when it returns every thread has ended and been deleted, whatever the
\* manager was about to create or had deleted itself.
THEOREM NoThreadIsLeft == Spec => []ThreadsAreOwned
  <1>1. IInv => ThreadsAreOwned
    <2> SUFFICES ASSUME IInv PROVE ThreadsAreOwned  OBVIOUS
    <2>1. ASSUME spc = "stopped", NEW w \in Worker
          PROVE  wpc[w] \in {"none", "ended"} /\ obj[w] # "live"
      BY <2>1 DEF IInv, TypeOK, Owned, Stopping
    <2> QED  BY <2>1 DEF IInv, Owned, Stopping, ThreadsAreOwned
  <1> QED  BY <1>1, Invariance, PTL
=============================================================================
