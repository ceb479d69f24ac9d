------------------------- MODULE TaskManager_proofs -------------------------
(***************************************************************************)
(* TaskManager for all sets of tasks, callers and message ids: types, the  *)
(* order of the messages, and the end of a destroyed task.                 *)
(*                                                                         *)
(* Both arguments rest on mutex_tasks.  destroyTask keeps it from its      *)
(* first look at the map to its last, so a task that runs no more is the   *)
(* one that is being joined (LivesWhileNamed), and nobody pushes to it.    *)
(***************************************************************************)
EXTENDS TaskManager, SequenceTheorems, TLAPS

\* mutex_tasks is held exactly during destroyTask, and what destroyTask keeps is
\* only there while it runs.
HolderDestroys ==
  /\ \A c \in Caller : cpc[c] \in {"destroying", "joining"} <=> mutex_tasks = c
  /\ mutex_tasks = Nobody => doomed = {}
  /\ \A t, u \in victim : t = u

\* Tasks in the map have a thread, they run until destroyTask picks them; a task
\* that is not in the map has nothing of an earlier one of its name.
LivesWhileNamed ==
  \A t \in Task :
    /\ running[t] <=> t \in tasks /\ t \notin victim
    /\ pc[t] = "none" <=> t \notin tasks
    /\ t \notin tasks => msgs[t] = <<>> /\ handled[t] = <<>> /\ pushed[t] = <<>>
    /\ pc[t] = "handle" => current[t] \in Message

\* NoneMissing position by position, for a queue q of a task that has handled h, has c
\* in hand and was pushed p; unless it was emptied (r) nothing is missing.
Ordered(r, h, c, q, p) ==
  /\ Len(h) + Len(c) + Len(q) <= Len(p)
  /\ r => Len(h) + Len(c) + Len(q) = Len(p)
  /\ \A i \in 1 .. Len(h) : h[i] = p[i]
  /\ \A i \in 1 .. Len(c) : c[i] = p[Len(h) + i]
  /\ \A i \in 1 .. Len(q) : q[i].no = p[Len(h) + Len(c) + i]

Whole(t) == ~Emptied(t)
InOrder(t) == Ordered(Whole(t), handled[t], InFlight(t), msgs[t], pushed[t])

\* A thread leaves its loop only when it is stopped, and one that was stopped at work on
\* the queue is still at it or has emptied it.
Stopping ==
  \A t \in Task :
    /\ pc[t] \in {"stop", "ended"} => t \in victim
    /\ t \in victim /\ stopped_at \in {"drain", "handle"}
         => pc[t] \in {"drain", "handle"} \/ msgs[t] = <<>>

\* A forced stop has emptied the queue by the time it joins.
ForcedIsEmpty ==
  \A c \in Caller : cpc[c] = "joining" /\ force => \A t \in victim : msgs[t] = <<>>

IInv ==
  /\ TypeOK
  /\ HolderDestroys
  /\ LivesWhileNamed
  /\ \A t \in Task : InOrder(t)
  /\ ForcedIsEmpty
  /\ Stopping

-----------------------------------------------------------------------------
(* Sending *)

\* Nobody holds mutex_tasks: every task of the map is running.
LEMMA FreeMeansRunning ==
  ASSUME IInv, mutex_tasks = Nobody
  PROVE  \A t \in Task : running[t] <=> t \in tasks
  BY DEF IInv, HolderDestroys, LivesWhileNamed, TypeOK

\* A task that runs has lost nothing, nor has any while nobody is in destroyTask.
LEMMA RunningIsWhole ==
  ASSUME IInv
  PROVE  /\ \A t \in Task : running[t] => Whole(t) /\ t \notin victim
         /\ mutex_tasks = Nobody => \A t \in Task : Whole(t) /\ t \notin victim
  BY DEF IInv, HolderDestroys, LivesWhileNamed, TypeOK, Whole, Emptied

\* Nobody begins or ends a forced stop.
LEMMA WholeKept ==
  ASSUME UNCHANGED <<force, victim>>,
         \A c \in Caller : cpc'[c] = "joining" <=> cpc[c] = "joining"
  PROVE  \A t : Whole(t)' = Whole(t)
  BY DEF Whole, Emptied

\* What a message does to a queue and to the history of it.
LEMMA PushExtends ==
  ASSUME IInv, NEW S \in SUBSET tasks, NEW m \in Message, mutex_tasks = Nobody,
         pushTaskMessage(S, m)
  PROVE  /\ msgs' \in [Task -> Seq(Message)]
         /\ pushed' \in [Task -> Seq(Number)]
         /\ condition' \in [Task -> {"none", "waiting", "notified"}]
         /\ \A t \in Task :
              \/ msgs'[t] = msgs[t] /\ pushed'[t] = pushed[t]
              \/ /\ running[t] /\ t \in tasks
                 /\ msgs'[t] = Append(msgs[t], m)
                 /\ pushed'[t] = Append(pushed[t], m.no)
  <1>1. tasks \subseteq Task /\ m.no \in Number  BY DEF IInv, TypeOK, Message
  <1>2. msgs \in [Task -> Seq(Message)] /\ pushed \in [Task -> Seq(Number)]
        /\ condition \in [Task -> {"none", "waiting", "notified"}]
    BY DEF IInv, TypeOK
  <1>3. condition' \in [Task -> {"none", "waiting", "notified"}]
    BY <1>2 DEF pushTaskMessage, notifyOne
  <1>4. /\ msgs' \in [Task -> Seq(Message)]
        /\ pushed' \in [Task -> Seq(Number)]
    BY <1>1, <1>2 DEF pushTaskMessage
  <1> QED  BY <1>1, <1>2, <1>3, <1>4, FreeMeansRunning DEF pushTaskMessage

-----------------------------------------------------------------------------
(* What the steps of a task do to the order *)

\* A message pushed to a running task is the last of its queue.
LEMMA OrderedPush ==
  ASSUME NEW h \in Seq(Number), NEW c \in Seq(Number), NEW q \in Seq(Message),
         NEW p \in Seq(Number), NEW m \in Message, Ordered(TRUE, h, c, q, p)
  PROVE  Ordered(TRUE, h, c, Append(q, m), Append(p, m.no))
  <1>1. m.no \in Number  BY DEF Message
  <1> DEFINE a == Append(q, m)
  <1> DEFINE b == Append(p, m.no)
  <1>2. /\ Len(a) = Len(q) + 1 /\ Len(b) = Len(p) + 1
        /\ \A i \in 1 .. Len(q) : a[i] = q[i]
        /\ a[Len(q) + 1] = m
        /\ \A i \in 1 .. Len(p) : b[i] = p[i]
        /\ b[Len(p) + 1] = m.no
    BY <1>1
  <1>3. Len(h) \in Nat /\ Len(c) \in Nat /\ Len(q) \in Nat /\ Len(p) \in Nat
    OBVIOUS
  <1> HIDE DEF a, b
  <1>4. Len(h) + Len(c) + Len(q) = Len(p)  BY DEF Ordered
  <1>5. \A i \in 1 .. Len(a) : a[i].no = b[Len(h) + Len(c) + i]
    <2> TAKE i \in 1 .. Len(a)
    <2>1. CASE i \in 1 .. Len(q)
      <3>1. Len(h) + Len(c) + i \in 1 .. Len(p)  BY <1>3, <1>4, <2>1
      <3> QED  BY <1>2, <2>1, <3>1 DEF Ordered
    <2>2. CASE i = Len(q) + 1
      <3>1. Len(h) + Len(c) + i = Len(p) + 1
        <4>1. PICK x, y, z, w \in Nat :
                x = Len(h) /\ y = Len(c) /\ z = Len(q) /\ w = Len(p)
          BY <1>3, Zenon
        <4>2. x + y + z = w  BY <1>4, <4>1, Zenon
        <4>3. x + y + (z + 1) = w + 1  BY <4>2
        <4> QED  BY <2>2, <4>1, <4>3, Zenon
      <3> QED  BY <1>2, <2>2, <3>1
    <2> QED  BY <1>2, <1>3, <2>1, <2>2
  <1>6. \A i \in 1 .. Len(h) : i \in 1 .. Len(p) /\ h[i] = b[i]
    BY <1>2, <1>3, <1>4 DEF Ordered
  <1>7. \A i \in 1 .. Len(c) : Len(h) + i \in 1 .. Len(p) /\ c[i] = b[Len(h) + i]
    BY <1>2, <1>3, <1>4 DEF Ordered
  <1>8. Len(h) + Len(c) + Len(a) = Len(b)
    <2>1. Len(a) = Len(q) + 1 /\ Len(b) = Len(p) + 1  BY <1>2
    <2>2. PICK x, y, z, w \in Nat : x = Len(h) /\ y = Len(c) /\ z = Len(q) /\ w = Len(p)
      BY <1>3, Zenon
    <2>3. x + y + z = w  BY <1>4, <2>2, Zenon
    <2>4. x + y + (z + 1) = w + 1  BY <2>3
    <2> QED  BY <2>1, <2>2, <2>4, Zenon
  <1>9. Ordered(TRUE, h, c, a, b)  BY <1>2, <1>3, <1>5, <1>6, <1>7, <1>8 DEF Ordered
  <1> QED  BY <1>9 DEF a, b

\* Popping moves the first message of the queue into the hand.
LEMMA OrderedPop ==
  ASSUME NEW r \in BOOLEAN, NEW h \in Seq(Number), NEW q \in Seq(Message),
         NEW p \in Seq(Number), q # <<>>, Ordered(r, h, <<>>, q, p)
  PROVE  Ordered(r, h, <<Head(q).no>>, Tail(q), p)
  <1> DEFINE c == <<Head(q).no>>
  <1> DEFINE a == Tail(q)
  <1>1. /\ Len(a) = Len(q) - 1 /\ Len(c) = 1 /\ c[1] = q[1].no
        /\ \A i \in 1 .. Len(a) : a[i] = q[i + 1]
    OBVIOUS
  <1>2. Len(h) \in Nat /\ Len(q) \in Nat /\ Len(p) \in Nat /\ Len(q) > 0
    OBVIOUS
  <1> HIDE DEF a, c
  <1>3. /\ Len(h) + Len(q) <= Len(p) /\ (r => Len(h) + Len(q) = Len(p))
        /\ \A i \in 1 .. Len(q) : q[i].no = p[Len(h) + i]
    BY <1>2, EmptySeq DEF Ordered
  <1>4. \A i \in 1 .. Len(a) : a[i].no = p[Len(h) + Len(c) + i]
    <2> TAKE i \in 1 .. Len(a)
    <2>1. i + 1 \in 1 .. Len(q) /\ Len(h) + Len(c) + i = Len(h) + (i + 1)  BY <1>1, <1>2
    <2> QED  BY <1>1, <1>3, <2>1
  <1>5. \A i \in 1 .. Len(c) : c[i] = p[Len(h) + i]
    <2>1. 1 \in 1 .. Len(q)  BY <1>2
    <2> QED  BY <1>1, <1>3, <2>1
  <1>6. \A i \in 1 .. Len(h) : h[i] = p[i]  BY DEF Ordered
  <1>7. Len(h) + Len(c) + Len(a) = Len(h) + Len(q)  BY <1>1, <1>2
  <1>8. Ordered(r, h, c, a, p)  BY <1>3, <1>4, <1>5, <1>6, <1>7 DEF Ordered
  <1> QED  BY <1>8 DEF a, c

\* What was in hand is the last handled.
LEMMA OrderedFinish ==
  ASSUME NEW r \in BOOLEAN, NEW h \in Seq(Number), NEW n \in Number,
         NEW q \in Seq(Message), NEW p \in Seq(Number), Ordered(r, h, <<n>>, q, p)
  PROVE  Ordered(r, Append(h, n), <<>>, q, p)
  <1> DEFINE a == Append(h, n)
  <1>1. /\ Len(a) = Len(h) + 1 /\ a[Len(h) + 1] = n
        /\ \A i \in 1 .. Len(h) : a[i] = h[i]
    OBVIOUS
  <1>2. Len(h) \in Nat /\ Len(q) \in Nat /\ Len(p) \in Nat
    OBVIOUS
  <1> DEFINE c == <<n>>
  <1>3. Len(c) = 1 /\ c[1] = n /\ Ordered(r, h, c, q, p)  OBVIOUS
  <1> HIDE DEF a, c
  <1>4. p[Len(h) + 1] = n  BY <1>3 DEF Ordered
  <1>5. \A i \in 1 .. Len(a) : a[i] = p[i]
    <2> TAKE i \in 1 .. Len(a)
    <2>1. i \in 1 .. Len(h) \/ i = Len(h) + 1  BY <1>1, <1>2
    <2>2. \A j \in 1 .. Len(h) : h[j] = p[j]  BY <1>3 DEF Ordered
    <2> QED  BY <1>1, <1>4, <2>1, <2>2
  <1>6. \A i \in 1 .. Len(q) : q[i].no = p[Len(a) + 0 + i]
    BY <1>1, <1>2, <1>3 DEF Ordered
  <1>7. Len(a) + 0 + Len(q) = Len(h) + Len(c) + Len(q)  BY <1>1, <1>2, <1>3
  <1>8. Ordered(r, a, <<>>, q, p)  BY <1>3, <1>5, <1>6, <1>7 DEF Ordered
  <1> QED  BY <1>8 DEF a

\* A task that is stopped keeps its queue or loses it.
LEMMA OrderedStop ==
  ASSUME NEW r \in BOOLEAN, NEW h \in Seq(Number), NEW c \in Seq(Number),
         NEW q \in Seq(Message), NEW p \in Seq(Number), Ordered(r, h, c, q, p)
  PROVE  Ordered(FALSE, h, c, q, p) /\ Ordered(FALSE, h, c, <<>>, p)
  BY DEF Ordered

\* What a task has got so far, in order.
Seen(h, c, q) == h \o c \o [i \in 1 .. Len(q) |-> q[i].no]

LEMMA ArrayIsSeq ==
  ASSUME NEW D, NEW n \in Nat, NEW s \in [1 .. n -> D]
  PROVE  s \in Seq(D) /\ Len(s) = n
  OBVIOUS

\* Position by position is in order.
LEMMA OrderedIsInOrder ==
  ASSUME NEW r \in BOOLEAN, NEW h \in Seq(Number), NEW c \in Seq(Number),
         NEW q \in Seq(Message), NEW p \in Seq(Number), Ordered(r, h, c, q, p)
  PROVE  /\ Seen(h, c, q) = SubSeq(p, 1, Len(Seen(h, c, q)))
         /\ r => Seen(h, c, q) = p
  <1> DEFINE e == [i \in 1 .. Len(q) |-> q[i].no]
  <1>1. e \in Seq(Number) /\ Len(e) = Len(q)
    <2>1. \A i \in 1 .. Len(q) : q[i] \in Message  OBVIOUS
    <2>2. \A i \in 1 .. Len(q) : q[i].no \in Number  BY <2>1 DEF Message
    <2>3. e \in [1 .. Len(q) -> Number]  BY <2>2
    <2>4. Len(q) \in Nat  OBVIOUS
    <2> HIDE DEF e
    <2> QED  BY <2>3, <2>4, ArrayIsSeq, Zenon
  <1>2. h \o c \in Seq(Number) /\ Len(h \o c) = Len(h) + Len(c)
        /\ \A i \in 1 .. Len(h) + Len(c) :
             (h \o c)[i] = IF i <= Len(h) THEN h[i] ELSE c[i - Len(h)]
    BY ConcatProperties
  <1> DEFINE d == h \o c
  <1> HIDE DEF d, e
  <1>3. d \o e \in Seq(Number) /\ Len(d \o e) = Len(d) + Len(e)
        /\ \A i \in 1 .. Len(d) + Len(e) :
             (d \o e)[i] = IF i <= Len(d) THEN d[i] ELSE e[i - Len(d)]
    <2>1. d \in Seq(Number)  BY <1>2 DEF d
    <2> QED  BY <1>1, <2>1, ConcatProperties
  <1>4. \A i \in 1 .. Len(d) : d[i] = p[i]
    <2> TAKE i \in 1 .. Len(d)
    <2>1. CASE i <= Len(h)  BY <1>2, <2>1 DEF Ordered, d
    <2>2. CASE i > Len(h)
      <3>1. i - Len(h) \in 1 .. Len(c) /\ Len(h) + (i - Len(h)) = i  BY <1>2, <2>2 DEF d
      <3>2. d[i] = c[i - Len(h)]  BY <1>2, <2>2 DEF d
      <3> QED  BY <3>1, <3>2 DEF Ordered
    <2> QED  BY <1>2, <2>1, <2>2 DEF d
  <1>5. \A i \in 1 .. Len(e) : e[i] = p[Len(d) + i]
    BY <1>1, <1>2 DEF Ordered, d, e
  <1> DEFINE s == d \o e
  <1>6. s \in Seq(Number) /\ Len(s) <= Len(p) /\ (r => Len(s) = Len(p))
    BY <1>1, <1>2, <1>3 DEF Ordered, d
  <1>7. \A i \in 1 .. Len(s) : s[i] = p[i]
    <2> TAKE i \in 1 .. Len(s)
    <2>1. CASE i <= Len(d)  BY <1>2, <1>3, <1>4, <2>1 DEF d
    <2>2. CASE i > Len(d)
      <3>1. i - Len(d) \in 1 .. Len(e) /\ Len(d) + (i - Len(d)) = i
        BY <1>1, <1>2, <1>3, <2>2 DEF d
      <3> QED  BY <1>2, <1>3, <1>5, <2>2, <3>1 DEF d
    <2> QED  BY <1>2, <1>3, <2>1, <2>2 DEF d
  <1> HIDE DEF s
  <1>8. s = SubSeq(p, 1, Len(s))
    <2>1. \A i \in 1 .. Len(s) : p[i] \in Number  BY <1>6
    <2>2. /\ SubSeq(p, 1, Len(s)) \in Seq(Number) /\ Len(SubSeq(p, 1, Len(s))) = Len(s)
          /\ \A i \in 1 .. Len(s) : SubSeq(p, 1, Len(s))[i] = p[i]
      BY <1>6, <2>1, SubSeqProperties
    <2> QED  BY <1>6, <1>7, <2>2, SeqEqual
  <1>9. r => s = p  BY <1>6, <1>7, SeqEqual
  <1> QED  BY <1>8, <1>9 DEF Seen, s, d, e

LEMMA InFlightType ==
  ASSUME IInv, NEW t \in Task
  PROVE  /\ InFlight(t) \in Seq(Number)
         /\ msgs[t] \in Seq(Message) /\ handled[t] \in Seq(Number)
         /\ pushed[t] \in Seq(Number) /\ Whole(t) \in BOOLEAN
  <1>1. pc[t] = "handle" => current[t].no \in Number
    BY DEF IInv, LivesWhileNamed, Message
  <1> QED  BY <1>1 DEF IInv, TypeOK, InFlight, Whole

LEMMA OrderUntouched ==
  ASSUME NEW t \in Task, InOrder(t), Whole(t)' = Whole(t), msgs'[t] = msgs[t],
         handled'[t] = handled[t], pushed'[t] = pushed[t], InFlight(t)' = InFlight(t)
  PROVE  InOrder(t)'
  BY DEF InOrder

-----------------------------------------------------------------------------
(* One lemma for each kind of step *)

\* What no step but destroyTask's changes.
LEMMA DestroyUntouched ==
  ASSUME IInv, UNCHANGED <<destroyVars, cpc>>
  PROVE  HolderDestroys'
  BY DEF IInv, HolderDestroys, destroyVars

\* A message that is queued to the running tasks of S, by a caller.
LEMMA SendKeeps ==
  ASSUME IInv, NEW S \in SUBSET tasks, NEW m \in Message, mutex_tasks = Nobody,
         pushTaskMessage(S, m), sent < MaxSent, sent' = sent + 1,
         UNCHANGED <<tasks, destroyVars, running, listeners, pc, current, handled, created>>
  PROVE  /\ sent' \in 0 .. MaxSent /\ msgs' \in [Task -> Seq(Message)]
         /\ pushed' \in [Task -> Seq(Number)]
         /\ condition' \in [Task -> {"none", "waiting", "notified"}]
         /\ LivesWhileNamed' /\ (\A t \in Task : InOrder(t)') /\ Stopping'
  <1>0. \A t \in Task : Whole(t)' = Whole(t) /\ Whole(t) = TRUE /\ t \notin victim
    BY RunningIsWhole DEF destroyVars, Whole, Emptied
  <1>1. sent' \in 0 .. MaxSent  BY TaskAssumption DEF IInv, TypeOK
  <1>2. LivesWhileNamed'
    BY PushExtends DEF IInv, LivesWhileNamed, destroyVars
  <1>3. ASSUME NEW t \in Task PROVE InOrder(t)'
    <2>1. InOrder(t) /\ InFlight(t)' = InFlight(t)  BY DEF IInv, InFlight
    <2>2. CASE msgs'[t] = msgs[t] /\ pushed'[t] = pushed[t]
      BY <1>0, <2>1, <2>2, OrderUntouched
    <2>3. CASE /\ running[t]
               /\ msgs'[t] = Append(msgs[t], m) /\ pushed'[t] = Append(pushed[t], m.no)
      <3>1. Ordered(TRUE, handled[t], InFlight(t), msgs'[t], pushed'[t])
        BY <1>0, <2>1, <2>3, InFlightType, OrderedPush DEF InOrder
      <3> QED  BY <1>0, <2>1, <2>3, <3>1 DEF InOrder
    <2> QED  BY <2>2, <2>3, PushExtends
  <1>4. Stopping'  BY <1>0 DEF IInv, Stopping, destroyVars
  <1> QED  BY <1>1, <1>2, <1>3, <1>4, PushExtends

LEMMA NextMessageType ==
  ASSUME IInv, sent < MaxSent, NEW id \in MsgId, NEW n \in BOOLEAN
  PROVE  NextMessage(id, n) \in Message /\ sent + 1 \in Number
  <1>1. sent + 1 \in Number  BY TaskAssumption DEF IInv, TypeOK, Number
  <1> QED  BY <1>1 DEF NextMessage, Message

LEMMA SendStep ==
  ASSUME IInv, NEW c \in Caller, NEW S \in Pattern, NEW id \in MsgId,
         callSendMessage(c, S, id)
  PROVE  IInv'
  <1> USE DEF callSendMessage, sendMessage
  <1>1. NextMessage(id, FALSE) \in Message  BY NextMessageType
  <1>2. /\ sent' \in 0 .. MaxSent /\ msgs' \in [Task -> Seq(Message)]
        /\ pushed' \in [Task -> Seq(Number)]
        /\ condition' \in [Task -> {"none", "waiting", "notified"}]
        /\ LivesWhileNamed' /\ (\A t \in Task : InOrder(t)') /\ Stopping'
    BY <1>1, SendKeeps
  <1>3. TypeOK'  BY <1>2 DEF IInv, TypeOK, destroyVars, syncVars
  <1>4. ForcedIsEmpty'
    BY TaskAssumption DEF IInv, HolderDestroys, ForcedIsEmpty, destroyVars
  <1> QED  BY <1>2, <1>3, <1>4, DestroyUntouched DEF IInv

LEMMA SendAndWaitStep ==
  ASSUME IInv, NEW c \in Caller, NEW t \in Task, NEW id \in MsgId,
         sendMessageAndWait(c, t, id)
  PROVE  IInv'
  <1> USE DEF sendMessageAndWait
  <1>1. NextMessage(id, TRUE) \in Message /\ sent + 1 \in Number  BY NextMessageType
  <1>2. /\ sent' \in 0 .. MaxSent /\ msgs' \in [Task -> Seq(Message)]
        /\ pushed' \in [Task -> Seq(Number)]
        /\ condition' \in [Task -> {"none", "waiting", "notified"}]
        /\ LivesWhileNamed' /\ (\A u \in Task : InOrder(u)') /\ Stopping'
    BY <1>1, SendKeeps
  <1>3. TypeOK'  BY <1>1, <1>2 DEF IInv, TypeOK, destroyVars, CGoto
  <1>4. HolderDestroys'  BY TaskAssumption DEF IInv, TypeOK, HolderDestroys, destroyVars, CGoto
  <1>5. ForcedIsEmpty'
    BY TaskAssumption DEF IInv, TypeOK, HolderDestroys, ForcedIsEmpty, destroyVars, CGoto
  <1> QED  BY <1>2, <1>3, <1>4, <1>5 DEF IInv

LEMMA WaitStep ==
  ASSUME IInv, NEW c \in Caller, syncWait(c)
  PROVE  IInv'
  <1> USE DEF syncWait, taskVars
  <1>1. TypeOK'
    BY DEF IInv, TypeOK, CGoto, destroyVars, Sync!Return, Sync!Close
  <1>2. HolderDestroys'  BY DEF IInv, TypeOK, HolderDestroys, destroyVars, CGoto
  <1>3. LivesWhileNamed'  BY DEF IInv, LivesWhileNamed, destroyVars
  <1>4. \A t \in Task : InOrder(t)'
    <2>1. \A t : Whole(t)' = Whole(t)
      BY WholeKept DEF IInv, TypeOK, destroyVars, CGoto
    <2> QED  BY <2>1 DEF IInv, InOrder, InFlight
  <1>5. ForcedIsEmpty'  BY DEF IInv, TypeOK, ForcedIsEmpty, destroyVars, CGoto
  <1>6. Stopping'  BY DEF IInv, Stopping, destroyVars
  <1> QED  BY <1>1, <1>2, <1>3, <1>4, <1>5, <1>6 DEF IInv

LEMMA CreateStep ==
  ASSUME IInv, NEW c \in Caller, NEW t \in Task, createTask(c, t)
  PROVE  IInv'
  <1> USE DEF createTask, Goto, destroyVars
  <1>1. TypeOK'  BY TaskAssumption DEF IInv, TypeOK, syncVars
  <1>2. t \notin victim /\ pc[t] = "none"  BY DEF IInv, TypeOK, LivesWhileNamed
  <1>3. LivesWhileNamed'
    <2>1. ASSUME NEW u \in Task, u # t
          PROVE  running'[u] = running[u] /\ pc'[u] = pc[u] /\ (u \in tasks' <=> u \in tasks)
      BY <2>1 DEF IInv, TypeOK
    <2>2. running'[t] /\ pc'[t] = "start" /\ t \in tasks'  BY DEF IInv, TypeOK
    <2> QED  BY <1>2, <2>1, <2>2 DEF IInv, LivesWhileNamed
  <1>4. \A u \in Task : InOrder(u)'
    <2> TAKE u \in Task
    <2>0. Whole(u)' = Whole(u)  BY WholeKept
    <2>1. CASE u # t
      BY <2>0, <2>1, OrderUntouched DEF IInv, TypeOK, InFlight
    <2>2. CASE u = t
      <3>1. msgs'[t] = <<>> /\ handled'[t] = <<>> /\ pushed'[t] = <<>> /\ pc'[t] = "start"
        BY DEF IInv, TypeOK, LivesWhileNamed
      <3> QED  BY <2>2, <3>1 DEF InOrder, Ordered, InFlight
    <2> QED  BY <2>1, <2>2
  <1>5. ForcedIsEmpty'  BY DEF IInv, ForcedIsEmpty
  <1>6. Stopping'  BY <1>2 DEF IInv, TypeOK, Stopping
  <1> QED  BY <1>1, <1>3, <1>4, <1>5, <1>6, DestroyUntouched DEF IInv

LEMMA ListenerStep ==
  ASSUME IInv, NEW t \in Task, NEW id \in Listened, addListener(t, id) \/ removeListener(t, id)
  PROVE  IInv'
  <1> USE DEF addListener, removeListener, destroyVars
  <1>0. listeners' \in [Task -> SUBSET MsgId]
    <2>1. id \in MsgId  BY TaskAssumption
    <2>2. CASE addListener(t, id)  BY <2>1, <2>2 DEF IInv, TypeOK
    <2>3. CASE removeListener(t, id)  BY <2>1, <2>3 DEF IInv, TypeOK
    <2> QED  BY <2>2, <2>3
  <1>1. TypeOK'  BY <1>0 DEF IInv, TypeOK, syncVars
  <1>2. LivesWhileNamed'  BY DEF IInv, LivesWhileNamed
  <1>3. \A u \in Task : InOrder(u)'
    <2>1. \A u : Whole(u)' = Whole(u)  BY WholeKept
    <2> QED  BY <2>1 DEF IInv, InOrder, InFlight
  <1>4. ForcedIsEmpty'  BY DEF IInv, ForcedIsEmpty
  <1>5. Stopping'  BY DEF IInv, Stopping
  <1> QED  BY <1>1, <1>2, <1>3, <1>4, <1>5, DestroyUntouched DEF IInv

-----------------------------------------------------------------------------
(* destroyTask *)

LEMMA DestroyBeginStep ==
  ASSUME IInv, NEW c \in Caller, NEW S \in Pattern, NEW f \in BOOLEAN, destroyTask(c, S, f)
  PROVE  IInv'
  <1> USE DEF destroyTask, CGoto, taskVars
  <1>0. victim = {} /\ doomed' \subseteq tasks  BY DEF IInv, TypeOK, HolderDestroys
  <1>1. TypeOK'
    <2>1. cpc' \in [Caller -> {"idle", "asked", "destroying", "joining"}]
      BY DEF IInv, TypeOK
    <2> QED  BY <1>0, <2>1 DEF IInv, TypeOK, syncVars
  <1>2. HolderDestroys'
    <2>1. \A d \in Caller : cpc[d] \notin {"destroying", "joining"}
      BY TaskAssumption DEF IInv, HolderDestroys
    <2>2. \A d \in Caller : cpc'[d] \in {"destroying", "joining"} <=> mutex_tasks' = d
      BY <2>1 DEF IInv, TypeOK
    <2> QED  BY <2>2, TaskAssumption DEF IInv, HolderDestroys
  <1>3. LivesWhileNamed'  BY DEF IInv, LivesWhileNamed
  <1>4. \A t \in Task : InOrder(t)'
    <2>1. \A t : Whole(t)' = Whole(t)  BY <1>0 DEF Whole, Emptied
    <2> QED  BY <2>1 DEF IInv, InOrder, InFlight
  <1>5. ForcedIsEmpty'  BY TaskAssumption DEF IInv, TypeOK, HolderDestroys, ForcedIsEmpty
  <1>6. Stopping'  BY <1>0 DEF IInv, Stopping
  <1> QED  BY <1>1, <1>2, <1>3, <1>4, <1>5, <1>6 DEF IInv

\* The task that is stopped is the only one that no longer runs.
LEMMA StopStep ==
  ASSUME IInv, NEW c \in Caller, NEW t \in Task, stopTask(c, t)
  PROVE  IInv'
  <1> USE DEF stopTask
  <1>1. TypeOK'  BY DEF IInv, TypeOK, syncVars
  <1>2. HolderDestroys'  BY TaskAssumption DEF IInv, HolderDestroys
  <1>3. LivesWhileNamed'
    <2>1. ~running'[t] /\ t \in victim'  BY DEF IInv, TypeOK
    <2>2. ASSUME NEW u \in Task, u # t
          PROVE  running'[u] = running[u] /\ (u \in victim' <=> u \in victim)
      BY <2>2 DEF IInv, TypeOK
    <2> QED  BY <2>1, <2>2 DEF IInv, LivesWhileNamed
  <1>4. \A u \in Task : InOrder(u)'
    <2>1. \A d \in Caller : cpc[d] # "joining"  BY TaskAssumption DEF IInv, HolderDestroys
    <2>2. \A u : Whole(u)' = Whole(u)  BY <2>1 DEF Whole, Emptied
    <2> QED  BY <2>2 DEF IInv, InOrder, InFlight
  <1>5. ForcedIsEmpty'  BY TaskAssumption DEF IInv, HolderDestroys, ForcedIsEmpty
  <1>6. Stopping'
    <2>1. pc' = pc /\ msgs' = msgs /\ stopped_at' = pc[t] /\ victim = {} /\ victim' = {t}
      OBVIOUS
    <2> QED  BY <2>1 DEF IInv, Stopping
  <1> QED  BY <1>1, <1>2, <1>3, <1>4, <1>5, <1>6 DEF IInv

LEMMA StopNotifyStep ==
  ASSUME IInv, NEW c \in Caller, NEW t \in Task, stopTaskNotify(c, t)
  PROVE  IInv'
  <1> USE DEF stopTaskNotify, CGoto, destroyVars
  <1>0. t \in tasks /\ ~running[t]  BY DEF IInv, TypeOK, LivesWhileNamed
  <1>1. TypeOK'  BY DEF IInv, TypeOK, syncVars, notifyOne
  <1>2. HolderDestroys'  BY DEF IInv, TypeOK, HolderDestroys
  <1>3. LivesWhileNamed'  BY <1>0 DEF IInv, TypeOK, LivesWhileNamed
  <1>4. \A u \in Task : InOrder(u)'
    <2> TAKE u \in Task
    <2>1. InOrder(u) /\ InFlight(u)' = InFlight(u)  BY DEF IInv, InFlight
    <2>2. Whole(u) /\ cpc'[c] = "joining" /\ victim' = {t} /\ force' = force
      <3>1. \A d \in Caller : cpc[d] # "joining"  BY TaskAssumption DEF IInv, HolderDestroys
      <3> QED  BY <3>1 DEF IInv, TypeOK, Whole, Emptied
    <2>3. CASE u # t \/ ~force
      <3>1. Whole(u)' /\ msgs'[u] = msgs[u]  BY <2>2, <2>3 DEF IInv, TypeOK, Whole, Emptied
      <3> QED  BY <2>1, <2>2, <3>1, OrderUntouched
    <2>4. CASE u = t /\ force
      <3>1. Whole(t)' = FALSE /\ msgs'[t] = <<>>  BY <2>2, <2>4 DEF IInv, TypeOK, Whole, Emptied
      <3>2. Ordered(FALSE, handled[t], InFlight(t), <<>>, pushed[t])
        BY <2>1, <2>4, InFlightType, OrderedStop DEF InOrder
      <3> QED  BY <2>1, <2>4, <3>1, <3>2 DEF InOrder
    <2> QED  BY <2>3, <2>4
  <1>5. ForcedIsEmpty'
    <2>1. ASSUME NEW d \in Caller, cpc'[d] = "joining" PROVE d = c
      BY <2>1 DEF IInv, TypeOK, HolderDestroys
    <2> QED  BY <2>1 DEF IInv, TypeOK, ForcedIsEmpty
  <1>6. Stopping'
    <2>1. \A u \in Task : msgs'[u] = msgs[u] \/ msgs'[u] = <<>>  BY DEF IInv, TypeOK
    <2> QED  BY <2>1 DEF IInv, Stopping
  <1> QED  BY <1>1, <1>2, <1>3, <1>4, <1>5, <1>6 DEF IInv

LEMMA JoinStep ==
  ASSUME IInv, NEW c \in Caller, NEW t \in Task, joinTask(c, t)
  PROVE  IInv'
  <1> USE DEF joinTask, CGoto, Goto
  <1>1. TypeOK'  BY DEF IInv, TypeOK, syncVars
  <1>2. HolderDestroys'
    <2>1. \A d \in Caller : cpc'[d] \in {"destroying", "joining"}
                            <=> cpc[d] \in {"destroying", "joining"}
      BY DEF IInv, TypeOK
    <2>2. mutex_tasks # Nobody  BY TaskAssumption DEF IInv, HolderDestroys
    <2> QED  BY <2>1, <2>2 DEF IInv, HolderDestroys
  <1>3. LivesWhileNamed'
    <2>1. ASSUME NEW u \in Task, u # t
          PROVE  /\ running'[u] = running[u] /\ pc'[u] = pc[u] /\ current'[u] = current[u]
                 /\ msgs'[u] = msgs[u] /\ handled'[u] = handled[u] /\ pushed'[u] = pushed[u]
                 /\ (u \in tasks' <=> u \in tasks) /\ u \notin victim /\ u \notin victim'
      BY <2>1 DEF IInv, TypeOK
    <2>2. /\ ~running'[t] /\ pc'[t] = "none" /\ t \notin tasks'
          /\ msgs'[t] = <<>> /\ handled'[t] = <<>> /\ pushed'[t] = <<>>
      BY DEF IInv, TypeOK, LivesWhileNamed
    <2> QED  BY <2>1, <2>2 DEF IInv, LivesWhileNamed
  <1>4. \A u \in Task : InOrder(u)'
    <2> TAKE u \in Task
    <2>0. Whole(u)' /\ (u # t => Whole(u))  BY DEF Whole, Emptied
    <2>1. CASE u # t
      BY <2>0, <2>1, OrderUntouched DEF IInv, TypeOK, InFlight
    <2>2. CASE u = t
      <3>1. msgs'[t] = <<>> /\ handled'[t] = <<>> /\ pushed'[t] = <<>> /\ pc'[t] = "none"
        BY DEF IInv, TypeOK
      <3>2. InFlight(t)' = <<>>  BY <3>1 DEF InFlight
      <3>3. Ordered(TRUE, <<>>, <<>>, <<>>, <<>>)  BY DEF Ordered
      <3> QED  BY <2>0, <2>2, <3>1, <3>2, <3>3 DEF InOrder
    <2> QED  BY <2>1, <2>2
  <1>5. ForcedIsEmpty'  BY DEF ForcedIsEmpty
  <1>6. Stopping'
    <2>1. pc'[t] = "none" /\ \A u \in Task : u # t => pc'[u] = pc[u]  BY DEF IInv, TypeOK
    <2> QED  BY <2>1 DEF IInv, Stopping
  <1> QED  BY <1>1, <1>2, <1>3, <1>4, <1>5, <1>6 DEF IInv

LEMMA DestroyEndStep ==
  ASSUME IInv, NEW c \in Caller, destroyTaskEnd(c)
  PROVE  IInv'
  <1> USE DEF destroyTaskEnd, CGoto, taskVars
  <1>1. TypeOK'  BY DEF IInv, TypeOK, syncVars
  <1>2. HolderDestroys'
    <2>1. mutex_tasks = c  BY DEF IInv, HolderDestroys
    <2>2. \A d \in Caller : cpc'[d] \notin {"destroying", "joining"}
      BY <2>1 DEF IInv, TypeOK, HolderDestroys
    <2> QED  BY <2>2, TaskAssumption DEF IInv, HolderDestroys
  <1>3. LivesWhileNamed'  BY DEF IInv, LivesWhileNamed
  <1>4. \A t \in Task : InOrder(t)'
    <2>1. \A t : Whole(t)' = Whole(t)  BY DEF IInv, TypeOK, Whole, Emptied
    <2> QED  BY <2>1 DEF IInv, InOrder, InFlight
  <1>5. ForcedIsEmpty'  BY DEF ForcedIsEmpty
  <1>6. Stopping'  BY DEF IInv, TypeOK, Stopping
  <1> QED  BY <1>1, <1>2, <1>3, <1>4, <1>5, <1>6 DEF IInv

-----------------------------------------------------------------------------
(* TaskRunner *)

\* A step of the thread between messages: the queue and the histories stay, and so
\* does what destroyTask left of them.
LEMMA ThreadMovesKeep ==
  ASSUME IInv, NEW t \in Task, pc[t] # "none",
         NEW label \in {"loop", "drain", "check", "park", "wait", "stop", "ended"},
         pc[t] # "handle", pc[t] = "drain" => msgs[t] = <<>>,
         label = "stop" => ~running[t], label = "ended" => pc[t] = "stop",
         Goto(t, label), threadFrame,
         condition' \in [Task -> {"none", "waiting", "notified"}],
         UNCHANGED <<msgs, current, handled, pushed, sent, syncVars>>
  PROVE  IInv'
  <1> USE DEF threadFrame, Goto, destroyVars
  <1>1. TypeOK'  BY DEF IInv, TypeOK, syncVars
  <1>2. pc'[t] = label /\ \A u \in Task : u # t => pc'[u] = pc[u]  BY DEF IInv, TypeOK
  <1>3. LivesWhileNamed'  BY <1>2 DEF IInv, LivesWhileNamed
  <1>4. \A u \in Task : InOrder(u)'
    <2> TAKE u \in Task
    <2>1. InFlight(u)' = InFlight(u)  BY <1>2 DEF InFlight
    <2>2. Whole(u)' = Whole(u)  BY WholeKept
    <2> QED  BY <2>1, <2>2, OrderUntouched DEF IInv
  <1>5. ForcedIsEmpty'  BY DEF IInv, ForcedIsEmpty
  <1>6. Stopping'
    <2>1. ~running[t] => t \in victim  BY DEF IInv, LivesWhileNamed
    <2> QED  BY <1>2, <2>1 DEF IInv, Stopping
  <1> QED  BY <1>1, <1>3, <1>4, <1>5, <1>6, DestroyUntouched DEF IInv

LEMMA PopStep ==
  ASSUME IInv, NEW t \in Task, popMessage(t)
  PROVE  IInv'
  <1> USE DEF popMessage, threadFrame, Goto, destroyVars
  <1>1. /\ Head(msgs[t]) \in Message /\ Tail(msgs[t]) \in Seq(Message)
        /\ Head(msgs[t]).no \in Number
    <2>1. msgs[t] \in Seq(Message) /\ msgs[t] # <<>>  BY InFlightType
    <2>2. Head(msgs[t]) \in Message /\ Tail(msgs[t]) \in Seq(Message)  BY <2>1
    <2> QED  BY <2>2 DEF Message
  <1>2. TypeOK'  BY <1>1 DEF IInv, TypeOK, syncVars
  <1>3. /\ pc'[t] = "handle" /\ current'[t] = Head(msgs[t]) /\ msgs'[t] = Tail(msgs[t])
        /\ \A u \in Task \ {t} : pc'[u] = pc[u] /\ current'[u] = current[u] /\ msgs'[u] = msgs[u]
    BY DEF IInv, TypeOK
  <1>4. LivesWhileNamed'  BY <1>1, <1>3 DEF IInv, LivesWhileNamed
  <1>5. \A u \in Task : InOrder(u)'
    <2> TAKE u \in Task
    <2>0. Whole(u)' = Whole(u)  BY WholeKept
    <2>1. CASE u # t
      <3>1. InFlight(u)' = InFlight(u)  BY <1>3, <2>1 DEF InFlight
      <3> QED  BY <1>3, <2>0, <2>1, <3>1, OrderUntouched DEF IInv
    <2>2. CASE u = t
      <3>1. InFlight(t) = <<>> /\ InFlight(t)' = <<Head(msgs[t]).no>>
        BY <1>3 DEF InFlight
      <3>2. Ordered(Whole(t), handled[t], <<>>, msgs[t], pushed[t])
        BY <3>1 DEF IInv, InOrder
      <3>3. Ordered(Whole(t), handled[t], <<Head(msgs[t]).no>>, Tail(msgs[t]), pushed[t])
        BY <3>2, InFlightType, OrderedPop
      <3> QED  BY <1>3, <2>0, <2>2, <3>1, <3>3 DEF InOrder
    <2> QED  BY <2>1, <2>2
  <1>6. ForcedIsEmpty'
    <2>1. \A c \in Caller : cpc[c] = "joining" /\ force => t \notin victim
      BY DEF IInv, ForcedIsEmpty
    <2> QED  BY <1>3, <2>1 DEF IInv, TypeOK, ForcedIsEmpty
  <1>7. Stopping'  BY <1>3 DEF IInv, Stopping
  <1> QED  BY <1>2, <1>4, <1>5, <1>6, <1>7, DestroyUntouched DEF IInv

\* The message in hand is handled; what onMessage sent has been queued before.
LEMMA FinishKeeps ==
  ASSUME IInv, NEW t \in Task, pc[t] = "handle", finishMessage(t),
         UNCHANGED <<tasks, destroyVars, running, cpc>>,
         NEW m \in Message,
         \A u \in Task :
           \/ msgs'[u] = msgs[u] /\ pushed'[u] = pushed[u]
           \/ /\ running[u] /\ u \in tasks
              /\ msgs'[u] = Append(msgs[u], m) /\ pushed'[u] = Append(pushed[u], m.no)
  PROVE  LivesWhileNamed' /\ (\A u \in Task : InOrder(u)') /\ Stopping'
  <1> USE DEF finishMessage, Goto, destroyVars
  <1>0. \A u \in Task : Whole(u)' = Whole(u) /\ (running[u] => Whole(u) /\ u \notin victim)
    BY WholeKept, RunningIsWhole
  <1>1. current[t].no \in Number /\ t \in tasks  BY DEF IInv, LivesWhileNamed, Message
  <1>2. /\ pc'[t] = "drain" /\ handled'[t] = Append(handled[t], current[t].no)
        /\ \A u \in Task \ {t} :
             pc'[u] = pc[u] /\ current'[u] = current[u] /\ handled'[u] = handled[u]
    BY DEF IInv, TypeOK
  <1>3. LivesWhileNamed'  BY <1>1, <1>2 DEF IInv, LivesWhileNamed
  <1>4. ASSUME NEW u \in Task PROVE Ordered(Whole(u), handled'[u], InFlight(u)', msgs[u], pushed[u])
    <2>1. CASE u # t
      <3>1. InFlight(u)' = InFlight(u)  BY <1>2, <2>1 DEF InFlight
      <3> QED  BY <1>2, <2>1, <3>1 DEF IInv, InOrder
    <2>2. CASE u = t
      <3>1. InFlight(t) = <<current[t].no>> /\ InFlight(t)' = <<>>
        BY <1>2 DEF InFlight
      <3>2. Ordered(Whole(t), handled[t], <<current[t].no>>, msgs[t], pushed[t])
        BY <3>1 DEF IInv, InOrder
      <3> QED  BY <1>1, <1>2, <2>2, <3>1, <3>2, InFlightType, OrderedFinish
    <2> QED  BY <2>1, <2>2
  <1>5. ASSUME NEW u \in Task PROVE InOrder(u)'
    <2>1. CASE msgs'[u] = msgs[u] /\ pushed'[u] = pushed[u]
      BY <1>0, <1>4, <2>1 DEF InOrder
    <2>2. CASE /\ running[u] /\ u \in tasks
               /\ msgs'[u] = Append(msgs[u], m) /\ pushed'[u] = Append(pushed[u], m.no)
      <3>1. handled'[u] \in Seq(Number) /\ InFlight(u)' \in Seq(Number)
        <4>1. CASE u # t
          <5>1. InFlight(u)' = InFlight(u)  BY <1>2, <4>1 DEF InFlight
          <5> QED  BY <1>2, <4>1, <5>1, InFlightType
        <4>2. CASE u = t  BY <1>1, <1>2, <4>2, InFlightType DEF InFlight
        <4> QED  BY <4>1, <4>2
      <3>2. Ordered(TRUE, handled'[u], InFlight(u)', msgs[u], pushed[u])
        BY <1>0, <1>4, <2>2
      <3>3. Ordered(TRUE, handled'[u], InFlight(u)', Append(msgs[u], m), Append(pushed[u], m.no))
        BY <3>1, <3>2, InFlightType, OrderedPush
      <3> QED  BY <1>0, <2>2, <3>3 DEF InOrder
    <2> QED  BY <2>1, <2>2
  <1>6. Stopping'  BY <1>0, <1>2 DEF IInv, Stopping
  <1> QED  BY <1>3, <1>5, <1>6

LEMMA AckTypes ==
  ASSUME IInv, NEW m \in Message, sendAck(m)
  PROVE  /\ open' \subseteq Number /\ reply' \in [Number -> {Reply, NoReply}]
         /\ asked' \in [Caller -> Number \cup {-1}] /\ got' \in [Caller -> {Reply, NoReply}]
  <1>1. CASE m.need_ack /\ m.no \in open
    <2>1. Sync!Post(m.no, Reply)  BY <1>1 DEF sendAck
    <2>2. reply \in [Number -> {Reply, NoReply}]  BY DEF IInv, TypeOK
    <2>3. reply' \in [Number -> {Reply, NoReply}]  BY <2>1, <2>2 DEF Sync!Post
    <2>4. open' = open /\ asked' = asked /\ got' = got  BY <2>1 DEF Sync!Post
    <2> QED  BY <2>3, <2>4 DEF IInv, TypeOK
  <1>2. CASE ~(m.need_ack /\ m.no \in open)
    BY <1>2 DEF IInv, TypeOK, sendAck, syncVars
  <1> QED  BY <1>1, <1>2

LEMMA FinishTypes ==
  ASSUME IInv, NEW t \in Task, pc[t] = "handle", finishMessage(t), sendAck(current[t]),
         threadFrame, sent' \in 0 .. MaxSent, msgs' \in [Task -> Seq(Message)],
         pushed' \in [Task -> Seq(Number)],
         condition' \in [Task -> {"none", "waiting", "notified"}]
  PROVE  TypeOK'
  <1>1. current[t] \in Message  BY DEF IInv, LivesWhileNamed
  <1>2. current[t].no \in Number  BY <1>1 DEF Message
  <1>3. handled' \in [Task -> Seq(Number)]
    BY <1>2, AppendProperties DEF IInv, TypeOK, finishMessage
  <1> QED
    BY <1>1, <1>3, AckTypes DEF IInv, TypeOK, finishMessage, Goto, threadFrame, destroyVars

LEMMA MessageStep ==
  ASSUME IInv, NEW t \in Task, onMessage(t)
  PROVE  IInv'
  <1> USE DEF onMessage
  <1>1. TypeOK'  BY FinishTypes DEF IInv, TypeOK
  <1>2. current[t] \in Message  BY DEF IInv, LivesWhileNamed
  <1>3. LivesWhileNamed' /\ (\A u \in Task : InOrder(u)') /\ Stopping'
    BY <1>2, FinishKeeps DEF threadFrame
  <1>4. ForcedIsEmpty'  BY DEF IInv, ForcedIsEmpty, threadFrame, destroyVars
  <1> QED  BY <1>1, <1>3, <1>4, DestroyUntouched DEF IInv, threadFrame

LEMMA RelayStep ==
  ASSUME IInv, NEW t \in Task, NEW to \in Task, onMessageRelay(t, to)
  PROVE  IInv'
  <1> USE DEF onMessageRelay
  <1>1. \E m \in Message :
          /\ sent' \in 0 .. MaxSent /\ msgs' \in [Task -> Seq(Message)]
          /\ pushed' \in [Task -> Seq(Number)]
          /\ condition' \in [Task -> {"none", "waiting", "notified"}]
          /\ \A u \in Task :
               \/ msgs'[u] = msgs[u] /\ pushed'[u] = pushed[u]
               \/ /\ running[u] /\ u \in tasks
                  /\ msgs'[u] = Append(msgs[u], m) /\ pushed'[u] = Append(pushed[u], m.no)
    <2>1. ASSUME NEW id \in MsgId \ RelayId, sendMessage({to}, id)
          PROVE  /\ NextMessage(id, FALSE) \in Message
                 /\ pushTaskMessage({to} \cap tasks, NextMessage(id, FALSE))
                 /\ sent' \in 0 .. MaxSent
      <3>1. id \in MsgId /\ sent < MaxSent /\ sent' = sent + 1
        BY <2>1, TaskAssumption DEF sendMessage
      <3>2. sent' \in 0 .. MaxSent  BY <3>1, TaskAssumption DEF IInv, TypeOK
      <3> QED  BY <2>1, <3>1, <3>2, NextMessageType DEF sendMessage
    <2>2. CASE \E id \in MsgId \ RelayId : sendMessage({to}, id)
      <3>1. PICK id \in MsgId \ RelayId : sendMessage({to}, id)  BY <2>2
      <3>2. PICK S, m : S = {to} \cap tasks /\ m = NextMessage(id, FALSE)  OBVIOUS
      <3>3. /\ S \in SUBSET tasks /\ m \in Message /\ mutex_tasks = Nobody
            /\ pushTaskMessage(S, m) /\ sent' \in 0 .. MaxSent
        BY <2>1, <3>1, <3>2 DEF sendMessage
      <3> QED  BY <3>3, PushExtends
    <2>3. CASE UNCHANGED <<msgs, pushed, condition, sent>>
      <3>1. current[t] \in Message  BY DEF IInv, LivesWhileNamed
      <3> QED  BY <2>3, <3>1 DEF IInv, TypeOK
    <2> QED  BY <2>2, <2>3
  <1>2. TypeOK'  BY <1>1, FinishTypes
  <1>3. LivesWhileNamed' /\ (\A u \in Task : InOrder(u)') /\ Stopping'
    BY <1>1, FinishKeeps DEF threadFrame
  <1>4. ForcedIsEmpty'
    <2>1. ASSUME NEW u \in victim PROVE msgs'[u] = msgs[u]
      <3>1. u \in Task /\ ~running[u]  BY <2>1 DEF IInv, TypeOK, LivesWhileNamed
      <3> QED  BY <1>1, <3>1
    <2> QED  BY <2>1 DEF IInv, ForcedIsEmpty, threadFrame, destroyVars
  <1> QED  BY <1>2, <1>3, <1>4, DestroyUntouched DEF IInv, threadFrame

LEMMA ThreadStep ==
  ASSUME IInv, NEW t \in Task, TaskRunner(t)
  PROVE  IInv'
  <1>0. condition \in [Task -> {"none", "waiting", "notified"}]  BY DEF IInv, TypeOK
  <1>1. CASE onStart(t)  BY <1>0, <1>1, ThreadMovesKeep DEF onStart
  <1>2. CASE loop(t)
    <2>1. CASE running[t]  BY <1>0, <1>2, <2>1, ThreadMovesKeep DEF loop
    <2>2. CASE ~running[t]  BY <1>0, <1>2, <2>2, ThreadMovesKeep DEF loop
    <2> QED  BY <2>1, <2>2
  <1>3. CASE popMessage(t)  BY <1>3, PopStep
  <1>4. CASE queueEmpty(t)  BY <1>0, <1>4, ThreadMovesKeep DEF queueEmpty
  <1>5. CASE onMessage(t)  BY <1>5, MessageStep
  <1>6. CASE \E to \in Task : onMessageRelay(t, to)  BY <1>6, RelayStep
  <1>7. CASE checkRunning(t)
    <2>1. CASE running[t]  BY <1>0, <1>7, <2>1, ThreadMovesKeep DEF checkRunning
    <2>2. CASE ~running[t]  BY <1>0, <1>7, <2>2, ThreadMovesKeep DEF checkRunning
    <2> QED  BY <2>1, <2>2
  <1>8. CASE park(t)  BY <1>0, <1>8, ThreadMovesKeep DEF park
  <1>9. CASE wake(t)  BY <1>0, <1>9, ThreadMovesKeep DEF wake
  <1>10. CASE onStop(t)  BY <1>0, <1>10, ThreadMovesKeep DEF onStop
  <1> QED
    BY <1>1, <1>2, <1>3, <1>4, <1>5, <1>6, <1>7, <1>8, <1>9, <1>10 DEF TaskRunner

-----------------------------------------------------------------------------
(* The theorems *)

LEMMA Initially == Init => IInv
  <1> SUFFICES ASSUME Init PROVE IInv  OBVIOUS
  <1> USE DEF Init, Sync!Init
  <1>1. TypeOK
    <2>1. 0 \in 0 .. MaxSent /\ 0 \in 0 .. MaxCreate  BY TaskAssumption
    <2>2. /\ running \in [Task -> BOOLEAN] /\ msgs \in [Task -> Seq(Message)]
          /\ condition \in [Task -> {"none", "waiting", "notified"}]
          /\ listeners \in [Task -> SUBSET MsgId]
          /\ handled \in [Task -> Seq(Number)] /\ pushed \in [Task -> Seq(Number)]
      OBVIOUS
    <2>3. /\ current \in [Task -> Message \cup {NoMessage}]
          /\ reply \in [Number -> {Reply, NoReply}]
          /\ asked \in [Caller -> Number \cup {-1}] /\ got \in [Caller -> {Reply, NoReply}]
      OBVIOUS
    <2> QED  BY <2>1, <2>2, <2>3 DEF TypeOK
  <1>2. HolderDestroys  BY TaskAssumption DEF HolderDestroys
  <1>3. LivesWhileNamed  BY DEF LivesWhileNamed
  <1>4. \A t \in Task : InOrder(t)  BY DEF InOrder, Ordered, InFlight
  <1>5. ForcedIsEmpty  BY DEF ForcedIsEmpty
  <1>6. Stopping  BY DEF Stopping
  <1> QED  BY <1>1, <1>2, <1>3, <1>4, <1>5, <1>6 DEF IInv

LEMMA StepKeepsInv ==
  ASSUME IInv, [Next]_vars
  PROVE  IInv'
  <1>1. CASE UNCHANGED vars
    <2> USE <1>1 DEF vars, taskVars, destroyVars, syncVars
    <2>1. TypeOK'  BY DEF IInv, TypeOK
    <2>2. LivesWhileNamed'  BY DEF IInv, LivesWhileNamed
    <2>0. \A t : Whole(t)' = Whole(t)  BY WholeKept
    <2>3. \A t \in Task : InOrder(t)'  BY <2>0 DEF IInv, InOrder, InFlight
    <2>4. ForcedIsEmpty'  BY DEF IInv, ForcedIsEmpty
    <2>5. Stopping'  BY DEF IInv, Stopping
    <2> QED  BY <2>1, <2>2, <2>3, <2>4, <2>5, DestroyUntouched DEF IInv
  <1>2. ASSUME NEW c \in Caller, DestroyStep(c) PROVE IInv'
    BY <1>2, StopStep, StopNotifyStep, JoinStep, DestroyEndStep DEF DestroyStep
  <1> QED
    BY <1>1, <1>2, SendStep, SendAndWaitStep, WaitStep, CreateStep, ListenerStep,
       DestroyBeginStep, ThreadStep DEF Next

LEMMA Invariance == Spec => []IInv
  BY Initially, StepKeepsInv, PTL DEF Spec

\* Every variable of ComTaskManager and its tasks keeps its type.
THEOREM TypeCorrect == Spec => []TypeOK
  <1>1. IInv => TypeOK  BY DEF IInv
  <1> QED  BY <1>1, Invariance, PTL

\* TaskRunner handles what pushTaskMessage was given, in that order and each once, and
\* none is missing until the task is deleted, unless a forced stop emptied the queue; a
\* stop without force that comes while the thread is at work on the queue loses nothing.
THEOREM OrderIsKept == Spec => []InOrderOnce
  <1>1. IInv => NoneMissing
    <2> SUFFICES ASSUME IInv, NEW t \in Task
                 PROVE  LET seen == handled[t] \o InFlight(t) \o Queued(t) IN
                        IF Emptied(t) THEN seen = SubSeq(pushed[t], 1, Len(seen))
                                      ELSE seen = pushed[t]
      BY DEF NoneMissing
    <2>1. Ordered(Whole(t), handled[t], InFlight(t), msgs[t], pushed[t])
      BY DEF IInv, InOrder
    <2>2. /\ Whole(t) \in BOOLEAN /\ handled[t] \in Seq(Number)
          /\ InFlight(t) \in Seq(Number) /\ msgs[t] \in Seq(Message)
          /\ pushed[t] \in Seq(Number)
      BY InFlightType
    <2>3. LET s == Seen(handled[t], InFlight(t), msgs[t])
          IN  s = SubSeq(pushed[t], 1, Len(s)) /\ (Whole(t) => s = pushed[t])
      BY <2>1, <2>2, OrderedIsInOrder
    <2> QED  BY <2>3 DEF Seen, Queued, Whole
  <1>2. IInv => DrainIsFinished
    BY DEF IInv, Stopping, DrainIsFinished
  <1>3. IInv => InOrderOnce
    BY <1>1, <1>2 DEF InOrderOnce
  <1> QED  BY <1>3, Invariance, PTL

\* destroyTask(force) leaves its task nothing to handle, and no thread of a task
\* that has left the map is alive.
THEOREM DestroyedIsQuiet == Spec => []DestroyedTaskIsQuiet
  <1>1. IInv => DestroyedTaskIsQuiet
    BY DEF IInv, ForcedIsEmpty, LivesWhileNamed, DestroyedTaskIsQuiet
  <1> QED  BY <1>1, Invariance, PTL
=============================================================================
