--------------------------- MODULE MemStore_proofs ---------------------------
(***************************************************************************)
(* The three stores, for every finite set of writers and of callers and    *)
(* all sets of keys, values and listeners.  MemStore: queued announcements *)
(* have their tokens, and listeners that read again converge to the store. *)
(* KvStore implements KvQueue.  MapLRU keeps the entries used last.        *)
(*                                                                         *)
(* The argument for MemStore's listeners: one that the last announcement   *)
(* of a key goes to has read the key's present value, unless an            *)
(* announcement of the key is still on its way, to the queue or to the     *)
(* listener.                                                               *)
(***************************************************************************)
EXTENDS MCMemStore, FiniteSetTheorems, SequenceTheorems, WellFoundedInduction, TLAPS

-----------------------------------------------------------------------------
(* Types *)

LEMMA InitTypes == Init => TypeOK
  BY KeyAssumption
  DEF Init, TypeOK, Content, Item, HookKey, Flag, NoItem, Listener

LEMMA ReadsType ==
  ASSUME TypeOK, NEW l \in Listener, NEW k \in HookKey, Reads(l, k)
  PROVE  seen' \in [Listener -> Content]
  BY DEF TypeOK, Reads, Content

LEMMA ChangeTypes ==
  ASSUME TypeOK, NEW w \in Writer, NEW m \in Content, NEW i \in Item,
         NEW h \in SUBSET Key, Change(w, m, i, h)
  PROVE  TypeOK'
  BY DEF TypeOK, Change, About, Racing, HookKey, Item, runnerVars, listenVars

LEMMA WriteTypes ==
  ASSUME TypeOK, NEW w \in Writer, Write(w)
  PROVE  TypeOK'
  <1>1. CASE \E k \in Key, v \in Value \cup {Absent} : com_mem_set(w, k, v)
    <2>1. PICK k \in Key, v \in Value \cup {Absent} : com_mem_set(w, k, v)  BY <1>1
    <2>2. (IF v = Absent THEN mem_msg ELSE [mem_msg EXCEPT ![k] = v]) \in Content
      BY DEF TypeOK, Content
    <2>3. [key |-> k, flag |-> IF k \in Keys THEN "updated" ELSE "new"] \in Item
      BY DEF Item, HookKey, Flag
    <2>4. (IF v = Absent THEN {k} \ Keys ELSE {}) \in SUBSET Key
      OBVIOUS
    <2> QED  BY <2>1, <2>2, <2>3, <2>4, ChangeTypes DEF com_mem_set
  <1>2. CASE \E k \in Key : com_mem_remove(w, k)
    <2>1. PICK k \in Key : com_mem_remove(w, k)  BY <1>2
    <2>2. [mem_msg EXCEPT ![k] = Absent] \in Content  BY DEF TypeOK, Content
    <2>3. [key |-> k, flag |-> "removed"] \in Item  BY DEF Item, HookKey, Flag
    <2> QED  BY <2>1, <2>2, <2>3, ChangeTypes DEF com_mem_remove
  <1>3. CASE com_mem_clear(w)
    <2>1. [k \in Key |-> Absent] \in Content  BY DEF Content
    <2>2. [key |-> Whole, flag |-> "cleared"] \in Item  BY DEF Item, HookKey, Flag
    <2> QED  BY <1>3, <2>1, <2>2, ChangeTypes DEF com_mem_clear
  <1>4. CASE reload(w)
    <2>1. PICK m \in ReloadTo : Change(w, m, [key |-> Whole, flag |-> "reload"], {})
      BY <1>4 DEF reload
    <2>2. m \in Content  BY ReloadAssumption DEF Content
    <2>3. [key |-> Whole, flag |-> "reload"] \in Item  BY DEF Item, HookKey, Flag
    <2> QED  BY <2>1, <2>2, <2>3, ChangeTypes
  <1> QED  BY <1>1, <1>2, <1>3, <1>4 DEF Write

LEMMA AnnounceTypes ==
  ASSUME TypeOK, NEW w \in Writer, Announce(w)
  PROVE  TypeOK'
  <1> NoItem \in Item  BY DEF NoItem, Item, HookKey, Flag
  <1>1. CASE pushKey(w)
    BY <1>1 DEF TypeOK, pushKey, storeVars, runnerVars, listenVars
  <1>2. CASE postKey(w)
    BY <1>2 DEF TypeOK, postKey, storeVars, runnerVars, listenVars
  <1> QED  BY <1>1, <1>2 DEF Announce

LEMMA HookTypes ==
  ASSUME TypeOK, Hook
  PROVE  TypeOK'
  <1> USE DEF TypeOK, hooksFrame, storeVars, writerVars, runnerVars
  <1>1. ASSUME NEW l \in Listener, NEW k \in HookKey, addListener(l, k) PROVE TypeOK'
    <2>1. seen' \in [Listener -> Content]  BY <1>1, ReadsType DEF addListener
    <2> QED  BY <1>1, <2>1 DEF addListener
  <1>2. ASSUME NEW k \in HookKey, NEW kind \in {Callback, Task}, removeListeners(k, kind)
        PROVE TypeOK'
    BY <1>2 DEF removeListeners
  <1>3. ASSUME NEW k \in HookKey, NEW t \in Task, removeTask(k, t) PROVE TypeOK'
    BY <1>3 DEF removeTask
  <1>4. ASSUME NEW k \in HookKey, NEW c \in Callback, removeCallback(k, c) PROVE TypeOK'
    BY <1>4 DEF removeCallback
  <1> QED  BY <1>1, <1>2, <1>3, <1>4 DEF Hook

LEMMA HandlesTypes ==
  ASSUME TypeOK, NEW t \in Task, NEW k \in HookKey, taskHandles(t, k)
  PROVE  TypeOK'
  <1>1. seen' \in [Listener -> Content]  BY ReadsType DEF taskHandles, Listener
  <1> QED  BY <1>1 DEF TypeOK, taskHandles, storeVars, writerVars, runnerVars

LEMMA RunnerTypes ==
  ASSUME TypeOK, ThreadRunner
  PROVE  TypeOK'
  <1> USE DEF TypeOK, runnerFrame, RGoto, storeVars, writerVars, listenVars
  <1>1. CASE loop  BY <1>1 DEF loop
  <1>2. CASE wait  BY <1>2 DEF wait
  <1>3. CASE waitTimeout  BY <1>3 DEF waitTimeout
  <1>4. CASE check  BY <1>4 DEF check
  <1>5. CASE nothing  BY <1>5 DEF nothing
  <1>6. CASE pop
    <2>1. Head(keys) \in Item /\ Tail(keys) \in Seq(Item)  BY <1>6 DEF pop
    <2>2. Head(keys).flag \in Flag  BY <2>1 DEF Item
    <2>3. told' \in [Key -> Flag]  BY <1>6, <2>2 DEF pop, Told
    <2> QED  BY <1>6, <2>1, <2>3 DEF pop
  <1>7. CASE copyHooks
    <2>1. hand.key \in HookKey  BY DEF Item
    <2> QED  BY <1>7, <2>1 DEF copyHooks
  <1>8. ASSUME NEW t \in Task, tellTask(t) PROVE TypeOK'
    <2>1. hand.key \in HookKey  BY DEF Item
    <2> QED  BY <1>8, <2>1 DEF tellTask
  <1>9. ASSUME NEW c \in Callback, tellCallback(c) PROVE TypeOK'
    <2>1. hand.key \in HookKey  BY DEF Item
    <2>2. seen' \in [Listener -> Content]  BY <1>9, <2>1, ReadsType DEF tellCallback, Listener
    <2> QED  BY <1>9, <2>2 DEF tellCallback
  <1>10. CASE allTold  BY <1>10 DEF allTold, NoItem, Item, HookKey, Flag
  <1> QED
    BY <1>1, <1>2, <1>3, <1>4, <1>5, <1>6, <1>7, <1>8, <1>9, <1>10 DEF ThreadRunner

LEMMA StopTypes ==
  ASSUME TypeOK, Stop
  PROVE  TypeOK'
  <1> USE DEF TypeOK, stopFrame, storeVars, writerVars, runnerVars, listenVars
  <1>1. CASE stopPost  BY <1>1 DEF stopPost
  <1>2. CASE stopClear  BY <1>2 DEF stopClear
  <1>3. CASE stopJoin  BY <1>3 DEF stopJoin
  <1> QED  BY <1>1, <1>2, <1>3 DEF Stop

\* Every variable keeps its type.
THEOREM TypeCorrect == Spec => []TypeOK
<1>1. ASSUME TypeOK, [Next]_vars PROVE TypeOK'
  <2>1. CASE UNCHANGED vars
    BY <1>1, <2>1 DEF TypeOK, vars, storeVars, writerVars, runnerVars, listenVars
  <2> QED
    BY <1>1, <2>1, WriteTypes, AnnounceTypes, HookTypes, HandlesTypes, RunnerTypes,
       StopTypes DEF Next
<1> QED
  BY <1>1, InitTypes, PTL DEF Spec

-----------------------------------------------------------------------------
(* Tokens *)

LEMMA PostingFinite == IsFiniteSet(Posting) /\ Cardinality(Posting) \in Nat
  <1>1. Posting \subseteq Writer  BY DEF Posting
  <1> QED  BY <1>1, WriterAssumption, FS_Subset, FS_CardinalityType

LEMMA PostingSame ==
  ASSUME wpc' = wpc
  PROVE  Posting' = Posting
  BY DEF Posting

LEMMA TokensStep ==
  ASSUME TypeOK, TokensCoverItems, [Next]_vars
  PROVE  TokensCoverItems'
  <1> USE DEF TokensCoverItems
  <1>0. Cardinality(Posting) \in Nat /\ Len(keys) \in Nat /\ sem_keys \in Nat
    BY PostingFinite DEF TypeOK
  \* Steps that touch neither the queue nor the tokens.
  <1>1. ASSUME keys' = keys, sem_keys' = sem_keys, Posting' = Posting, rpc' = rpc
        PROVE  TokensCoverItems'
    BY <1>1
  <1>2. ASSUME NEW w \in Writer, Write(w) PROVE TokensCoverItems'
    <2>1. keys' = keys /\ sem_keys' = sem_keys /\ rpc' = rpc
          /\ wpc[w] = "idle" /\ wpc' = [wpc EXCEPT ![w] = "notify"]
      BY <1>2 DEF Write, com_mem_set, com_mem_remove, com_mem_clear, reload, Change, runnerVars
    <2>2. Posting' = Posting  BY <2>1 DEF Posting, TypeOK
    <2> QED  BY <1>1, <2>1, <2>2
  <1>3. ASSUME NEW w \in Writer, pushKey(w) PROVE TokensCoverItems'
    <2>1. Posting' = Posting \cup {w} /\ w \notin Posting
      BY <1>3 DEF pushKey, Posting, TypeOK
    <2>2. Cardinality(Posting') = Cardinality(Posting) + 1
      BY <2>1, PostingFinite, FS_AddElement
    <2>3. Len(keys') = Len(keys) + 1 /\ sem_keys' = sem_keys /\ rpc' = rpc
      BY <1>3 DEF pushKey, TypeOK, runnerVars
    <2> QED  BY <1>0, <2>2, <2>3
  <1>4. ASSUME NEW w \in Writer, postKey(w) PROVE TokensCoverItems'
    <2>1. Posting' = Posting \ {w} /\ w \in Posting
      BY <1>4 DEF postKey, Posting, TypeOK
    <2>2. Cardinality(Posting') = Cardinality(Posting) - 1
      BY <2>1, PostingFinite, FS_RemoveElement
    <2>3. keys' = keys /\ sem_keys' = sem_keys + 1 /\ rpc' = rpc
      BY <1>4 DEF postKey, runnerVars
    <2> QED  BY <1>0, <2>2, <2>3
  <1>5. CASE Hook
    <2>1. hooksFrame
      BY <1>5 DEF Hook, addListener, removeListeners, removeTask, removeCallback
    <2>2. keys' = keys /\ sem_keys' = sem_keys /\ rpc' = rpc /\ wpc' = wpc
      BY <2>1 DEF hooksFrame, writerVars, runnerVars
    <2> QED  BY <1>1, <2>2, PostingSame
  <1>6. ASSUME NEW t \in Task, NEW k \in HookKey, taskHandles(t, k) PROVE TokensCoverItems'
    <2>1. keys' = keys /\ sem_keys' = sem_keys /\ rpc' = rpc /\ wpc' = wpc
      BY <1>6 DEF taskHandles, writerVars, runnerVars
    <2> QED  BY <1>1, <2>1, PostingSame
  <1>7. CASE ThreadRunner
    <2> USE DEF runnerFrame, RGoto
    <2>0. Posting' = Posting
      BY <1>7, PostingSame
      DEF ThreadRunner, loop, wait, waitTimeout, check, nothing, pop, copyHooks, tellTask,
          tellCallback, allTold, writerVars
    <2>1. CASE loop  BY <1>0, <2>0, <2>1 DEF loop
    <2>2. CASE wait  BY <1>0, <2>0, <2>2 DEF wait
    <2>3. CASE waitTimeout  BY <1>0, <2>0, <2>3 DEF waitTimeout
    <2>4. CASE check  BY <1>0, <2>0, <2>4 DEF check
    <2>5. CASE nothing
      <3>1. Len(keys') = 0 /\ sem_keys' = sem_keys  BY <2>5 DEF nothing
      <3> QED  BY <1>0, <2>0, <3>1
    <2>6. CASE pop
      <3>1. Len(keys') = Len(keys) - 1 /\ sem_keys' = sem_keys /\ rpc = "pop"
            /\ rpc' = "hooks"
        BY <2>6 DEF pop, TypeOK
      <3> QED  BY <1>0, <2>0, <3>1
    <2>7. CASE copyHooks  BY <1>0, <2>0, <2>7 DEF copyHooks
    <2>8. ASSUME NEW t \in Task, tellTask(t) PROVE TokensCoverItems'
      BY <1>1, <2>0, <2>8 DEF tellTask
    <2>9. ASSUME NEW c \in Callback, tellCallback(c) PROVE TokensCoverItems'
      BY <1>1, <2>0, <2>9 DEF tellCallback
    <2>10. CASE allTold  BY <1>0, <2>0, <2>10 DEF allTold
    <2> QED
      BY <1>7, <2>1, <2>2, <2>3, <2>4, <2>5, <2>6, <2>7, <2>8, <2>9, <2>10
      DEF ThreadRunner
  <1>8. CASE Stop
    <2>1. keys' = keys /\ sem_keys' \in {sem_keys, sem_keys + 1} /\ rpc' = rpc /\ wpc' = wpc
      BY <1>8 DEF Stop, stopPost, stopClear, stopJoin, stopFrame, writerVars, runnerVars
    <2>2. Posting' = Posting  BY <2>1, PostingSame
    <2> QED  BY <1>0, <2>1, <2>2
  <1>9. CASE UNCHANGED vars
    BY <1>1, <1>9, PostingSame DEF vars, writerVars, runnerVars
  <1> QED  BY <1>2, <1>3, <1>4, <1>5, <1>6, <1>7, <1>8, <1>9 DEF Next, Announce

\* No announcement is left behind without a token, whatever the writers do.
THEOREM TokensCover == Spec => []TokensCoverItems
<1>1. Init => TokensCoverItems
  <2>1. Init => Len(keys) = 0 /\ sem_keys = 1 /\ rpc = "loop"  BY DEF Init
  <2> QED  BY <2>1, PostingFinite DEF TokensCoverItems
<1>2. TypeOK /\ TokensCoverItems /\ [Next]_vars => TokensCoverItems'
  BY TokensStep
<1> QED
  BY <1>1, <1>2, TypeCorrect, PTL DEF Spec

-----------------------------------------------------------------------------
(* Listeners *)

\* Clear and reload, and they alone, are announced under the empty key.
WellFormed(i) == i.flag \in {"cleared", "reload"} <=> i.key = Whole
ItemsFit ==
  /\ \A w \in Writer : WellFormed(item[w])
  /\ \A n \in 1 .. Len(keys) : WellFormed(keys[n])
  /\ WellFormed(hand)

\* The key under which the last announcement about k was made.
HeardKey(k) == IF told[k] \in {"cleared", "reload"} THEN Whole ELSE k
HandFits == rpc = "hooks" => \A k \in About(hand.key) : HeardKey(k) = hand.key

\* An announcement about k is on its way into the queue, or in it, or on its way
\* to the listener l.
Pending(k) ==
  \/ \E w \in Writer : wpc[w] = "notify" /\ k \in About(item[w].key)
  \/ \E n \in 1 .. Len(keys) : k \in About(keys[n].key)
Coming(l, k) ==
  \/ rpc = "hooks" /\ k \in About(hand.key)
  \/ rpc = "deliver" /\ l \in tell /\ k \in About(hand.key)
  \/ l \in Task /\ \E h \in inbox[l] : k \in About(h)
Knows(l, k) == seen[l][k] = mem_msg[k]

HearersKnow ==
  \A k \in Key : \A l \in hooks[HeardKey(k)] : Pending(k) \/ Coming(l, k) \/ Knows(l, k)

HInv == TypeOK /\ ItemsFit /\ HandFits /\ HearersKnow

LEMMA HeardKeyFits ==
  ASSUME NEW k \in Key
  PROVE  HeardKey(k) \in HookKey /\ k \in About(HeardKey(k))
  BY DEF HeardKey, HookKey, About

\* Reading again can only make a listener know more.
LEMMA ReadingKnows ==
  ASSUME TypeOK, NEW l \in Listener, NEW h \in HookKey, Reads(l, h), mem_msg' = mem_msg
  PROVE  /\ \A k \in About(h) \cap Key : Knows(l, k)'
         /\ \A x \in Listener, k \in Key : Knows(x, k) => Knows(x, k)'
  <1> USE DEF TypeOK, Reads, Knows
  <1>1. \A x \in Listener, k \in Key :
          seen'[x][k] = IF x = l /\ k \in About(h) THEN mem_msg[k] ELSE seen[x][k]
    BY DEF Content
  <1> QED  BY <1>1

\* What a change announces covers what it changes.
LEMMA ChangeHears ==
  ASSUME HInv, NEW w \in Writer, NEW m, NEW i \in Item, WellFormed(i), NEW h, Change(w, m, i, h),
         \A k \in Key \ About(i.key) : m[k] = mem_msg[k]
  PROVE  ItemsFit' /\ HandFits' /\ HearersKnow'
  <1> USE DEF HInv, TypeOK
  <1>0. /\ wpc[w] = "idle" /\ wpc' = [wpc EXCEPT ![w] = "notify"]
        /\ item' = [item EXCEPT ![w] = i] /\ mem_msg' = m
        /\ UNCHANGED <<keys, hooks, rpc, hand, tell, inbox, seen, told>>
    BY DEF Change, runnerVars, listenVars
  <1>1. ItemsFit'  BY <1>0 DEF ItemsFit, WellFormed
  <1>2. HandFits'  BY <1>0 DEF HandFits, HeardKey
  <1>3. ASSUME NEW k \in Key, NEW l \in hooks'[HeardKey(k)']
        PROVE  (Pending(k) \/ Coming(l, k) \/ Knows(l, k))'
    <2>1. l \in hooks[HeardKey(k)]  BY <1>0, <1>3 DEF HeardKey
    <2>2. CASE k \in About(i.key)
      <3>1. wpc'[w] = "notify" /\ item'[w] = i  BY <1>0
      <3>2. Pending(k)'  BY <2>2, <3>1 DEF Pending, About
      <3> QED  BY <3>2
    <2>3. CASE k \notin About(i.key)
      <3>1. mem_msg'[k] = mem_msg[k]  BY <1>0, <2>3
      <3>2. Pending(k) => Pending(k)'  BY <1>0 DEF Pending, About
      <3>3. Coming(l, k) => Coming(l, k)'  BY <1>0 DEF Coming, About
      <3>4. Knows(l, k) => Knows(l, k)'  BY <1>0, <3>1 DEF Knows
      <3> QED  BY <2>1, <3>2, <3>3, <3>4 DEF HearersKnow
    <2> QED  BY <2>2, <2>3
  <1> QED  BY <1>1, <1>2, <1>3 DEF HearersKnow

LEMMA WriteHears ==
  ASSUME HInv, NEW w \in Writer, Write(w)
  PROVE  ItemsFit' /\ HandFits' /\ HearersKnow'
  <1> USE DEF WellFormed
  <1>1. CASE \E k \in Key, v \in Value \cup {Absent} : com_mem_set(w, k, v)
    <2>1. PICK k \in Key, v \in Value \cup {Absent} : com_mem_set(w, k, v)  BY <1>1
    <2> DEFINE i == [key |-> k, flag |-> IF k \in Keys THEN "updated" ELSE "new"]
               m == IF v = Absent THEN mem_msg ELSE [mem_msg EXCEPT ![k] = v]
    <2>2. i \in Item /\ WellFormed(i)  BY KeyAssumption DEF Item, HookKey, Flag
    <2>3. \A x \in Key \ About(i.key) : m[x] = mem_msg[x]  BY DEF About, HInv, TypeOK, Content
    <2> QED  BY <2>1, <2>2, <2>3, ChangeHears DEF com_mem_set
  <1>2. CASE \E k \in Key : com_mem_remove(w, k)
    <2>1. PICK k \in Key : com_mem_remove(w, k)  BY <1>2
    <2> DEFINE i == [key |-> k, flag |-> "removed"]
               m == [mem_msg EXCEPT ![k] = Absent]
    <2>2. i \in Item /\ WellFormed(i)  BY KeyAssumption DEF Item, HookKey, Flag
    <2>3. \A x \in Key \ About(i.key) : m[x] = mem_msg[x]  BY DEF About, HInv, TypeOK, Content
    <2> QED  BY <2>1, <2>2, <2>3, ChangeHears DEF com_mem_remove
  <1>3. CASE com_mem_clear(w)
    <2> DEFINE i == [key |-> Whole, flag |-> "cleared"]
               m == [x \in Key |-> Absent]
    <2>2. i \in Item /\ WellFormed(i)  BY DEF Item, HookKey, Flag
    <2>3. \A x \in Key \ About(i.key) : m[x] = mem_msg[x]  BY DEF About
    <2> QED  BY <1>3, <2>2, <2>3, ChangeHears DEF com_mem_clear
  <1>4. CASE reload(w)
    <2> DEFINE i == [key |-> Whole, flag |-> "reload"]
    <2>1. PICK m \in ReloadTo : Change(w, m, i, {})  BY <1>4 DEF reload
    <2>2. i \in Item /\ WellFormed(i)  BY DEF Item, HookKey, Flag
    <2>3. \A x \in Key \ About(i.key) : m[x] = mem_msg[x]  BY DEF About
    <2> QED  BY <2>1, <2>2, <2>3, ChangeHears
  <1> QED  BY <1>1, <1>2, <1>3, <1>4 DEF Write

LEMMA AnnounceHears ==
  ASSUME HInv, NEW w \in Writer, Announce(w)
  PROVE  ItemsFit' /\ HandFits' /\ HearersKnow'
  <1> USE DEF HInv, TypeOK
  <1>0. UNCHANGED <<mem_msg, hooks, rpc, hand, tell, inbox, seen, told>>
    BY DEF Announce, pushKey, postKey, storeVars, runnerVars, listenVars
  <1>2. HandFits'  BY <1>0 DEF HandFits, HeardKey
  <1>3. \A k \in Key : \A l \in hooks'[HeardKey(k)'] :
          /\ l \in hooks[HeardKey(k)]
          /\ Coming(l, k) => Coming(l, k)'
          /\ Knows(l, k) => Knows(l, k)'
    BY <1>0 DEF HeardKey, Coming, Knows, About
  <1>4. CASE pushKey(w)
    <2>0. /\ wpc[w] = "notify" /\ wpc' = [wpc EXCEPT ![w] = "post"]
          /\ keys' = Append(keys, item[w]) /\ item' = [item EXCEPT ![w] = NoItem]
      BY <1>4 DEF pushKey
    <2>1. /\ Len(keys') = Len(keys) + 1 /\ Len(keys) \in Nat
          /\ keys'[Len(keys) + 1] = item[w]
          /\ \A n \in 1 .. Len(keys) : keys'[n] = keys[n]
      BY <2>0
    <2>2. WellFormed(NoItem)  BY DEF WellFormed, NoItem
    <2>3. ItemsFit'
      <3>1. \A v \in Writer : WellFormed(item'[v])  BY <2>0, <2>2 DEF ItemsFit
      <3>2. \A n \in 1 .. Len(keys') : WellFormed(keys'[n])  BY <2>1 DEF ItemsFit
      <3>3. WellFormed(hand')  BY <1>0 DEF ItemsFit
      <3> QED  BY <3>1, <3>2, <3>3 DEF ItemsFit, WellFormed
    <2>4. ASSUME NEW k \in Key, Pending(k) PROVE Pending(k)'
      <3>1. CASE \E v \in Writer : wpc[v] = "notify" /\ k \in About(item[v].key)
        <4>1. PICK v \in Writer : wpc[v] = "notify" /\ k \in About(item[v].key)  BY <3>1
        <4>2. CASE v = w
          <5>1. k \in About(keys'[Len(keys) + 1].key)  BY <2>1, <4>1, <4>2
          <5>2. Len(keys) + 1 \in 1 .. Len(keys')  BY <2>1
          <5> QED  BY <5>1, <5>2 DEF Pending, About
        <4>3. CASE v # w
          <5>1. wpc'[v] = "notify" /\ item'[v] = item[v]  BY <2>0, <4>1, <4>3
          <5> QED  BY <4>1, <5>1 DEF Pending, About
        <4> QED  BY <4>2, <4>3
      <3>2. CASE \E n \in 1 .. Len(keys) : k \in About(keys[n].key)
        <4>1. PICK n \in 1 .. Len(keys) : k \in About(keys[n].key)  BY <3>2
        <4>2. n \in 1 .. Len(keys') /\ keys'[n] = keys[n]  BY <2>1
        <4> QED  BY <4>1, <4>2 DEF Pending, About
      <3> QED  BY <2>4, <3>1, <3>2 DEF Pending
    <2> QED  BY <1>2, <1>3, <2>3, <2>4 DEF HearersKnow
  <1>5. CASE postKey(w)
    <2>0. /\ wpc[w] = "post" /\ wpc' = [wpc EXCEPT ![w] = "idle"]
          /\ UNCHANGED <<keys, item>>
      BY <1>5 DEF postKey
    <2>1. ItemsFit'  BY <1>0, <2>0 DEF ItemsFit, WellFormed
    <2>2. \A k \in Key : Pending(k) => Pending(k)'  BY <2>0 DEF Pending, About
    <2> QED  BY <1>2, <1>3, <2>1, <2>2 DEF HearersKnow
  <1> QED  BY <1>4, <1>5 DEF Announce

LEMMA HookHears ==
  ASSUME HInv, Hook
  PROVE  ItemsFit' /\ HandFits' /\ HearersKnow'
  <1> USE DEF HInv
  <1>0. UNCHANGED <<mem_msg, wpc, item, keys, rpc, hand, tell, inbox, told>>
    BY DEF Hook, addListener, removeListeners, removeTask, removeCallback, hooksFrame,
           storeVars, writerVars, runnerVars
  <1>1. ItemsFit' /\ HandFits'  BY <1>0 DEF ItemsFit, WellFormed, HandFits, HeardKey
  <1>2. \A k \in Key : /\ HeardKey(k)' = HeardKey(k)
                       /\ Pending(k) => Pending(k)'
                       /\ \A l : Coming(l, k) => Coming(l, k)'
    BY <1>0 DEF HeardKey, Pending, Coming, About
  <1>3. ASSUME NEW x \in Listener, NEW h \in HookKey, addListener(x, h) PROVE HearersKnow'
    <2> SUFFICES ASSUME NEW k \in Key, NEW l \in hooks'[HeardKey(k)']
                 PROVE  (Pending(k) \/ Coming(l, k) \/ Knows(l, k))'
      BY DEF HearersKnow
    <2>1. /\ \A y \in About(h) \cap Key : Knows(x, y)'
          /\ \A z \in Listener, y \in Key : Knows(z, y) => Knows(z, y)'
      BY <1>0, <1>3, ReadingKnows DEF addListener
    <2>2. hooks' = [hooks EXCEPT ![h] = @ \cup {x}]  BY <1>3 DEF addListener
    <2>3. HeardKey(k) \in HookKey /\ k \in About(HeardKey(k))  BY HeardKeyFits
    <2>4. CASE l = x /\ HeardKey(k) = h
      BY <2>1, <2>3, <2>4
    <2>5. CASE ~(l = x /\ HeardKey(k) = h)
      <3>1. l \in hooks[HeardKey(k)]  BY <1>2, <2>2, <2>3, <2>5 DEF TypeOK
      <3>2. l \in Listener  BY <2>3, <3>1 DEF TypeOK
      <3> QED  BY <1>2, <2>1, <3>1, <3>2 DEF HearersKnow
    <2> QED  BY <2>4, <2>5
  <1>4. ASSUME seen' = seen, \A h \in HookKey : hooks'[h] \subseteq hooks[h]
        PROVE  HearersKnow'
    <2> SUFFICES ASSUME NEW k \in Key, NEW l \in hooks'[HeardKey(k)']
                 PROVE  (Pending(k) \/ Coming(l, k) \/ Knows(l, k))'
      BY DEF HearersKnow
    <2>1. l \in hooks[HeardKey(k)]  BY <1>2, <1>4, HeardKeyFits
    <2>2. Knows(l, k) => Knows(l, k)'  BY <1>0, <1>4 DEF Knows
    <2> QED  BY <1>2, <2>1, <2>2 DEF HearersKnow
  <1>5. ASSUME NEW h \in HookKey, NEW kind \in {Callback, Task}, removeListeners(h, kind)
        PROVE  HearersKnow'
    BY <1>4, <1>5 DEF removeListeners, TypeOK
  <1>6. ASSUME NEW h \in HookKey, NEW t \in Task, removeTask(h, t) PROVE HearersKnow'
    BY <1>4, <1>6 DEF removeTask, TypeOK
  <1>7. ASSUME NEW h \in HookKey, NEW c \in Callback, removeCallback(h, c) PROVE HearersKnow'
    BY <1>4, <1>7 DEF removeCallback
  <1> QED  BY <1>1, <1>3, <1>5, <1>6, <1>7 DEF Hook

LEMMA HandlesHears ==
  ASSUME HInv, NEW t \in Task, NEW h \in HookKey, taskHandles(t, h)
  PROVE  ItemsFit' /\ HandFits' /\ HearersKnow'
  <1> USE DEF HInv
  <1>0. UNCHANGED <<mem_msg, wpc, item, keys, hooks, rpc, hand, tell, told>>
    BY DEF taskHandles, storeVars, writerVars, runnerVars
  <1>1. ItemsFit' /\ HandFits'  BY <1>0 DEF ItemsFit, WellFormed, HandFits, HeardKey
  <1>2. /\ \A y \in About(h) \cap Key : Knows(t, y)'
        /\ \A z \in Listener, y \in Key : Knows(z, y) => Knows(z, y)'
    BY <1>0, ReadingKnows DEF taskHandles, Listener
  <1>3. ASSUME NEW k \in Key, NEW l \in hooks'[HeardKey(k)']
        PROVE  (Pending(k) \/ Coming(l, k) \/ Knows(l, k))'
    <2>1. l \in hooks[HeardKey(k)]  BY <1>0, <1>3 DEF HeardKey
    <2>2. l \in Listener  BY <2>1, HeardKeyFits DEF TypeOK
    <2>3. Pending(k) => Pending(k)'  BY <1>0 DEF Pending, About
    <2>4. Coming(l, k) => Coming(l, k)' \/ Knows(l, k)'
      <3>1. CASE l = t /\ k \in About(h)  BY <1>2, <3>1
      <3>2. CASE ~(l = t /\ k \in About(h))
        BY <1>0, <3>2 DEF Coming, About, taskHandles, TypeOK
      <3> QED  BY <3>1, <3>2
    <2> QED  BY <1>2, <2>1, <2>2, <2>3, <2>4 DEF HearersKnow
  <1> QED  BY <1>1, <1>3 DEF HearersKnow

LEMMA PopHears ==
  ASSUME HInv, pop
  PROVE  ItemsFit' /\ HandFits' /\ HearersKnow'
  <1> USE DEF HInv, TypeOK
  <1>0. /\ keys # <<>> /\ rpc = "pop" /\ rpc' = "hooks"
        /\ hand' = Head(keys) /\ keys' = Tail(keys)
        /\ UNCHANGED <<mem_msg, wpc, item, hooks, tell, inbox, seen>>
    BY DEF pop, RGoto, runnerFrame, storeVars, writerVars, listenVars
  <1>1. \A k \in Key : told'[k] = IF k \in About(Head(keys).key) THEN Head(keys).flag ELSE told[k]
    BY DEF pop, Told
  <1>2. /\ Len(keys) \in Nat /\ Len(keys) > 0 /\ Len(keys') = Len(keys) - 1
        /\ Head(keys) = keys[1]
        /\ \A n \in 1 .. Len(keys') : keys'[n] = keys[n + 1]
    BY <1>0
  <1>3. ItemsFit'
    <2>1. \A n \in 1 .. Len(keys') : WellFormed(keys'[n])
      <3> TAKE n \in 1 .. Len(keys')
      <3>1. n + 1 \in 1 .. Len(keys)  BY <1>2
      <3> QED  BY <1>2, <3>1 DEF ItemsFit
    <2>2. WellFormed(hand')  BY <1>0, <1>2 DEF ItemsFit
    <2>3. \A w \in Writer : WellFormed(item'[w])  BY <1>0 DEF ItemsFit
    <2> QED  BY <2>1, <2>2, <2>3 DEF ItemsFit, WellFormed
  <1>4. HandFits'
    <2>1. WellFormed(Head(keys))  BY <1>2 DEF ItemsFit
    <2>2. ASSUME NEW k \in Key, k \in About(Head(keys).key) PROVE HeardKey(k)' = Head(keys).key
      <3>1. told'[k] = Head(keys).flag  BY <1>1, <2>2
      <3>2. Head(keys).key = Whole \/ Head(keys).key = k  BY <2>2 DEF About
      <3> QED  BY <2>1, <3>1, <3>2, KeyAssumption DEF HeardKey, WellFormed
    <2>3. \A k \in About(Head(keys).key) : k \in Key
      <3>1. Head(keys) \in Item  BY <1>2
      <3>2. Head(keys).key \in HookKey  BY <3>1 DEF Item
      <3> QED  BY <3>2 DEF About, HookKey
    <2> QED  BY <1>0, <2>2, <2>3 DEF HandFits, About
  <1>5. ASSUME NEW k \in Key, NEW l \in hooks'[HeardKey(k)']
        PROVE  (Pending(k) \/ Coming(l, k) \/ Knows(l, k))'
    <2>1. CASE k \in About(Head(keys).key)  BY <1>0, <2>1 DEF Coming, About
    <2>2. CASE k \notin About(Head(keys).key)
      <3>1. l \in hooks[HeardKey(k)]  BY <1>0, <1>1, <1>5, <2>2 DEF HeardKey
      <3>2. ASSUME Pending(k) PROVE Pending(k)'
        <4>1. CASE \E w \in Writer : wpc[w] = "notify" /\ k \in About(item[w].key)
          BY <1>0, <4>1 DEF Pending, About
        <4>2. CASE \E n \in 1 .. Len(keys) : k \in About(keys[n].key)
          <5>1. PICK n \in 1 .. Len(keys) : k \in About(keys[n].key)  BY <4>2
          <5>2. n # 1  BY <1>2, <2>2, <5>1
          <5>3. n - 1 \in 1 .. Len(keys') /\ keys'[n - 1] = keys[n]  BY <1>2, <5>2
          <5> QED  BY <5>1, <5>3 DEF Pending, About
        <4> QED  BY <3>2, <4>1, <4>2 DEF Pending
      <3>3. Coming(l, k) => Coming(l, k)'  BY <1>0 DEF Coming, About
      <3>4. Knows(l, k) => Knows(l, k)'  BY <1>0 DEF Knows
      <3> QED  BY <3>1, <3>2, <3>3, <3>4 DEF HearersKnow
    <2> QED  BY <2>1, <2>2
  <1> QED  BY <1>3, <1>4, <1>5 DEF HearersKnow

LEMMA RunnerHears ==
  ASSUME HInv, ThreadRunner
  PROVE  ItemsFit' /\ HandFits' /\ HearersKnow'
  <1> USE DEF HInv
  <1>1. CASE pop  BY <1>1, PopHears
  <1>2. CASE ~pop
    <2>0. /\ UNCHANGED <<mem_msg, wpc, item, keys, hooks, told>>
          /\ hand' \in {hand, NoItem}
          /\ rpc' # "hooks"
      BY <1>2 DEF TypeOK, ThreadRunner, runnerFrame, RGoto, storeVars, writerVars, runnerVars, loop, wait,
                  waitTimeout, check, nothing, copyHooks, tellTask, tellCallback, allTold
    <2>1. ItemsFit'
      <3>1. WellFormed(hand')  BY <2>0 DEF ItemsFit, WellFormed, NoItem
      <3> QED  BY <2>0, <3>1 DEF ItemsFit, WellFormed
    <2>2. HandFits'  BY <2>0 DEF HandFits
    <2>3. ASSUME NEW k \in Key, NEW l \in hooks'[HeardKey(k)']
          PROVE  (Pending(k) \/ Coming(l, k) \/ Knows(l, k))'
      <3>1. l \in hooks[HeardKey(k)]  BY <2>0, <2>3 DEF HeardKey
      <3>2. l \in Listener  BY <3>1, HeardKeyFits DEF TypeOK
      <3>3. Pending(k) => Pending(k)'  BY <2>0 DEF Pending, About
      <3>4. ASSUME Coming(l, k) \/ Knows(l, k) PROVE Coming(l, k)' \/ Knows(l, k)'
        <4>0. hand.key \in HookKey  BY DEF TypeOK, Item
        <4>1. CASE loop \/ wait \/ waitTimeout \/ check \/ nothing
          <5>1. rpc \notin {"hooks", "deliver"} /\ UNCHANGED <<inbox, seen, mem_msg>>
            BY <2>0, <4>1 DEF loop, wait, waitTimeout, check, nothing, listenVars
          <5> QED  BY <3>4, <5>1 DEF Coming, Knows
        <4>2. CASE copyHooks
          <5>0. /\ rpc = "hooks" /\ rpc' = "deliver" /\ tell' = hooks[hand.key]
                /\ UNCHANGED <<hand, inbox, seen, mem_msg>>
            BY <2>0, <4>2 DEF copyHooks, RGoto, listenVars
          <5>1. k \in About(hand.key) => l \in tell'  BY <3>1, <5>0 DEF HandFits
          <5> QED  BY <3>4, <5>0, <5>1 DEF Coming, Knows, About
        <4>3. ASSUME NEW t \in Task, tellTask(t) PROVE Coming(l, k)' \/ Knows(l, k)'
          <5>0. /\ rpc = "deliver" /\ rpc' = rpc /\ tell' = tell \ {t}
                /\ inbox' = [inbox EXCEPT ![t] = @ \cup {hand.key}]
                /\ UNCHANGED <<hand, seen, mem_msg>>
            BY <2>0, <4>3 DEF tellTask
          <5>1. CASE l = t /\ k \in About(hand.key)
            <6>1. hand.key \in inbox'[l]  BY <5>0, <5>1 DEF TypeOK
            <6> QED  BY <5>1, <6>1 DEF Coming, About
          <5>2. CASE ~(l = t /\ k \in About(hand.key))
            <6>1. l \in Task => inbox[l] \subseteq inbox'[l]  BY <5>0 DEF TypeOK
            <6> QED  BY <3>4, <5>0, <5>2, <6>1 DEF Coming, Knows, About
          <5> QED  BY <5>1, <5>2
        <4>4. ASSUME NEW c \in Callback, tellCallback(c) PROVE Coming(l, k)' \/ Knows(l, k)'
          <5>0. /\ rpc = "deliver" /\ rpc' = rpc /\ tell' = tell \ {c} /\ Reads(c, hand.key)
                /\ UNCHANGED <<hand, inbox, mem_msg>>
            BY <2>0, <4>4 DEF tellCallback
          <5>1. /\ \A y \in About(hand.key) \cap Key : Knows(c, y)'
                /\ \A z \in Listener, y \in Key : Knows(z, y) => Knows(z, y)'
            BY <4>0, <5>0, ReadingKnows DEF Listener
          <5>2. CASE l = c /\ k \in About(hand.key)  BY <5>1, <5>2
          <5>3. CASE ~(l = c /\ k \in About(hand.key))
            BY <3>2, <3>4, <5>0, <5>1, <5>3 DEF Coming, About
          <5> QED  BY <5>2, <5>3
        <4>5. CASE allTold
          <5>1. rpc = "deliver" /\ tell = {} /\ UNCHANGED <<inbox, seen, mem_msg>>
            BY <2>0, <4>5 DEF allTold, listenVars
          <5> QED  BY <3>4, <5>1 DEF Coming, Knows
        <4> QED  BY <1>2, <4>1, <4>2, <4>3, <4>4, <4>5 DEF ThreadRunner
      <3> QED  BY <3>1, <3>3, <3>4 DEF HearersKnow
    <2> QED  BY <2>1, <2>2, <2>3 DEF HearersKnow
  <1> QED  BY <1>1, <1>2

LEMMA HearsStep ==
  ASSUME HInv, [Next]_vars
  PROVE  ItemsFit' /\ HandFits' /\ HearersKnow'
  <1>1. CASE Stop \/ UNCHANGED vars
    <2>1. UNCHANGED <<mem_msg, wpc, item, keys, hooks, rpc, hand, tell, inbox, seen, told>>
      BY <1>1 DEF vars, Stop, stopPost, stopClear, stopJoin, stopFrame, storeVars, writerVars,
                  runnerVars, listenVars
    <2>2. ItemsFit' /\ HandFits'  BY <2>1 DEF HInv, ItemsFit, WellFormed, HandFits, HeardKey
    <2>3. HearersKnow'
      BY <2>1 DEF HInv, HearersKnow, HeardKey, Pending, Coming, Knows, About
    <2> QED  BY <2>2, <2>3
  <1> QED
    BY <1>1, WriteHears, AnnounceHears, HookHears, HandlesHears, RunnerHears DEF Next

\* A listener that reads again whenever it is told knows the store when all is
\* quiet, for any number of writers, keys, values and listeners.
THEOREM ListenersConverge == Spec => []ListenerConverges
<1>1. Init => ItemsFit /\ HandFits /\ HearersKnow
  BY DEF Init, ItemsFit, WellFormed, NoItem, HandFits, HearersKnow, HeardKey, HookKey
<1>2. TypeOK /\ ItemsFit /\ HandFits /\ HearersKnow /\ [Next]_vars
        => (ItemsFit /\ HandFits /\ HearersKnow)'
  BY HearsStep DEF HInv
<1>3. TypeOK /\ HearersKnow => ListenerConverges
  <2> SUFFICES ASSUME TypeOK, HearersKnow, Quiet, NEW k \in Key, NEW l \in Hearers(k)
               PROVE  seen[l][k] = mem_msg[k]
    BY DEF ListenerConverges
  <2>1. l \in hooks[HeardKey(k)]  BY DEF Hearers, HeardKey
  <2>2. ~Pending(k)  BY DEF Quiet, Pending
  <2>3. ~Coming(l, k)  BY DEF Quiet, Coming
  <2> QED  BY <2>1, <2>2, <2>3 DEF HearersKnow, Knows
<1> QED
  BY <1>1, <1>2, <1>3, TypeCorrect, PTL DEF Spec

-----------------------------------------------------------------------------
(* Flags *)

\* What flag f says of the key k is so.
Right(k, f) ==
  /\ f \in {"removed", "cleared"} => mem_msg[k] = Absent
  /\ f = "updated" => mem_msg[k] # Absent
  /\ f = "new" => mem_msg[k] # Absent \/ k \in hollow

\* w has changed k and not queued its announcement; the n-th announcement in the
\* queue is the last about k.
Notifying(w, k) == wpc[w] = "notify" /\ k \in About(item[w].key)
LastOf(n, k) == /\ k \in About(keys[n].key)
                /\ \A m \in 1 .. Len(keys) : n < m => k \notin About(keys[m].key)

\* The last announcement about an unraced key is right: it is its only writer's, if
\* one has not queued it yet, or the last in the queue, or the last one made.
FlagRight(k) ==
  /\ \A v, w \in Writer : Notifying(v, k) /\ Notifying(w, k) => v = w
  /\ \A w \in Writer : Notifying(w, k) => Right(k, item[w].flag)
  /\ (\A w \in Writer : ~Notifying(w, k)) =>
       \A n \in 1 .. Len(keys) : LastOf(n, k) => Right(k, keys[n].flag)
  /\ ~Pending(k) => Right(k, told[k])
FlagsFit == \A k \in Key \ raced : FlagRight(k)

\* A change whose flag is right about the keys it is announced for.
LEMMA ChangeFlags ==
  ASSUME TypeOK, FlagsFit, NEW w \in Writer, NEW m, NEW i \in Item,
         NEW h \in SUBSET About(i.key), Change(w, m, i, h),
         \A k \in Key \ About(i.key) : m[k] = mem_msg[k],
         \A k \in Key \cap About(i.key) :
           /\ i.flag \in {"removed", "cleared"} => m[k] = Absent
           /\ i.flag = "updated" => m[k] # Absent
           /\ i.flag = "new" => m[k] # Absent \/ k \in h
  PROVE  FlagsFit'
<1>1. /\ wpc[w] = "idle" /\ wpc' = [wpc EXCEPT ![w] = "notify"]
      /\ item' = [item EXCEPT ![w] = i] /\ mem_msg' = m
      /\ raced' = (raced \ About(i.key)) \cup Racing(w, i.key)
      /\ hollow' = (hollow \ About(i.key)) \cup h
      /\ UNCHANGED <<keys, told>>
      BY DEF Change
<1>2. /\ \A v \in Writer \ {w} : wpc'[v] = wpc[v] /\ item'[v] = item[v]
      /\ wpc'[w] = "notify" /\ item'[w] = i
      BY <1>1 DEF TypeOK
<1>3. SUFFICES ASSUME NEW k \in Key \ raced'
               PROVE  FlagRight(k)'
      BY DEF FlagsFit
<1>4. /\ \A v \in Writer \ {w} : Notifying(v, k)' <=> Notifying(v, k)
      /\ Notifying(w, k)' <=> k \in About(i.key)
      /\ ~Notifying(w, k)
      BY <1>1, <1>2 DEF Notifying, About
<1>5. CASE k \in About(i.key)
  <2>1. \A v \in Writer \ {w} : ~Notifying(v, k)
        BY <1>1, <1>3, <1>5 DEF Racing, Notifying
  <2>2. Pending(k)'
        BY <1>4, <1>5 DEF Pending, Notifying
  <2>3. Right(k, i.flag)'
        BY <1>1, <1>5 DEF Right
  <2>4. \A v \in Writer : Notifying(v, k)' <=> v = w
        BY <1>4, <1>5, <2>1
  <2>5. \A v \in Writer : Notifying(v, k)' => Right(k, item[v].flag)'
        BY <1>2, <2>3, <2>4 DEF Right
  <2> QED
    BY <2>2, <2>4, <2>5 DEF FlagRight
<1>6. CASE k \notin About(i.key)
  <2>1. k \notin raced /\ mem_msg'[k] = mem_msg[k] /\ (k \in hollow' <=> k \in hollow)
        BY <1>1, <1>3, <1>6
  <2>2. \A v \in Writer : (Notifying(v, k)' <=> Notifying(v, k))
                          /\ (Notifying(v, k) => item'[v] = item[v])
        BY <1>2, <1>4, <1>6
  <2>3. Pending(k)' <=> Pending(k)
        BY <1>1, <2>2 DEF Pending, Notifying, About
  <2>4. FlagRight(k)
        BY <2>1 DEF FlagsFit
  <2> QED
    BY <1>1, <2>1, <2>2, <2>3, <2>4 DEF FlagRight, LastOf, Right, About
<1> QED
  BY <1>5, <1>6

LEMMA WriteFlags ==
  ASSUME TypeOK, FlagsFit, NEW w \in Writer, Write(w)
  PROVE  FlagsFit'
<1>1. ASSUME NEW k \in Key, NEW v \in Value \cup {Absent}, com_mem_set(w, k, v)
      PROVE  FlagsFit'
  <2> DEFINE i == [key |-> k, flag |-> IF k \in Keys THEN "updated" ELSE "new"]
             m == IF v = Absent THEN mem_msg ELSE [mem_msg EXCEPT ![k] = v]
             h == IF v = Absent THEN {k} \ Keys ELSE {}
  <2>1. /\ i \in Item /\ About(i.key) = {k} /\ h \in SUBSET {k}
        /\ i.flag = IF k \in Keys THEN "updated" ELSE "new"
        BY KeyAssumption DEF Item, HookKey, Flag, About
  <2>2. /\ \A x \in Key \ {k} : m[x] = mem_msg[x]
        /\ k \in Keys => m[k] # Absent
        /\ k \notin Keys => m[k] # Absent \/ k \in h
        BY KeyAssumption DEF TypeOK, Content, Keys
  <2>3. Change(w, m, i, h)
        BY <1>1 DEF com_mem_set
  <2>4. /\ \A x \in Key \ About(i.key) : m[x] = mem_msg[x]
        /\ \A x \in Key \cap About(i.key) :
             /\ i.flag \in {"removed", "cleared"} => m[x] = Absent
             /\ i.flag = "updated" => m[x] # Absent
             /\ i.flag = "new" => m[x] # Absent \/ x \in h
    <3> HIDE DEF i, m, h
    <3> QED  BY <2>1, <2>2
  <2> HIDE DEF i, m, h
  <2> QED
    BY <2>1, <2>3, <2>4, ChangeFlags
<1>2. ASSUME NEW k \in Key, com_mem_remove(w, k)
      PROVE  FlagsFit'
  <2> DEFINE i == [key |-> k, flag |-> "removed"]
             m == [mem_msg EXCEPT ![k] = Absent]
  <2>1. i \in Item /\ i.flag = "removed" /\ About(i.key) = {k}
        BY KeyAssumption DEF Item, HookKey, Flag, About
  <2>2. m[k] = Absent /\ \A x \in Key \ {k} : m[x] = mem_msg[x]
        BY DEF TypeOK, Content
  <2> QED
    BY <1>2, <2>1, <2>2, ChangeFlags DEF com_mem_remove
<1>3. CASE com_mem_clear(w)
  <2> DEFINE i == [key |-> Whole, flag |-> "cleared"]
             m == [k \in Key |-> Absent]
  <2>1. i \in Item /\ i.flag = "cleared" /\ About(i.key) = Key
        BY DEF Item, HookKey, Flag, About
  <2> QED
    BY <1>3, <2>1, ChangeFlags DEF com_mem_clear
<1>4. ASSUME NEW m \in ReloadTo, Change(w, m, [key |-> Whole, flag |-> "reload"], {})
      PROVE  FlagsFit'
  <2> DEFINE i == [key |-> Whole, flag |-> "reload"]
  <2>1. i \in Item /\ i.flag = "reload" /\ About(i.key) = Key
        BY DEF Item, HookKey, Flag, About
  <2> QED
    BY <1>4, <2>1, ChangeFlags
<1> QED
  BY <1>1, <1>2, <1>3, <1>4 DEF Write, reload

LEMMA PushFlags ==
  ASSUME TypeOK, FlagsFit, NEW w \in Writer, pushKey(w)
  PROVE  FlagsFit'
<1>1. /\ wpc[w] = "notify" /\ wpc' = [wpc EXCEPT ![w] = "post"]
      /\ keys' = Append(keys, item[w]) /\ item' = [item EXCEPT ![w] = NoItem]
      /\ UNCHANGED <<mem_msg, raced, hollow, told>>
      BY DEF pushKey, storeVars
<1>2. /\ Len(keys) \in Nat /\ Len(keys') = Len(keys) + 1
      /\ \A n \in 1 .. Len(keys) : keys'[n] = keys[n]
      /\ keys'[Len(keys) + 1] = item[w]
      BY <1>1 DEF TypeOK
<1>3. SUFFICES ASSUME NEW k \in Key \ raced
               PROVE  FlagRight(k)'
      BY <1>1 DEF FlagsFit
<1>4. FlagRight(k)
      BY DEF FlagsFit
<1>5. /\ ~Notifying(w, k)'
      /\ \A v \in Writer \ {w} : (Notifying(v, k)' <=> Notifying(v, k)) /\ item'[v] = item[v]
      BY <1>1 DEF TypeOK, Notifying, About
<1>6. CASE Notifying(w, k)
  <2>1. \A v \in Writer : ~Notifying(v, k)'
        BY <1>4, <1>5, <1>6 DEF FlagRight
  <2>2. Right(k, item[w].flag) /\ k \in About(item[w].key)
        BY <1>4, <1>6 DEF FlagRight, Notifying
  <2>3. ASSUME NEW n \in 1 .. Len(keys'), LastOf(n, k)'
        PROVE  Right(k, keys'[n].flag)
    <3>1. k \in About(keys'[Len(keys) + 1].key)
          BY <1>2, <2>2
    <3>2. ~(n < Len(keys) + 1)
          BY <1>2, <2>3, <3>1 DEF LastOf, About
    <3>3. n = Len(keys) + 1
          BY <1>2, <3>2
    <3> QED
      BY <1>2, <2>2, <3>3
  <2>4. Pending(k)'
    <3>1. Len(keys) + 1 \in 1 .. Len(keys') /\ k \in About(keys'[Len(keys) + 1].key)
          BY <1>2, <2>2
    <3> QED
      BY <3>1 DEF Pending, About
  <2> QED
    BY <1>1, <2>1, <2>3, <2>4 DEF FlagRight, Right
<1>7. CASE ~Notifying(w, k)
  <2>1. k \notin About(item[w].key)
        BY <1>1, <1>7 DEF Notifying
  <2>2. \A v \in Writer : /\ Notifying(v, k)' <=> Notifying(v, k)
                          /\ Notifying(v, k) => item'[v] = item[v]
        BY <1>5, <1>7
  <2>3. \A n \in 1 .. Len(keys') :
          k \in About(keys'[n].key) => n \in 1 .. Len(keys) /\ keys'[n] = keys[n]
        BY <1>2, <2>1
  <2>4. Pending(k)' <=> Pending(k)
    <3>1. \A n \in 1 .. Len(keys) : n \in 1 .. Len(keys') /\ keys'[n] = keys[n]
          BY <1>2
    <3> QED
      BY <2>2, <2>3, <3>1 DEF Pending, Notifying, About
  <2>5. \A n \in 1 .. Len(keys') : LastOf(n, k)' =>
          n \in 1 .. Len(keys) /\ keys'[n] = keys[n] /\ LastOf(n, k)
    <3> SUFFICES ASSUME NEW n \in 1 .. Len(keys'), LastOf(n, k)'
                 PROVE  n \in 1 .. Len(keys) /\ keys'[n] = keys[n] /\ LastOf(n, k)
        OBVIOUS
    <3>1. n \in 1 .. Len(keys) /\ keys'[n] = keys[n] /\ k \in About(keys[n].key)
          BY <2>3 DEF LastOf, About
    <3>2. \A m \in 1 .. Len(keys) : m \in 1 .. Len(keys') /\ keys'[m] = keys[m]
          BY <1>2
    <3> QED
      BY <3>1, <3>2 DEF LastOf, About
  <2> QED
    BY <1>1, <1>4, <2>2, <2>4, <2>5 DEF FlagRight, Right
<1> QED
  BY <1>6, <1>7

LEMMA PopFlags ==
  ASSUME TypeOK, FlagsFit, pop
  PROVE  FlagsFit'
<1>1. /\ keys # <<>> /\ keys' = Tail(keys)
      /\ \A k \in Key : told'[k] = IF k \in About(Head(keys).key) THEN Head(keys).flag ELSE told[k]
      /\ UNCHANGED <<mem_msg, raced, hollow, wpc, item>>
      BY DEF pop, Told, runnerFrame, storeVars, writerVars
<1>2. /\ Len(keys) \in Nat /\ Len(keys) > 0 /\ Len(keys') = Len(keys) - 1
      /\ Head(keys) = keys[1]
      /\ \A n \in 1 .. Len(keys') : keys'[n] = keys[n + 1]
      BY <1>1 DEF TypeOK
<1>3. SUFFICES ASSUME NEW k \in Key \ raced
               PROVE  FlagRight(k)'
      BY <1>1 DEF FlagsFit
<1>4. FlagRight(k)
      BY DEF FlagsFit
<1>5. /\ \A w \in Writer : Notifying(w, k)' <=> Notifying(w, k)
      /\ \A f : Right(k, f)' <=> Right(k, f)
      BY <1>1 DEF Notifying, Right, About
<1>6. \A n \in 1 .. Len(keys') : LastOf(n, k)' => n + 1 \in 1 .. Len(keys) /\ LastOf(n + 1, k)
  <2> SUFFICES ASSUME NEW n \in 1 .. Len(keys'), LastOf(n, k)'
               PROVE  n + 1 \in 1 .. Len(keys) /\ LastOf(n + 1, k)
      OBVIOUS
  <2>1. n + 1 \in 1 .. Len(keys) /\ k \in About(keys[n + 1].key)
        BY <1>2 DEF LastOf, About
  <2>2. ASSUME NEW m \in 1 .. Len(keys), n + 1 < m
        PROVE  k \notin About(keys[m].key)
    <3>1. m - 1 \in 1 .. Len(keys') /\ n < m - 1 /\ keys'[m - 1] = keys[m]
          BY <1>2, <2>2
    <3> QED
      BY <3>1 DEF LastOf, About
  <2> QED
    BY <2>1, <2>2 DEF LastOf
<1>7. ASSUME ~Pending(k)'
      PROVE  Right(k, told'[k])
  <2>1. /\ \A w \in Writer : ~Notifying(w, k)
        /\ \A n \in 1 .. Len(keys') : k \notin About(keys'[n].key)
        BY <1>5, <1>7 DEF Pending, Notifying, About
  <2>2. \A m \in 1 .. Len(keys) : 1 < m => k \notin About(keys[m].key)
    <3> SUFFICES ASSUME NEW m \in 1 .. Len(keys), 1 < m
                 PROVE  k \notin About(keys[m].key)
        OBVIOUS
    <3>1. m - 1 \in 1 .. Len(keys') /\ keys'[m - 1] = keys[m]
          BY <1>2
    <3> QED
      BY <2>1, <3>1
  <2>3. 1 \in 1 .. Len(keys)
        BY <1>2
  <2>4. CASE k \in About(Head(keys).key)
    <3>1. LastOf(1, k)
          BY <1>2, <2>2, <2>4 DEF LastOf
    <3> QED
      BY <1>1, <1>2, <1>4, <2>1, <2>3, <2>4, <3>1 DEF FlagRight
  <2>5. CASE k \notin About(Head(keys).key)
    <3>1. \A m \in 1 .. Len(keys) : k \notin About(keys[m].key)
      <4>1. \A m \in 1 .. Len(keys) : m = 1 \/ 1 < m
            OBVIOUS
      <4> QED
        BY <1>2, <2>2, <2>5, <4>1
    <3>2. ~Pending(k)
          BY <2>1, <3>1 DEF Pending, Notifying
    <3> QED
      BY <1>1, <1>4, <2>5, <3>2 DEF FlagRight
  <2> QED
    BY <2>4, <2>5
<1> QED
  BY <1>1, <1>2, <1>4, <1>5, <1>6, <1>7 DEF FlagRight

LEMMA FlagsStep ==
  ASSUME TypeOK, FlagsFit, [Next]_vars
  PROVE  FlagsFit'
<1>1. CASE \/ \E w \in Writer : postKey(w)
           \/ Hook \/ Stop \/ UNCHANGED vars
           \/ \E t \in Task, k \in HookKey : taskHandles(t, k)
           \/ ThreadRunner /\ ~pop
  <2>1. UNCHANGED <<mem_msg, raced, hollow, item, keys, told>>
        BY <1>1
        DEF postKey, Hook, addListener, removeListeners, removeTask, removeCallback, hooksFrame,
            Stop, stopPost, stopClear, stopJoin, stopFrame, vars, taskHandles, ThreadRunner,
            runnerFrame, loop, wait, waitTimeout, check, nothing, copyHooks, tellTask,
            tellCallback, allTold, storeVars, writerVars
  <2>2. \A w \in Writer : wpc'[w] = "notify" <=> wpc[w] = "notify"
        BY <1>1
        DEF TypeOK, postKey, Hook, addListener, removeListeners, removeTask, removeCallback,
            hooksFrame, Stop, stopPost, stopClear, stopJoin, stopFrame, vars, taskHandles,
            ThreadRunner, runnerFrame, loop, wait, waitTimeout, check, nothing, copyHooks,
            tellTask, tellCallback, allTold, writerVars
  <2> QED
    BY <2>1, <2>2 DEF FlagsFit, FlagRight, Notifying, LastOf, Pending, Right, About
<1> QED
  BY <1>1, WriteFlags, PushFlags, PopFlags DEF Next, Announce

\* A listener that goes by the flags alone is right about which keys exist, for any
\* number of writers, unless two of them announced a key in the other order or one
\* set a missing key to nothing, which stores none and is announced as new.
THEOREM FlagsAreTrue == Spec => []FlagsTellExistence
<1>1. Init => FlagsFit
  <2> SUFFICES ASSUME Init, NEW k \in Key
               PROVE  FlagRight(k)
      BY DEF FlagsFit
  <2>1. /\ \A w \in Writer : ~Notifying(w, k)
        /\ 1 .. Len(keys) = {}
        BY DEF Init, Notifying
  <2>2. Right(k, told[k])
        BY DEF Init, Right
  <2> QED
    BY <2>1, <2>2 DEF FlagRight
<1>2. TypeOK /\ FlagsFit /\ [Next]_vars => FlagsFit'
      BY FlagsStep
<1>3. FlagsFit => FlagsTellExistence
  <2> SUFFICES ASSUME FlagsFit, Quiet, NEW k \in Key \ raced
               PROVE  Right(k, told[k])
      BY DEF FlagsTellExistence, Right, Keys
  <2>1. ~Pending(k)
        BY DEF Quiet, Pending
  <2> QED
    BY <2>1 DEF FlagsFit, FlagRight
<1> QED
  BY <1>1, <1>2, <1>3, TypeCorrect, PTL DEF Spec

-----------------------------------------------------------------------------
(* com_kv: the rows *)

\* A set of numbers that is not empty has a least one.
LEMMA Least ==
  ASSUME NEW S \in SUBSET Nat, S # {}
  PROVE  \E n \in S : \A m \in S : n <= m
<1> DEFINE R == OpToRel(<, Nat)
<1>1. IsWellFoundedOn(R, Nat)
      BY NatLessThanWellFounded, Zenon
<1>2. \A x, y \in Nat : x < y => <<x, y>> \in R
      BY Zenon DEF OpToRel
<1> HIDE DEF R
<1>3. PICK n \in S : \A m \in S : <<m, n>> \notin R
      BY <1>1, WFMin
<1>4. \A m \in S : m \in Nat /\ n \in Nat /\ ~(m < n)
      BY <1>2, <1>3
<1> QED
  BY <1>4

Table == [id : [KvKey -> 0 .. MaxId], data : [KvKey -> {v1, Empty, Absent}], seq : 0 .. MaxId]

\* The keys that have data have an id, each its own.
Good(r) ==
  /\ r \in Table
  /\ \A k \in KvKey : r.data[k] = Absent <=> r.id[k] = 0
  /\ \A j, k \in KvKey : r.id[j] = r.id[k] /\ r.id[j] # 0 => j = k

LEMMA FileConstants ==
  /\ ColumnKey \subseteq KvKey /\ \A k \in KvKey : KvStored[k] \subseteq {v1, Empty}
  /\ Absent \notin {v1, Empty} /\ Nobody \notin Caller
  /\ IsFiniteSet(KvKey) /\ MaxId \in Nat
<1> QED
  BY KvAssumption DEF F!KvConstants, F!IsFiniteSet, IsFiniteSet

\* The id of a new row is above all others.
LEMMA NewIdIsLargest ==
  ASSUME NEW r, Good(r), NEW k \in KvKey
  PROVE  /\ F!newId(r) \in Nat /\ F!newId(r) > 0 /\ F!newId(r) > r.seq
         /\ \A j \in KvKey : r.id[j] < F!newId(r)
<1>1. /\ \A j \in KvKey : r.id[j] \in 0 .. MaxId
      /\ r.seq \in Nat /\ MaxId \in Nat
      BY FileConstants DEF Good, Table
<1> DEFINE S == {MaxId - r.id[j] : j \in KvKey}
<1>2. S \in SUBSET Nat /\ S # {}
      BY <1>1
<1>3. PICK n \in S : \A m \in S : n <= m
      BY <1>2, Least
<1>4. PICK j \in KvKey : n = MaxId - r.id[j]
      BY <1>3
<1>5. \A i \in KvKey : r.id[i] <= r.id[j]
  <2> TAKE i \in KvKey
  <2>1. n <= MaxId - r.id[i]
        BY <1>3
  <2> QED
    BY <1>1, <1>4, <2>1
<1>6. PICK x : x = F!Largest(r)
      OBVIOUS
<1>7. x \in {r.id[i] : i \in KvKey} /\ \A i \in KvKey : r.id[i] <= x
      BY <1>5, <1>6 DEF F!Largest
<1>8. x \in Nat
      BY <1>1, <1>7
<1>9. F!newId(r) = 1 + (IF x > r.seq THEN x ELSE r.seq)
      BY <1>6 DEF F!newId
<1> QED
  BY <1>1, <1>7, <1>8, <1>9

\* A key that is set goes to the end of the queue.
LEMMA ReplacePuts ==
  ASSUME NEW r, Good(r), NEW k \in KvKey, NEW v \in {v1, Empty}, F!newId(r) <= MaxId
  PROVE  /\ Good(F!replaceInto(r, k, v))
         /\ F!InIdOrder(F!replaceInto(r, k, v)) = F!Queue!Put(F!InIdOrder(r), k, v)
<1>1. PICK n, t : n = F!newId(r) /\ t = F!replaceInto(r, k, v)
      OBVIOUS
<1>2. /\ n \in 0 .. MaxId /\ n > 0 /\ n > r.seq
      /\ \A j \in KvKey : r.id[j] < n
      BY <1>1, NewIdIsLargest, FileConstants
<1>3. r \in Table /\ v # Absent /\ MaxId \in Nat
      BY FileConstants DEF Good
<1>4. /\ t = [id |-> [r.id EXCEPT ![k] = n], data |-> [r.data EXCEPT ![k] = v], seq |-> n]
      BY <1>1 DEF F!replaceInto
<1>5. /\ t \in Table /\ t.id[k] = n /\ t.data[k] = v
      /\ \A j \in KvKey \ {k} : t.id[j] = r.id[j] /\ t.data[j] = r.data[j]
      /\ t.data = [r.data EXCEPT ![k] = v]
      BY <1>2, <1>3, <1>4 DEF Table
<1>6. Good(t)
  <2>1. \A j \in KvKey : t.data[j] = Absent <=> t.id[j] = 0
        BY <1>2, <1>3, <1>5 DEF Good
  <2>2. \A j, i \in KvKey : t.id[j] = t.id[i] /\ t.id[j] # 0 => j = i
        BY <1>2, <1>3, <1>5 DEF Good
  <2> QED
    BY <1>5, <2>1, <2>2 DEF Good
<1>7. F!Rows(t) = F!Rows(r) \cup {k} /\ F!Rows(r) \subseteq KvKey
      BY <1>3, <1>5 DEF F!Rows
<1>8. {p \in F!Rows(t) \X F!Rows(t) : t.id[p[1]] < t.id[p[2]]}
        = {p \in {p \in F!Rows(r) \X F!Rows(r) : r.id[p[1]] < r.id[p[2]]} : k \notin {p[1], p[2]}}
          \cup {<<x, k>> : x \in F!Rows(r) \ {k}}
  <2>1. \A x, y \in F!Rows(t) :
          t.id[x] < t.id[y] <=>
            \/ x # k /\ y # k /\ r.id[x] < r.id[y]
            \/ x # k /\ y = k
    <3> TAKE x, y \in F!Rows(t)
    <3>1. /\ x \in KvKey /\ y \in KvKey
          /\ r.id[x] \in Nat /\ r.id[y] \in Nat /\ r.id[x] < n /\ r.id[y] < n
          BY <1>2, <1>3, <1>7 DEF Table
    <3> QED
      BY <1>2, <1>5, <3>1
  <2> QED
    BY <1>7, <2>1
<1>9. F!Queue!Present(F!InIdOrder(r)) = F!Rows(r)
      BY DEF F!Queue!Present, F!InIdOrder, F!Rows
<1>10. F!InIdOrder(t) = F!Queue!Put(F!InIdOrder(r), k, v)
  <2>1. F!Queue!Put(F!InIdOrder(r), k, v) =
          [data |-> [r.data EXCEPT ![k] = v],
           before |-> {p \in {p \in F!Rows(r) \X F!Rows(r) : r.id[p[1]] < r.id[p[2]]} :
                         k \notin {p[1], p[2]}}
                      \cup {<<x, k>> : x \in F!Rows(r) \ {k}}]
        BY <1>9 DEF F!Queue!Put, F!InIdOrder
  <2>2. F!InIdOrder(t) =
          [data |-> t.data,
           before |-> {p \in F!Rows(t) \X F!Rows(t) : t.id[p[1]] < t.id[p[2]]}]
        BY DEF F!InIdOrder
  <2> QED
    BY <1>5, <1>8, <2>1, <2>2
<1> QED
  BY <1>1, <1>6, <1>10

\* Rows that go leave the order of the others alone.
LEMMA DeleteDrops ==
  ASSUME NEW r, Good(r), NEW S
  PROVE  /\ Good(F!deleteFrom(r, S))
         /\ F!InIdOrder(F!deleteFrom(r, S)) = F!Queue!Drop(F!InIdOrder(r), S)
<1>1. PICK t : t = F!deleteFrom(r, S)
      OBVIOUS
<1>2. r \in Table /\ MaxId \in Nat
      BY FileConstants DEF Good
<1>3. /\ t.id = [k \in KvKey |-> IF k \in S THEN 0 ELSE r.id[k]]
      /\ t.data = [k \in KvKey |-> IF k \in S THEN Absent ELSE r.data[k]]
      /\ t \in Table
  <2>1. PICK i, d : /\ i = [k \in KvKey |-> IF k \in S THEN 0 ELSE r.id[k]]
                    /\ d = [k \in KvKey |-> IF k \in S THEN Absent ELSE r.data[k]]
        OBVIOUS
  <2>2. i \in [KvKey -> 0 .. MaxId] /\ d \in [KvKey -> {v1, Empty, Absent}]
        BY <1>2, <2>1 DEF Table
  <2>3. t = [r EXCEPT !.id = i, !.data = d]
        BY <1>1, <2>1 DEF F!deleteFrom
  <2> QED
    BY <1>2, <2>1, <2>2, <2>3 DEF Table
<1>4. \A k \in KvKey : /\ t.id[k] = IF k \in S THEN 0 ELSE r.id[k]
                       /\ t.data[k] = IF k \in S THEN Absent ELSE r.data[k]
      BY <1>3
<1>5. Good(t)
      BY <1>3, <1>4 DEF Good
<1>6. F!Rows(t) = F!Rows(r) \ S /\ F!Rows(r) \subseteq KvKey
      BY <1>4 DEF F!Rows
<1>7. {p \in F!Rows(t) \X F!Rows(t) : t.id[p[1]] < t.id[p[2]]}
        = {p \in {p \in F!Rows(r) \X F!Rows(r) : r.id[p[1]] < r.id[p[2]]} :
             p[1] \notin S /\ p[2] \notin S}
      BY <1>4, <1>6
<1>8. F!Queue!Drop(F!InIdOrder(r), S) =
        [data |-> [k \in KvKey |-> IF k \in S THEN Absent ELSE r.data[k]],
         before |-> {p \in {p \in F!Rows(r) \X F!Rows(r) : r.id[p[1]] < r.id[p[2]]} :
                       p[1] \notin S /\ p[2] \notin S}]
      BY DEF F!Queue!Drop, F!InIdOrder
<1>9. F!InIdOrder(t) =
        [data |-> t.data,
         before |-> {p \in F!Rows(t) \X F!Rows(t) : t.id[p[1]] < t.id[p[2]]}]
      BY DEF F!InIdOrder
<1> QED
  BY <1>1, <1>3, <1>5, <1>7, <1>8, <1>9

LEMMA RowsArePresent ==
  ASSUME NEW r
  PROVE  /\ F!Queue!Present(F!InIdOrder(r)) = F!Rows(r)
         /\ \A k : F!Queue!Meant(F!InIdOrder(r), k) = F!where(r, k)
         /\ F!InIdOrder(r).data = r.data
<1>1. F!InIdOrder(r).data = r.data
      BY DEF F!InIdOrder
<1>2. F!Queue!Present(F!InIdOrder(r)) = F!Rows(r)
      BY <1>1 DEF F!Queue!Present, F!Rows
<1> QED
  BY <1>1, <1>2 DEF F!Queue!Meant, F!where

\* The modules that are put together count sets in the same way.
LEMMA SameCount ==
  ASSUME NEW S
  PROVE  F!Cardinality(S) = Cardinality(S) /\ F!Queue!Cardinality(S) = Cardinality(S)
<1>1. F!Cardinality(S) = Cardinality(S)
      BY DEF F!Cardinality, Cardinality
<1>2. F!Queue!Cardinality(S) = Cardinality(S)
      BY DEF F!Queue!Cardinality, Cardinality
<1> QED
  BY <1>1, <1>2

\* Two ways of counting: the rows of T below or above k, and the pairs of k with them.
LEMMA PairsCount ==
  ASSUME NEW T \in SUBSET KvKey, NEW k, NEW B,
         \/ \A p : p \in B <=> \E x \in T : p = <<x, k>>
         \/ \A p : p \in B <=> \E x \in T : p = <<k, x>>
  PROVE  Cardinality(B) = Cardinality(T) /\ Cardinality(T) \in Nat /\ IsFiniteSet(T)
<1>1. IsFiniteSet(T) /\ Cardinality(T) \in Nat
      BY FileConstants, FS_Subset, FS_CardinalityType
<1>2. CASE \A p : p \in B <=> \E x \in T : p = <<x, k>>
  <2> DEFINE f == [x \in T |-> <<x, k>>]
  <2>1. f \in [T -> B] /\ \A x, y \in T : f[x] = f[y] => x = y
        BY <1>2
  <2>2. \A b \in B : \E x \in T : f[x] = b
        BY <1>2
  <2> HIDE DEF f
  <2>3. f \in Bijection(T, B)
        BY <2>1, <2>2 DEF Bijection, Injection, Surjection, IsInjective
  <2> QED
    BY <1>1, <2>3, FS_Bijection DEF ExistsBijection
<1>3. CASE \A p : p \in B <=> \E x \in T : p = <<k, x>>
  <2> DEFINE f == [x \in T |-> <<k, x>>]
  <2>1. f \in [T -> B] /\ \A x, y \in T : f[x] = f[y] => x = y
        BY <1>3
  <2>2. \A b \in B : \E x \in T : f[x] = b
        BY <1>3
  <2> HIDE DEF f
  <2>3. f \in Bijection(T, B)
        BY <2>1, <2>2 DEF Bijection, Injection, Surjection, IsInjective
  <2> QED
    BY <1>1, <2>3, FS_Bijection DEF ExistsBijection
<1> QED
  BY <1>2, <1>3

\* ORDER BY id LIMIT n finds the first n of the queue, or with DESC the last.
LEMMA SomeAreFrontOrBack ==
  ASSUME NEW r, NEW n
  PROVE  /\ F!firstRows(r, n) = F!Queue!Front(F!InIdOrder(r), n)
         /\ F!lastRows(r, n) = F!Queue!Back(F!InIdOrder(r), n)
<1>1. PICK l : l = F!InIdOrder(r)
      OBVIOUS
<1>2. /\ l.before = {p \in F!Rows(r) \X F!Rows(r) : r.id[p[1]] < r.id[p[2]]}
      /\ F!Queue!Present(l) = F!Rows(r) /\ F!Rows(r) \subseteq KvKey
      BY <1>1, RowsArePresent DEF F!InIdOrder, F!Rows
<1>3. ASSUME NEW k \in F!Rows(r)
      PROVE  /\ F!Cardinality({x \in F!Rows(r) : r.id[x] < r.id[k]})
                  = F!Queue!Cardinality({p \in l.before : p[2] = k})
             /\ F!Cardinality({x \in F!Rows(r) : r.id[x] > r.id[k]})
                  = F!Queue!Cardinality({p \in l.before : p[1] = k})
  <2>1. PICK below, above, to, from :
          /\ below = {x \in F!Rows(r) : r.id[x] < r.id[k]}
          /\ above = {x \in F!Rows(r) : r.id[x] > r.id[k]}
          /\ to = {p \in l.before : p[2] = k} /\ from = {p \in l.before : p[1] = k}
        OBVIOUS
  <2>2. below \in SUBSET KvKey /\ above \in SUBSET KvKey
        BY <1>2, <2>1
  <2>3. \A p : p \in to <=> \E x \in below : p = <<x, k>>
        BY <1>2, <2>1
  <2>4. \A p : p \in from <=> \E x \in above : p = <<k, x>>
        BY <1>2, <2>1
  <2>5. Cardinality(to) = Cardinality(below)
        BY <2>2, <2>3, PairsCount
  <2>6. Cardinality(from) = Cardinality(above)
        BY <2>2, <2>4, PairsCount
  <2> QED
    BY <2>1, <2>5, <2>6, SameCount
<1>4. ASSUME NEW k
      PROVE  k \in F!firstRows(r, n) <=> k \in F!Queue!Front(l, n)
  <2>1. k \in F!firstRows(r, n) <=>
          k \in F!Rows(r) /\ F!Cardinality({x \in F!Rows(r) : r.id[x] < r.id[k]}) < n
        BY Zenon DEF F!firstRows
  <2>2. k \in F!Queue!Front(l, n) <=>
          k \in F!Queue!Present(l) /\ F!Queue!Cardinality({p \in l.before : p[2] = k}) < n
        BY Zenon DEF F!Queue!Front
  <2> QED
    BY <1>2, <1>3, <2>1, <2>2, Zenon
<1>5. ASSUME NEW k
      PROVE  k \in F!lastRows(r, n) <=> k \in F!Queue!Back(l, n)
  <2>1. k \in F!lastRows(r, n) <=>
          k \in F!Rows(r) /\ F!Cardinality({x \in F!Rows(r) : r.id[x] > r.id[k]}) < n
        BY Zenon DEF F!lastRows
  <2>2. k \in F!Queue!Back(l, n) <=>
          k \in F!Queue!Present(l) /\ F!Queue!Cardinality({p \in l.before : p[1] = k}) < n
        BY Zenon DEF F!Queue!Back
  <2> QED
    BY <1>2, <1>3, <2>1, <2>2, Zenon
<1> QED
  BY <1>1, <1>4, <1>5

\* DELETE without a condition drops the whole queue from its front.
LEMMA AllIsFront ==
  ASSUME NEW r, Good(r), F!Rows(r) # {}
  PROVE  /\ Cardinality(KvKey) \in 1 .. Cardinality(KvKey)
         /\ F!Queue!Drop(F!InIdOrder(r), F!Queue!Front(F!InIdOrder(r), Cardinality(KvKey)))
              = F!InIdOrder(F!deleteFrom(r, KvKey))
<1> DEFINE n == Cardinality(KvKey)
<1>1. F!Rows(r) \subseteq KvKey
      BY DEF F!Rows
<1>2. n \in Nat /\ n # 0
      BY <1>1, FileConstants, FS_CardinalityType, FS_EmptySet
<1>3. ASSUME NEW k \in F!Rows(r)
      PROVE  F!Cardinality({x \in F!Rows(r) : r.id[x] < r.id[k]}) < n
  <2> DEFINE T == {x \in F!Rows(r) : r.id[x] < r.id[k]}
  <2>1. T \in SUBSET KvKey /\ k \in KvKey /\ k \notin T
    <3>1. k \in KvKey /\ r.id[k] \in 0 .. MaxId /\ MaxId \in Nat
          BY <1>1, FileConstants DEF Good, Table
    <3> QED
      BY <1>1, <3>1
  <2> HIDE DEF T
  <2>2. Cardinality(T) <= n /\ (n = Cardinality(T) => KvKey = T) /\ Cardinality(T) \in Nat
        BY <2>1, FileConstants, FS_Subset, FS_CardinalityType
  <2> QED
    BY <1>2, <2>1, <2>2, SameCount DEF T
<1>4. F!firstRows(r, n) = F!Rows(r)
      BY <1>3, Zenon DEF F!firstRows
<1>5. F!Queue!Front(F!InIdOrder(r), n) = F!Rows(r)
      BY <1>4, SomeAreFrontOrBack
<1>6. F!Queue!Drop(F!InIdOrder(r), F!Rows(r)) = F!Queue!Drop(F!InIdOrder(r), KvKey)
  <2> DEFINE before == {p \in F!Rows(r) \X F!Rows(r) : r.id[p[1]] < r.id[p[2]]}
  <2>1. F!InIdOrder(r).before = before /\ F!InIdOrder(r).data = r.data
        BY DEF F!InIdOrder
  <2>2. {p \in before : p[1] \notin F!Rows(r) /\ p[2] \notin F!Rows(r)}
          = {p \in before : p[1] \notin KvKey /\ p[2] \notin KvKey}
        BY <1>1
  <2>3. \A k \in KvKey : (IF k \in F!Rows(r) THEN Absent ELSE r.data[k]) = Absent
        BY DEF F!Rows
  <2>4. [k \in KvKey |-> IF k \in F!Rows(r) THEN Absent ELSE r.data[k]]
          = [k \in KvKey |-> IF k \in KvKey THEN Absent ELSE r.data[k]]
        BY <2>3
  <2> HIDE DEF before
  <2> QED
    BY <2>1, <2>2, <2>4 DEF F!Queue!Drop
<1> QED
  BY <1>2, <1>5, <1>6, DeleteDrops

-----------------------------------------------------------------------------
(* com_kv: the calls *)

Label == {"idle", "create", "opened", "sequence", "again", "batch"}
Busy == {"create", "opened", "sequence", "again"}

\* Only a batch keeps the lock; without a lock nothing is drafted; and the statements of
\* a call run before it has returned anything.
FileInv ==
  /\ Good(kv) /\ Good(draft)
  /\ owner # Nobody => owner \in Caller /\ at[owner] = "batch"
  /\ owner = Nobody => draft = kv
  /\ at \in [Caller -> Label] /\ ret \in [Caller -> {v1, Empty, "none", "true", "false"}]
  /\ \A c \in Caller : at[c] \in Busy => ret[c] = "none"

\* Who is in a batch, as the queue sees it.
InBatch == {c \in Caller : at[c] = "batch"}

\* The step of a caller in the terms of the queue.
LEMMA CallerMoves ==
  ASSUME FileInv, NEW c \in Caller, NEW l \in Label, F!Goto(c, l)
  PROVE  /\ at' \in [Caller -> Label] /\ at'[c] = l
         /\ \A d \in Caller \ {c} : at'[d] = at[d]
         /\ l # "batch" => InBatch' = InBatch \ {c}
         /\ l = "batch" => InBatch' = InBatch \cup {c}
         /\ l # "batch" /\ at[c] # "batch" => InBatch' = InBatch
         /\ c \in InBatch <=> at[c] = "batch"
<1>1. at' \in [Caller -> Label] /\ at'[c] = l /\ \A d \in Caller \ {c} : at'[d] = at[d]
      BY DEF FileInv, F!Goto
<1> QED
  BY <1>1 DEF InBatch

\* A step that leaves the rows alone.
LEMMA FileRests ==
  ASSUME FileInv, NEW c \in Caller, NEW l \in Label, F!Goto(c, l), UNCHANGED <<kv, owner, draft>>,
         owner = c => l = "batch",
         \/ ret' = ret /\ (l \in Busy => at[c] \in Busy)
         \/ ret' = [ret EXCEPT ![c] = "none"]
         \/ l \notin Busy /\ \E r \in {v1, Empty, "true", "false"} : ret' = [ret EXCEPT ![c] = r]
  PROVE  FileInv'
<1>1. /\ at' \in [Caller -> Label] /\ at'[c] = l
      /\ \A d \in Caller \ {c} : at'[d] = at[d]
      BY CallerMoves
<1>2. /\ ret' \in [Caller -> {v1, Empty, "none", "true", "false"}]
      /\ l \in Busy => ret'[c] = "none"
      /\ \A d \in Caller \ {c} : ret'[d] = ret[d]
      BY DEF FileInv
<1>3. owner' # Nobody => owner' \in Caller /\ at'[owner'] = "batch"
      BY <1>1 DEF FileInv
<1>4. Good(kv)' /\ Good(draft)'
      BY DEF FileInv, Good, Table
<1>5. owner' = Nobody => draft' = kv'
      BY DEF FileInv
<1>6. \A d \in Caller : at'[d] \in Busy => ret'[d] = "none"
      BY <1>1, <1>2 DEF FileInv
<1> QED
  BY <1>1, <1>2, <1>3, <1>4, <1>5, <1>6 DEF FileInv

Refines == F!Queue!Next \/ UNCHANGED F!Queue!vars

\* The queue in the terms of the file.
QueueRests == UNCHANGED <<InBatch, owner, kv, draft>>

LEMMA FailRefines ==
  ASSUME NEW c \in Caller, QueueRests, NEW r \in {"none", "false"}, ret' = [ret EXCEPT ![c] = r]
  PROVE  Refines
<1>1. F!Queue!Fail(c)
      BY DEF F!Queue!Fail, F!Queue!Reply, QueueRests, InBatch, F!InIdOrder, F!Rows
<1> QED
  BY <1>1 DEF Refines, F!Queue!Next

LEMMA StutterRefines ==
  ASSUME QueueRests, ret' = ret
  PROVE  Refines
<1> QED
  BY DEF Refines, F!Queue!vars, QueueRests, InBatch, F!InIdOrder, F!Rows

LEMMA OpenStep ==
  ASSUME FileInv, NEW c \in Caller, F!Open(c)
  PROVE  FileInv' /\ Refines
<1>1. UNCHANGED <<kv, owner, draft>> /\ at[c] # "batch" /\ owner # c
      BY FileConstants DEF F!Open, F!kv_open, F!kv_create_table, F!createFails, F!giveUp, F!fileVars, FileInv
<1>2. CASE F!kv_open(c)
  <2>1. PICK l \in {"opened", "create"} : F!Goto(c, l)
        BY <1>2 DEF F!kv_open
  <2>2. ret' = [ret EXCEPT ![c] = "none"]
        BY <1>2 DEF F!kv_open, F!Return
  <2>3. l \in Label /\ InBatch' = InBatch
        BY <1>1, <2>1, CallerMoves DEF Label
  <2>4. QueueRests
        BY <1>1, <2>3 DEF QueueRests
  <2> QED
    BY <1>1, <2>1, <2>2, <2>3, <2>4, FileRests, FailRefines
<1>3. CASE F!kv_create_table(c)
  <2>1. F!Goto(c, "opened") /\ ret' = ret /\ at[c] \in Busy
        BY <1>3 DEF F!kv_create_table, Busy
  <2>2. "opened" \in Label /\ InBatch' = InBatch
        BY <1>1, <2>1, CallerMoves DEF Label
  <2>3. QueueRests
        BY <1>1, <2>2 DEF QueueRests
  <2> QED
    BY <1>1, <2>1, <2>2, <2>3, FileRests, StutterRefines
<1>4. CASE F!createFails(c) \/ F!giveUp(c)
  <2>1. F!Goto(c, "idle") /\ ret' = [ret EXCEPT ![c] = "false"]
        BY <1>4 DEF F!createFails, F!giveUp, F!Return
  <2>2. "idle" \in Label /\ InBatch' = InBatch /\ "idle" \notin Busy
        BY <1>1, <2>1, CallerMoves DEF Label, Busy
  <2>3. QueueRests
        BY <1>1, <2>2 DEF QueueRests
  <2> QED
    BY <1>1, <2>1, <2>2, <2>3, FileRests, FailRefines
<1> QED
  BY <1>2, <1>3, <1>4 DEF F!Open

\* The call goes on without an answer, or gives one.
Answers(c, l) ==
  \/ ret' = ret /\ at[c] \in Busy
  \/ \E x \in {"none", "true", "false"} : l \notin Busy /\ ret' = [ret EXCEPT ![c] = x]

\* A statement outside a transaction changes the rows that everybody sees.
LEMMA CommitKeeps ==
  ASSUME FileInv, NEW c \in Caller, NEW l \in Label \ {"batch"}, F!Goto(c, l), at[c] # "batch",
         NEW r, Good(r), F!Commit(r),
         Answers(c, l)
  PROVE  /\ FileInv'
         /\ InBatch' = InBatch /\ c \notin InBatch
         /\ owner = Nobody /\ owner' = Nobody /\ kv' = r /\ draft' = r
<1>1. /\ at' \in [Caller -> Label] /\ at'[c] = l
      /\ \A d \in Caller \ {c} : at'[d] = at[d]
      /\ InBatch' = InBatch /\ c \notin InBatch
      BY CallerMoves
<1>2. owner = Nobody /\ owner' = Nobody /\ kv' = r /\ draft' = r
      BY DEF F!Commit
<1>3. /\ ret' \in [Caller -> {v1, Empty, "none", "true", "false"}]
      /\ l \in Busy => ret'[c] = "none"
      /\ \A d \in Caller \ {c} : ret'[d] = ret[d]
      BY DEF FileInv, Answers
<1>4. Good(kv)' /\ Good(draft)'
      BY <1>2 DEF Good, Table
<1>5. \A d \in Caller : at'[d] \in Busy => ret'[d] = "none"
      BY <1>1, <1>3 DEF FileInv
<1> QED
  BY <1>1, <1>2, <1>3, <1>4, <1>5 DEF FileInv

\* The call's change of the rows is a change of the queue.
LEMMA ChangesQueue ==
  ASSUME NEW c \in Caller, c \notin InBatch, InBatch' = InBatch, owner = Nobody, owner' = Nobody,
         NEW q, F!InIdOrder(kv') = q, F!InIdOrder(draft') = q
  PROVE  F!Queue!Change(c, q)
<1>1. F!InIdOrder(kv)' = q /\ F!InIdOrder(draft)' = q
      BY DEF F!InIdOrder, F!Rows
<1> QED
  BY <1>1 DEF F!Queue!Change, InBatch

LEMMA SetStep ==
  ASSUME FileInv, NEW c \in Caller, NEW k \in KvKey, NEW v \in KvStored[k], F!com_kv_set(c, k, v)
  PROVE  FileInv' /\ Refines
<1>1. /\ at[c] = "opened" /\ F!newId(kv) <= MaxId
      /\ F!Commit(F!replaceInto(kv, k, v))
      /\ F!Goto(c, "idle") /\ ret' = [ret EXCEPT ![c] = "true"]
      BY DEF F!com_kv_set, F!Return
<1>2. v \in {v1, Empty} /\ Good(kv)
      BY FileConstants DEF FileInv
<1>3. PICK r : r = F!replaceInto(kv, k, v)
      OBVIOUS
<1>4. Good(r) /\ F!InIdOrder(r) = F!Queue!Put(F!InIdOrder(kv), k, v)
      BY <1>1, <1>2, <1>3, ReplacePuts
<1>5. "idle" \in Label \ {"batch"} /\ "idle" \notin Busy /\ at[c] # "batch" /\ F!Commit(r)
      BY <1>1, <1>3 DEF Label, Busy
<1>6. Answers(c, "idle")
      BY <1>1, <1>5 DEF Answers
<1>7. /\ FileInv' /\ InBatch' = InBatch /\ c \notin InBatch
      /\ owner = Nobody /\ owner' = Nobody /\ kv' = r /\ draft' = r
      BY <1>1, <1>4, <1>5, <1>6, CommitKeeps
<1>8. F!Queue!Change(c, F!Queue!Put(F!InIdOrder(kv), k, v))
      BY <1>4, <1>7, ChangesQueue
<1>9. F!Queue!Set(c, k, v)
      BY <1>1, <1>8 DEF F!Queue!Set, F!Queue!Reply
<1> QED
  BY <1>2, <1>7, <1>9 DEF Refines, F!Queue!Next

\* The calls that delete rows.
LEMMA DeleteKeeps ==
  ASSUME FileInv, NEW c \in Caller, NEW l \in Label \ {"batch"}, F!Goto(c, l), at[c] # "batch",
         NEW S, F!Commit(F!deleteFrom(kv, S)),
         Answers(c, l)
  PROVE  /\ FileInv'
         /\ F!Queue!Change(c, F!Queue!Drop(F!InIdOrder(kv), S))
<1>1. PICK r : r = F!deleteFrom(kv, S)
      OBVIOUS
<1>2. Good(r) /\ F!InIdOrder(r) = F!Queue!Drop(F!InIdOrder(kv), S) /\ F!Commit(r)
      BY <1>1, DeleteDrops DEF FileInv
<1>3. /\ FileInv' /\ InBatch' = InBatch /\ c \notin InBatch
      /\ owner = Nobody /\ owner' = Nobody /\ kv' = r /\ draft' = r
      BY <1>2, CommitKeeps
<1> QED
  BY <1>2, <1>3, ChangesQueue

LEMMA RemoveStep ==
  ASSUME FileInv, NEW c \in Caller, NEW k \in KvKey, F!com_kv_remove(c, k)
  PROVE  FileInv' /\ Refines
<1>1. PICK S, x : S = F!where(kv, k) /\ x = F!changedOne(S)
      OBVIOUS
<1>2. /\ at[c] = "opened" /\ F!Commit(F!deleteFrom(kv, S))
      /\ F!Goto(c, "idle") /\ ret' = [ret EXCEPT ![c] = x]
      BY <1>1 DEF F!com_kv_remove, F!Return
<1>3. x \in {"none", "true", "false"} /\ x = F!Queue!OneGone(S)
      BY <1>1, SameCount DEF F!changedOne, F!Queue!OneGone
<1>4. "idle" \in Label \ {"batch"} /\ "idle" \notin Busy /\ at[c] # "batch"
      BY <1>2 DEF Label, Busy
<1>5. Answers(c, "idle")
      BY <1>2, <1>3, <1>4 DEF Answers
<1>6. FileInv' /\ F!Queue!Change(c, F!Queue!Drop(F!InIdOrder(kv), S))
      BY <1>2, <1>4, <1>5, DeleteKeeps
<1>7. F!Queue!Meant(F!InIdOrder(kv), k) = S
      BY <1>1, RowsArePresent
<1>8. F!Queue!Remove(c, k)
      BY <1>2, <1>3, <1>6, <1>7 DEF F!Queue!Remove, F!Queue!Reply
<1> QED
  BY <1>6, <1>8 DEF Refines, F!Queue!Next

LEMMA RemoveSomeStep ==
  ASSUME FileInv, NEW c \in Caller, NEW n \in 1 .. F!Cardinality(KvKey),
         F!com_kv_remove_front(c, n) \/ F!com_kv_remove_tail(c, n)
  PROVE  FileInv' /\ Refines
<1>1. PICK S \in {F!Queue!Front(F!InIdOrder(kv), n), F!Queue!Back(F!InIdOrder(kv), n)} :
        /\ at[c] = "opened" /\ F!Commit(F!deleteFrom(kv, S))
        /\ F!Goto(c, "idle") /\ ret' = [ret EXCEPT ![c] = "none"]
      BY SomeAreFrontOrBack DEF F!com_kv_remove_front, F!com_kv_remove_tail, F!Return
<1>2. "idle" \in Label \ {"batch"} /\ "idle" \notin Busy /\ at[c] # "batch"
      BY <1>1 DEF Label, Busy
<1>3. Answers(c, "idle")
      BY <1>1, <1>2 DEF Answers
<1>4. FileInv' /\ F!Queue!Change(c, F!Queue!Drop(F!InIdOrder(kv), S))
      BY <1>1, <1>2, <1>3, DeleteKeeps
<1>5. n \in 1 .. F!Queue!Cardinality(KvKey)
      BY SameCount
<1>6. F!Queue!RemoveSome(c)
      BY <1>1, <1>4, <1>5 DEF F!Queue!RemoveSome, F!Queue!Reply
<1> QED
  BY <1>4, <1>6 DEF Refines, F!Queue!Next

LEMMA GetStep ==
  ASSUME FileInv, NEW c \in Caller, NEW k \in KvKey, F!com_kv_get_string(c, k)
  PROVE  FileInv' /\ Refines
<1>1. at[c] = "opened" /\ F!Goto(c, "idle") /\ UNCHANGED <<kv, owner, draft>>
      BY DEF F!com_kv_get_string, F!fileVars
<1>2. "idle" \in Label /\ "idle" \notin Busy /\ at[c] # "batch" /\ owner # c
      BY <1>1, FileConstants DEF Label, Busy, FileInv
<1>3. InBatch' = InBatch
      BY <1>1, <1>2, CallerMoves
<1>4. QueueRests
      BY <1>1, <1>3 DEF QueueRests
<1>5. CASE ret' = [ret EXCEPT ![c] = "false"]
  <2> QED
    BY <1>1, <1>2, <1>4, <1>5, FileRests, FailRefines
<1>6. CASE \E x \in F!where(kv, k) : kv.data[x] # Empty /\ ret' = [ret EXCEPT ![c] = kv.data[x]]
  <2>1. PICK x \in F!where(kv, k) : kv.data[x] # Empty /\ ret' = [ret EXCEPT ![c] = kv.data[x]]
        BY <1>6
  <2>2. kv.data[x] \in {v1, Empty}
        BY <2>1, FileConstants DEF F!where, F!Rows, FileInv, Good, Table
  <2>3. FileInv'
        BY <1>1, <1>2, <2>1, <2>2, FileRests
  <2>4. F!InIdOrder(kv).data = kv.data /\ x \in F!Queue!Meant(F!InIdOrder(kv), k)
        BY <2>1, RowsArePresent
  <2>5. UNCHANGED <<InBatch, owner, F!InIdOrder(kv), F!InIdOrder(draft)>>
        BY <1>4 DEF QueueRests, F!InIdOrder, F!Rows
  <2>6. F!Queue!Get(c, k)
        BY <2>1, <2>4, <2>5 DEF F!Queue!Get, F!Queue!Reply, InBatch
  <2> QED
    BY <2>3, <2>6 DEF Refines, F!Queue!Next
<1> QED
  BY <1>5, <1>6 DEF F!com_kv_get_string, F!Return

\* A DELETE of all rows is seen as one change, and none if there was no row; what it
\* leaves to do for the call changes no order.
LEMMA RemoveAllStep ==
  ASSUME FileInv, NEW c \in Caller, F!deleteAll(c) \/ F!deleteAgain(c)
  PROVE  FileInv' /\ Refines
<1>1. /\ at[c] \in Busy /\ at[c] # "batch" /\ ret' = ret
      /\ F!Commit(F!deleteFrom(kv, KvKey)) /\ F!Goto(c, "sequence")
      BY DEF F!deleteAll, F!deleteAgain, Busy
<1>2. /\ "sequence" \in Label \ {"batch"} /\ ret[c] = "none" /\ ret = [ret EXCEPT ![c] = "none"]
      /\ Answers(c, "sequence")
      BY <1>1 DEF Label, FileInv, Answers
<1>3. PICK r : r = F!deleteFrom(kv, KvKey)
      OBVIOUS
<1>4. Good(r) /\ F!InIdOrder(r) = F!Queue!Drop(F!InIdOrder(kv), KvKey) /\ F!Commit(r)
      BY <1>1, <1>3, DeleteDrops DEF FileInv
<1>5. /\ FileInv' /\ InBatch' = InBatch /\ c \notin InBatch
      /\ owner = Nobody /\ owner' = Nobody /\ kv' = r /\ draft' = r
      BY <1>1, <1>2, <1>4, CommitKeeps
<1>6. CASE F!Rows(kv) = {}
  <2>1. F!InIdOrder(r) = F!InIdOrder(kv)
    <3>1. F!InIdOrder(kv) = [data |-> kv.data, before |-> {}]
          BY <1>6 DEF F!InIdOrder
    <3>2. kv.data = [k \in KvKey |-> Absent]
          BY <1>6 DEF F!Rows, FileInv, Good, Table
    <3>3. F!Queue!Drop(F!InIdOrder(kv), KvKey) = [data |-> [k \in KvKey |-> Absent], before |-> {}]
          BY <3>1 DEF F!Queue!Drop
    <3> QED
      BY <1>4, <3>1, <3>2, <3>3
  <2>2. draft = kv
        BY <1>5 DEF FileInv
  <2>3. F!InIdOrder(kv)' = F!InIdOrder(kv) /\ F!InIdOrder(draft)' = F!InIdOrder(draft)
        BY <1>5, <2>1, <2>2 DEF F!InIdOrder, F!Rows
  <2>4. UNCHANGED F!Queue!vars
        BY <1>1, <1>5, <2>3 DEF F!Queue!vars, InBatch
  <2> QED
    BY <1>5, <2>4 DEF Refines
<1>7. CASE F!Rows(kv) # {}
  <2>1. PICK n, S : n = Cardinality(KvKey) /\ S = F!Queue!Front(F!InIdOrder(kv), n)
        OBVIOUS
  <2>2. n \in 1 .. n /\ F!Queue!Drop(F!InIdOrder(kv), S) = F!InIdOrder(r)
        BY <1>3, <1>7, <2>1, AllIsFront DEF FileInv
  <2>3. F!Queue!Change(c, F!Queue!Drop(F!InIdOrder(kv), S))
        BY <1>5, <2>2, ChangesQueue
  <2>4. F!Queue!RemoveSome(c)
        BY <1>1, <1>2, <2>1, <2>2, <2>3, SameCount DEF F!Queue!RemoveSome, F!Queue!Reply
  <2> QED
    BY <1>5, <2>4 DEF Refines, F!Queue!Next
<1> QED
  BY <1>6, <1>7

LEMMA SequenceStep ==
  ASSUME FileInv, NEW c \in Caller, F!resetSequence(c) \/ F!runAgain(c)
  PROVE  FileInv' /\ Refines
<1>1. CASE F!resetSequence(c)
  <2>1. PICK r : r = [kv EXCEPT !.seq = 0]
        OBVIOUS
  <2>2. /\ at[c] = "sequence" /\ F!Commit(r)
        /\ F!Goto(c, "idle") /\ ret' = [ret EXCEPT ![c] = "none"]
        BY <1>1, <2>1 DEF F!resetSequence, F!Return
  <2>3. "idle" \in Label \ {"batch"} /\ "idle" \notin Busy /\ at[c] # "batch"
        BY <2>2 DEF Label, Busy
  <2>4. kv \in Table /\ 0 \in 0 .. MaxId
        BY FileConstants DEF FileInv, Good
  <2>5. r \in Table /\ r.id = kv.id /\ r.data = kv.data
        BY <2>1, <2>4 DEF Table
  <2>6. Good(r) /\ F!InIdOrder(r) = F!InIdOrder(kv)
        BY <2>5 DEF FileInv, Good, F!InIdOrder, F!Rows
  <2>7. Answers(c, "idle")
        BY <2>2, <2>3 DEF Answers
  <2>8. /\ FileInv' /\ InBatch' = InBatch
        /\ owner = Nobody /\ owner' = Nobody /\ kv' = r /\ draft' = r
        BY <2>2, <2>3, <2>6, <2>7, CommitKeeps
  <2>9. draft = kv
        BY <2>8 DEF FileInv
  <2>10. F!InIdOrder(kv)' = F!InIdOrder(kv) /\ F!InIdOrder(draft)' = F!InIdOrder(draft)
        BY <2>6, <2>8, <2>9 DEF F!InIdOrder, F!Rows
  <2>11. F!Queue!Fail(c)
        BY <2>2, <2>8, <2>10 DEF F!Queue!Fail, F!Queue!Reply, InBatch
  <2> QED
    BY <2>8, <2>11 DEF Refines, F!Queue!Next
<1>2. CASE F!runAgain(c)
  <2>1. /\ at[c] = "sequence" /\ F!Goto(c, "again")
        /\ UNCHANGED <<kv, owner, draft>> /\ ret' = ret
        BY <1>2 DEF F!runAgain, F!fileVars
  <2>2. "again" \in Label /\ at[c] \in Busy /\ at[c] # "batch" /\ owner # c
        BY <2>1, FileConstants DEF Label, Busy, FileInv
  <2>3. InBatch' = InBatch
        BY <2>1, <2>2, CallerMoves
  <2>4. QueueRests
        BY <2>1, <2>3 DEF QueueRests
  <2> QED
    BY <2>1, <2>2, <2>4, FileRests, StutterRefines
<1> QED
  BY <1>1, <1>2

-----------------------------------------------------------------------------
(* com_kv: batches *)

LEMMA BeginStep ==
  ASSUME FileInv, NEW c \in Caller, F!com_kv_batch_start(c)
  PROVE  FileInv' /\ Refines
<1>1. /\ at[c] = "opened" /\ F!Goto(c, "batch")
      /\ UNCHANGED <<kv, owner, draft>> /\ ret' = ret
      BY DEF F!com_kv_batch_start, F!fileVars
<1>2. "batch" \in Label /\ "batch" \notin Busy
      BY DEF Label, Busy
<1>3. InBatch' = InBatch \cup {c}
      BY <1>1, <1>2, CallerMoves
<1>4. FileInv'
      BY <1>1, <1>2, FileRests
<1>5. F!InIdOrder(kv)' = F!InIdOrder(kv) /\ F!InIdOrder(draft)' = F!InIdOrder(draft)
      BY <1>1 DEF F!InIdOrder, F!Rows
<1>6. F!Queue!Begin(c)
      BY <1>1, <1>3, <1>5 DEF F!Queue!Begin, InBatch
<1> QED
  BY <1>4, <1>6 DEF Refines, F!Queue!Next

\* A statement in a transaction changes the draft of the queue.
LEMMA EditKeeps ==
  ASSUME FileInv, NEW c \in Caller, NEW r, Good(r), F!batchWrite(c, r),
         NEW x \in {"none", "true", "false"}, ret' = [ret EXCEPT ![c] = x],
         NEW q, F!InIdOrder(r) = q
  PROVE  FileInv' /\ F!Queue!Edit(c, q)
<1>1. /\ at[c] = "batch" /\ owner \in {Nobody, c} /\ owner' = c /\ draft' = r
      /\ kv' = kv /\ at' = at
      BY DEF F!batchWrite
<1>2. ret' \in [Caller -> {v1, Empty, "none", "true", "false"}]
      BY DEF FileInv
<1>3. \A d \in Caller : at'[d] \in Busy => ret'[d] = "none"
  <2>1. at[c] \notin Busy
        BY <1>1 DEF Busy
  <2> QED
    BY <1>1, <2>1 DEF FileInv
<1>4. Good(kv)' /\ Good(draft)'
      BY <1>1 DEF FileInv, Good, Table
<1>5. owner' # Nobody /\ owner' \in Caller /\ at'[owner'] = "batch"
      BY <1>1, FileConstants
<1>6. FileInv'
      BY <1>1, <1>2, <1>3, <1>4, <1>5 DEF FileInv
<1>7. F!InIdOrder(kv)' = F!InIdOrder(kv) /\ F!InIdOrder(draft)' = q
      BY <1>1 DEF F!InIdOrder, F!Rows
<1>8. InBatch' = InBatch /\ c \in InBatch
      BY <1>1 DEF InBatch
<1>9. F!Queue!Edit(c, q)
      BY <1>1, <1>7, <1>8 DEF F!Queue!Edit, InBatch
<1> QED
  BY <1>6, <1>9

LEMMA BatchSetStep ==
  ASSUME FileInv, NEW c \in Caller, NEW k \in KvKey, NEW v \in KvStored[k],
         F!com_kv_batch_set(c, k, v)
  PROVE  FileInv' /\ Refines
<1>1. PICK r, x : r = F!replaceInto(draft, k, v) /\ x = "true"
      OBVIOUS
<1>2. F!newId(draft) <= MaxId /\ F!batchWrite(c, r) /\ ret' = [ret EXCEPT ![c] = x]
      BY <1>1 DEF F!com_kv_batch_set, F!Return
<1>3. v \in {v1, Empty} /\ Good(draft) /\ x \in {"none", "true", "false"}
      BY <1>1, FileConstants DEF FileInv
<1>4. Good(r) /\ F!InIdOrder(r) = F!Queue!Put(F!InIdOrder(draft), k, v)
      BY <1>1, <1>2, <1>3, ReplacePuts
<1>5. FileInv' /\ F!Queue!Edit(c, F!Queue!Put(F!InIdOrder(draft), k, v))
      BY <1>2, <1>3, <1>4, EditKeeps
<1>6. F!Queue!Set(c, k, v)
      BY <1>1, <1>2, <1>5 DEF F!Queue!Set, F!Queue!Reply
<1> QED
  BY <1>3, <1>5, <1>6 DEF Refines, F!Queue!Next

LEMMA BatchRemoveStep ==
  ASSUME FileInv, NEW c \in Caller, NEW k \in KvKey, F!com_kv_batch_remove(c, k)
  PROVE  FileInv' /\ Refines
<1>1. PICK S, r, x : /\ S = F!where(draft, k) /\ x = F!changedOne(S)
                     /\ r = F!deleteFrom(draft, S)
      OBVIOUS
<1>2. F!batchWrite(c, r) /\ ret' = [ret EXCEPT ![c] = x]
      BY <1>1 DEF F!com_kv_batch_remove, F!Return
<1>3. x \in {"none", "true", "false"} /\ x = F!Queue!OneGone(S)
      BY <1>1, SameCount DEF F!changedOne, F!Queue!OneGone
<1>4. Good(r) /\ F!InIdOrder(r) = F!Queue!Drop(F!InIdOrder(draft), S)
      BY <1>1, DeleteDrops DEF FileInv
<1>5. FileInv' /\ F!Queue!Edit(c, F!Queue!Drop(F!InIdOrder(draft), S))
      BY <1>2, <1>3, <1>4, EditKeeps
<1>6. F!Queue!Meant(F!InIdOrder(draft), k) = S
      BY <1>1, RowsArePresent
<1>7. F!Queue!Remove(c, k)
      BY <1>2, <1>3, <1>5, <1>6 DEF F!Queue!Remove, F!Queue!Reply
<1> QED
  BY <1>5, <1>7 DEF Refines, F!Queue!Next

LEMMA BusyStep ==
  ASSUME FileInv, NEW c \in Caller, F!batchBusy(c)
  PROVE  FileInv' /\ Refines
<1>1. /\ at[c] = "batch" /\ at' = at /\ UNCHANGED <<kv, owner, draft>>
      /\ ret' = [ret EXCEPT ![c] = "false"]
      BY DEF F!batchBusy, F!fileVars, F!Return
<1>2. ret' \in [Caller -> {v1, Empty, "none", "true", "false"}]
      BY <1>1 DEF FileInv
<1>3. \A d \in Caller : at'[d] \in Busy => ret'[d] = "none"
  <2>1. at[c] \notin Busy
        BY <1>1 DEF Busy
  <2> QED
    BY <1>1, <2>1 DEF FileInv
<1>4. Good(kv)' /\ Good(draft)'
      BY <1>1 DEF FileInv, Good, Table
<1>5. FileInv'
      BY <1>1, <1>2, <1>3, <1>4 DEF FileInv
<1>6. QueueRests
      BY <1>1 DEF QueueRests, InBatch
<1> QED
  BY <1>1, <1>5, <1>6, FailRefines

\* A batch ends with what it has changed, q, seen by all or by nobody.
LEMMA StopKeeps ==
  ASSUME FileInv, NEW c \in Caller, F!Goto(c, "idle"), ret' = [ret EXCEPT ![c] = "none"],
         \/ owner # c /\ UNCHANGED <<kv, owner, draft>>
         \/ owner = c /\ owner' = Nobody /\ kv' = draft' /\ kv' \in {kv, draft}
  PROVE  FileInv' /\ Refines
<1>1. "idle" \in Label /\ "idle" \notin Busy /\ "idle" # "batch"
      BY DEF Label, Busy
<1>2. /\ at' \in [Caller -> Label] /\ at'[c] = "idle" /\ \A d \in Caller \ {c} : at'[d] = at[d]
      /\ InBatch' = InBatch \ {c} /\ (c \in InBatch <=> at[c] = "batch")
      BY <1>1, CallerMoves
<1>3. CASE owner # c
  <2>1. UNCHANGED <<kv, owner, draft>>
        BY <1>3
  <2>2. FileInv'
        BY <1>1, <1>3, <2>1, FileRests
  <2>3. CASE c \notin InBatch
    <3>1. QueueRests
          BY <1>2, <2>1, <2>3 DEF QueueRests
    <3> QED
      BY <2>2, <3>1, FailRefines
  <2>4. CASE c \in InBatch
    <3>1. F!InIdOrder(kv)' = F!InIdOrder(kv) /\ F!InIdOrder(draft)' = F!InIdOrder(draft)
          BY <2>1 DEF F!InIdOrder, F!Rows
    <3>2. F!Queue!Stop(c)
          BY <1>2, <1>3, <2>1, <2>4, <3>1 DEF F!Queue!Stop, F!Queue!Reply, InBatch
    <3> QED
      BY <2>2, <3>2 DEF Refines, F!Queue!Next
  <2> QED
    BY <2>3, <2>4
<1>4. CASE owner = c
  <2>1. owner' = Nobody /\ kv' = draft' /\ kv' \in {kv, draft}
        BY <1>4
  <2>2. c \in InBatch
        BY <1>2, <1>4, FileConstants DEF FileInv
  <2>3. Good(kv)' /\ Good(draft)'
        BY <2>1 DEF FileInv, Good, Table
  <2>4. /\ ret' \in [Caller -> {v1, Empty, "none", "true", "false"}]
        /\ ret'[c] = "none" /\ \A d \in Caller \ {c} : ret'[d] = ret[d]
        BY DEF FileInv
  <2>5. \A d \in Caller : at'[d] \in Busy => ret'[d] = "none"
        BY <1>2, <2>4 DEF FileInv
  <2>6. FileInv'
        BY <1>2, <2>1, <2>3, <2>4, <2>5 DEF FileInv
  <2>7. \/ F!InIdOrder(kv)' = F!InIdOrder(draft) /\ F!InIdOrder(draft)' = F!InIdOrder(draft)
        \/ F!InIdOrder(kv)' = F!InIdOrder(kv) /\ F!InIdOrder(draft)' = F!InIdOrder(kv)
        BY <2>1 DEF F!InIdOrder, F!Rows
  <2>8. F!Queue!Stop(c)
        BY <1>2, <1>4, <2>1, <2>2, <2>7 DEF F!Queue!Stop, F!Queue!Reply, InBatch
  <2> QED
    BY <2>6, <2>8 DEF Refines, F!Queue!Next
<1> QED
  BY <1>3, <1>4

LEMMA EndStep ==
  ASSUME FileInv, NEW c \in Caller, F!batchCommit(c) \/ F!batchRollback(c) \/ F!die(c)
  PROVE  FileInv' /\ Refines
<1>1. CASE F!batchCommit(c)
  <2>1. /\ F!Goto(c, "idle") /\ ret' = [ret EXCEPT ![c] = "none"] /\ draft' = draft
        /\ IF owner = c THEN kv' = draft /\ owner' = Nobody ELSE UNCHANGED <<kv, owner>>
        BY <1>1 DEF F!batchCommit, F!Return
  <2> QED
    BY <2>1, StopKeeps
<1>2. CASE F!Forget(c)
  <2>1. /\ F!Goto(c, "idle") /\ ret' = [ret EXCEPT ![c] = "none"] /\ kv' = kv
        /\ IF owner = c THEN owner' = Nobody /\ draft' = kv ELSE UNCHANGED <<owner, draft>>
        BY <1>2 DEF F!Forget, F!Return
  <2> QED
    BY <2>1, StopKeeps
<1> QED
  BY <1>1, <1>2 DEF F!batchRollback, F!die
-----------------------------------------------------------------------------
LEMMA FileStep ==
  ASSUME FileInv, F!Next
  PROVE  FileInv' /\ Refines
<1>1. PICK c \in Caller : F!Open(c) \/ F!Single(c) \/ F!Batch(c) \/ F!die(c)
      BY DEF F!Next
<1>2. CASE F!Open(c)
      BY <1>2, OpenStep
<1>3. CASE F!Single(c)
      BY <1>3, SetStep, RemoveStep, GetStep, RemoveSomeStep, RemoveAllStep, SequenceStep
      DEF F!Single
<1>4. CASE F!Batch(c)
      BY <1>4, BeginStep, BatchSetStep, BatchRemoveStep, BusyStep, EndStep DEF F!Batch
<1>5. CASE F!die(c)
      BY <1>5, EndStep
<1> QED
  BY <1>1, <1>2, <1>3, <1>4, <1>5

LEMMA FileStutters ==
  ASSUME FileInv, UNCHANGED fileVars
  PROVE  FileInv' /\ UNCHANGED F!Queue!vars
<1>1. UNCHANGED <<kv, owner, draft, at, ret>>
      BY DEF fileVars
<1>2. Good(kv)' /\ Good(draft)'
      BY <1>1 DEF FileInv, Good, Table
<1>3. FileInv'
      BY <1>1, <1>2 DEF FileInv
<1>4. F!InIdOrder(kv)' = F!InIdOrder(kv) /\ F!InIdOrder(draft)' = F!InIdOrder(draft)
      BY <1>1 DEF F!InIdOrder, F!Rows
<1> QED
  BY <1>1, <1>3, <1>4 DEF F!Queue!vars

LEMMA FileStarts ==
  ASSUME F!Init
  PROVE  FileInv /\ F!Queue!Init
<1>1. /\ kv = F!NoRows /\ draft = F!NoRows /\ owner = Nobody
      /\ at = [c \in Caller |-> "idle"] /\ ret = [c \in Caller |-> "none"]
      BY DEF F!Init
<1>2. Good(F!NoRows)
      BY FileConstants DEF Good, Table, F!NoRows
<1>3. FileInv
      BY <1>1, <1>2 DEF FileInv, Label, Busy
<1>4. F!InIdOrder(F!NoRows) = F!Queue!EmptyList
      BY DEF F!InIdOrder, F!Rows, F!NoRows, F!Queue!EmptyList
<1> QED
  BY <1>1, <1>3, <1>4 DEF F!Queue!Init

\* com_kv keeps the keys in the order in which they were last set, whoever sets them,
\* with remove_all in two statements, ids that start over, callers that give up or are
\* killed between statements, and batches that show as a whole or not at all: every
\* step of the file is a step of the queue or none.
THEOREM FileIsQueue == StoresSpec => ImplementsQueue
<1>1. StoresInit => FileInv /\ F!Queue!Init
      BY FileStarts DEF StoresInit
<1>2. ASSUME FileInv, [StoresNext]_<<store, fileVars, cacheVars, vars>>
      PROVE  /\ FileInv'
             /\ [store = "file" => F!Queue!Next]_(F!Queue!vars)
  <2>1. CASE store = "file" /\ F!Next
        BY <1>2, <2>1, FileStep DEF Refines
  <2>2. CASE UNCHANGED fileVars
        BY <1>2, <2>2, FileStutters
  <2> QED
    BY <1>2, <2>1, <2>2 DEF StoresNext
<1> QED
  BY <1>1, <1>2, PTL DEF StoresSpec, ImplementsQueue

-----------------------------------------------------------------------------
(* ComMapLRU *)

\* w is q with its place m taken away, or with nothing taken away, and x added.
Moved(q, w, m, x) ==
  /\ m \in 1 .. Len(q) /\ Len(w) = Len(q)
  /\ \A j \in 1 .. Len(q) : w[j] = IF j < m THEN q[j] ELSE IF j < Len(q) THEN q[j + 1] ELSE x

Longer(q, w, x) ==
  /\ Len(w) = Len(q) + 1
  /\ \A j \in 1 .. Len(q) : w[j] = q[j]
  /\ w[Len(q) + 1] = x

LEMMA Removed ==
  ASSUME NEW D, NEW q \in Seq(D), NEW m \in 1 .. Len(q)
  PROVE  /\ L!RemoveAt(q, m) \in Seq(D) /\ Len(L!RemoveAt(q, m)) = Len(q) - 1
         /\ \A j \in 1 .. Len(q) - 1 :
              L!RemoveAt(q, m)[j] = IF j < m THEN q[j] ELSE q[j + 1]
<1> DEFINE n == Len(q)
<1> DEFINE a == SubSeq(q, 1, m - 1)
<1> DEFINE b == SubSeq(q, m + 1, n)
<1> DEFINE w == a \o b
<1>1. m \in 1 .. n /\ n \in Nat /\ \A j \in 1 .. n : q[j] \in D
      OBVIOUS
<1>2. L!RemoveAt(q, m) = w
      BY DEF L!RemoveAt
<1>3. /\ a \in Seq(D) /\ Len(a) = m - 1
      /\ \A j \in 1 .. m - 1 : a[j] = q[j]
  <2>1. /\ a \in Seq(D) /\ Len(a) = IF 1 <= m - 1 THEN m - 1 - 1 + 1 ELSE 0
        /\ \A j \in 1 .. m - 1 - 1 + 1 : a[j] = q[1 + j - 1]
        BY <1>1, SubSeqProperties
  <2> QED
    BY <1>1, <2>1
<1>4. /\ b \in Seq(D) /\ Len(b) = n - m
      /\ \A j \in 1 .. n - m : b[j] = q[m + j]
  <2>1. /\ b \in Seq(D) /\ Len(b) = IF m + 1 <= n THEN n - (m + 1) + 1 ELSE 0
        /\ \A j \in 1 .. n - (m + 1) + 1 : b[j] = q[m + 1 + j - 1]
        BY <1>1, SubSeqProperties
  <2> QED
    BY <1>1, <2>1
<1> HIDE DEF a, b
<1>5. /\ w \in Seq(D) /\ Len(w) = Len(a) + Len(b)
      /\ \A j \in 1 .. Len(a) + Len(b) : w[j] = IF j <= Len(a) THEN a[j] ELSE b[j - Len(a)]
      BY <1>3, <1>4, ConcatProperties
<1>6. Len(a) + Len(b) = n - 1
      BY <1>1, <1>3, <1>4
<1> HIDE DEF w, n
<1>7. ASSUME NEW j \in 1 .. n - 1
      PROVE  w[j] = IF j < m THEN q[j] ELSE q[j + 1]
  <2>1. CASE j < m
        BY <1>1, <1>3, <1>5, <1>6, <2>1
  <2>2. CASE ~(j < m)
    <3> DEFINE i == j - Len(a)
    <3>1. i \in 1 .. n - m /\ m + i = j + 1 /\ ~(j <= Len(a))
          BY <1>1, <1>3, <2>2
    <3>2. w[j] = b[i]
          BY <1>5, <1>6, <3>1
    <3> HIDE DEF i
    <3> QED
      BY <1>4, <2>2, <3>1, <3>2
  <2> QED
    BY <2>1, <2>2
<1> QED
  BY <1>1, <1>2, <1>5, <1>6, <1>7 DEF n

LEMMA AppendMoves ==
  ASSUME NEW D, NEW q \in Seq(D), NEW x \in D
  PROVE  /\ Append(q, x) \in Seq(D) /\ Longer(q, Append(q, x), x)
         /\ \A m \in 1 .. Len(q) :
              /\ Append(L!RemoveAt(q, m), x) \in Seq(D)
              /\ Moved(q, Append(L!RemoveAt(q, m), x), m, x)
         /\ q # <<>> => /\ Append(Tail(q), x) \in Seq(D)
                        /\ Moved(q, Append(Tail(q), x), 1, x)
<1>1. Append(q, x) \in Seq(D) /\ Longer(q, Append(q, x), x)
      BY AppendProperties DEF Longer
<1>2. ASSUME NEW u \in Seq(D), NEW m \in 1 .. Len(q), Len(u) = Len(q) - 1,
             \A j \in 1 .. Len(q) - 1 : u[j] = IF j < m THEN q[j] ELSE q[j + 1]
      PROVE  Append(u, x) \in Seq(D) /\ Moved(q, Append(u, x), m, x)
  <2>1. PICK n \in Nat : n = Len(q)
        OBVIOUS
  <2>2. PICK w : w = Append(u, x)
        OBVIOUS
  <2>3. /\ w \in Seq(D) /\ Len(w) = Len(u) + 1 /\ w[Len(u) + 1] = x
        /\ \A j \in 1 .. Len(u) : w[j] = u[j]
        BY <2>2, AppendProperties
  <2>4. Len(w) = n /\ w[n] = x /\ \A j \in 1 .. n - 1 : w[j] = u[j]
        BY <1>2, <2>1, <2>3
  <2>5. \A j \in 1 .. n : w[j] = IF j < m THEN q[j] ELSE IF j < n THEN q[j + 1] ELSE x
        BY <1>2, <2>1, <2>4
  <2> QED
    BY <2>1, <2>2, <2>3, <2>4, <2>5 DEF Moved
<1>3. ASSUME NEW m \in 1 .. Len(q)
      PROVE  /\ Append(L!RemoveAt(q, m), x) \in Seq(D)
             /\ Moved(q, Append(L!RemoveAt(q, m), x), m, x)
      BY <1>2, Removed
<1>4. ASSUME q # <<>>
      PROVE  Append(Tail(q), x) \in Seq(D) /\ Moved(q, Append(Tail(q), x), 1, x)
  <2>1. /\ Tail(q) \in Seq(D) /\ Len(Tail(q)) = Len(q) - 1
        /\ \A j \in 1 .. Len(q) - 1 : Tail(q)[j] = q[j + 1]
        BY <1>4, HeadTailProperties
  <2>2. 1 \in 1 .. Len(q) /\ \A j \in 1 .. Len(q) - 1 : ~(j < 1)
        BY <1>4, EmptySeq
  <2> QED
    BY <1>2, <2>1, <2>2
<1> QED
  BY <1>1, <1>3, <1>4

Entry == [node : L!Node, key : CacheKey]

\* The list l and the history r: l holds the last of r, as many as there are or fit.
Tracks(l, r) ==
  /\ Len(l) <= MaxSize /\ Len(l) <= Len(r) /\ (Len(l) < MaxSize => Len(l) = Len(r))
  /\ \A i, j \in 1 .. Len(r) : r[i] = r[j] => i = j
  /\ \A i \in 1 .. Len(l) : l[i].key = r[Len(r) - Len(l) + i]

\* What a use of k does to the history, and to the list, that gets the entry e at its end.
Recalls(r, w, k) ==
  \/ \E p \in 1 .. Len(r) : r[p] = k /\ Moved(r, w, p, k)
  \/ (\A p \in 1 .. Len(r) : r[p] # k) /\ Longer(r, w, k)

Refreshes(l, w, e) == \E i \in 1 .. Len(l) : l[i].key = e.key /\ Moved(l, w, i, e)
Replaces(l, w, e) ==
  (\A i \in 1 .. Len(l) : l[i].key # e.key) /\ Len(l) = MaxSize /\ Moved(l, w, 1, e)
Grows(l, w, e) ==
  (\A i \in 1 .. Len(l) : l[i].key # e.key) /\ Len(l) < MaxSize /\ Longer(l, w, e)

LEMMA CacheConstants == MaxSize \in Nat \ {0} /\ Absent \notin {v1, Empty}
  BY LRUAssumption DEF L!LRUConstants

LEMMA RecallsOnce ==
  ASSUME NEW r \in Seq(CacheKey), NEW w, NEW k, Recalls(r, w, k),
         \A i, j \in 1 .. Len(r) : r[i] = r[j] => i = j
  PROVE  \A i, j \in 1 .. Len(w) : w[i] = w[j] => i = j
<1>1. PICK n \in Nat : n = Len(r)
      OBVIOUS
<1>2. CASE \E p \in 1 .. Len(r) : r[p] = k /\ Moved(r, w, p, k)
  <2>1. PICK p \in 1 .. n : /\ r[p] = k /\ Len(w) = n
               /\ \A j \in 1 .. n : w[j] = IF j < p THEN r[j] ELSE IF j < n THEN r[j + 1] ELSE k
        BY <1>1, <1>2 DEF Moved
  <2>2. ASSUME NEW i \in 1 .. n, NEW j \in 1 .. n, w[i] = w[j], i < j
        PROVE  FALSE
    <3>1. PICK a \in 1 .. n : w[i] = r[a] /\ a = IF i < p THEN i ELSE i + 1
          BY <2>1, <2>2
    <3>2. PICK b \in 1 .. n : w[j] = r[b] /\ b = IF j < p THEN j ELSE IF j < n THEN j + 1 ELSE p
          BY <2>1, <2>2
    <3>3. a # b
      <4>2. CASE j < p
            BY <2>2, <3>1, <3>2, <4>2
      <4>3. CASE ~(j < p) /\ j < n
            BY <2>2, <3>1, <3>2, <4>3
      <4>4. CASE ~(j < p) /\ j = n
            BY <2>2, <3>1, <3>2, <4>4
      <4> QED
        BY <2>2, <4>2, <4>3, <4>4
    <3> QED
      BY <1>1, <2>2, <3>1, <3>2, <3>3
  <2> QED
    BY <2>1, <2>2
<1>3. CASE (\A p \in 1 .. Len(r) : r[p] # k) /\ Longer(r, w, k)
  <2>1. Len(w) = n + 1 /\ w[n + 1] = k /\ \A j \in 1 .. n : w[j] = r[j] /\ w[j] # k
        BY <1>1, <1>3 DEF Longer
  <2> QED
    BY <1>1, <2>1
<1> QED
  BY <1>2, <1>3 DEF Recalls

LEMMA RefreshTracks ==
  ASSUME NEW l \in Seq(Entry), NEW w, NEW e, NEW r \in Seq(CacheKey), NEW s,
         Tracks(l, r), Recalls(r, s, e.key), Refreshes(l, w, e)
  PROVE  Tracks(w, s)
<1>1. PICK n \in Nat, N \in Nat : n = Len(l) /\ N = Len(r)
      OBVIOUS
<1>2. PICK i \in 1 .. n : /\ l[i].key = e.key /\ Len(w) = n
             /\ \A j \in 1 .. n : w[j] = IF j < i THEN l[j] ELSE IF j < n THEN l[j + 1] ELSE e
      BY <1>1 DEF Refreshes, Moved
<1>3. PICK d \in Nat : d = N - n /\ N = d + n
  <2>1. n <= N
        BY <1>1 DEF Tracks
  <2>2. N - n \in Nat /\ N = (N - n) + n
        BY <2>1
  <2> QED
    BY <2>2
<1>4. /\ \A j \in 1 .. n : l[j].key = r[d + j]
      /\ \A a, b \in 1 .. N : r[a] = r[b] => a = b
      BY <1>1, <1>3 DEF Tracks
<1>5. d + i \in 1 .. N /\ r[d + i] = e.key
      BY <1>2, <1>3, <1>4
<1>6. PICK p \in 1 .. N : r[p] = e.key /\ Moved(r, s, p, e.key)
      BY <1>1, <1>5 DEF Recalls
<1>7. p = d + i
      BY <1>4, <1>5, <1>6
<1>8. /\ Len(s) = N
      /\ \A j \in 1 .. N : s[j] = IF j < d + i THEN r[j] ELSE IF j < N THEN r[j + 1] ELSE e.key
      BY <1>1, <1>6, <1>7 DEF Moved
<1>9. ASSUME NEW j \in 1 .. n
      PROVE  w[j].key = s[d + j]
  <2>1. CASE j < i
    <3>1. d + j \in 1 .. N /\ d + j < d + i
          BY <1>3, <2>1
    <3>2. w[j] = l[j] /\ s[d + j] = r[d + j]
          BY <1>2, <1>8, <2>1, <3>1
    <3> QED
      BY <1>4, <3>2
  <2>2. CASE ~(j < i) /\ j < n
    <3>1. d + j \in 1 .. N /\ ~(d + j < d + i) /\ d + j < N /\ (d + j) + 1 = d + (j + 1)
          BY <1>3, <2>2
    <3>2. w[j] = l[j + 1] /\ s[d + j] = r[d + (j + 1)]
          BY <1>2, <1>8, <2>2, <3>1
    <3>3. j + 1 \in 1 .. n
          BY <2>2
    <3> QED
      BY <1>4, <3>2, <3>3
  <2>3. CASE j = n
    <3>1. d + j = N /\ N \in 1 .. N /\ ~(N < d + i) /\ ~(j < i)
          BY <1>3, <2>3
    <3>2. w[j] = e /\ s[d + j] = e.key
          BY <1>2, <1>8, <2>3, <3>1
    <3> QED
      BY <3>2
  <2> QED
    BY <2>1, <2>2, <2>3
<1>10. \A a, b \in 1 .. Len(s) : s[a] = s[b] => a = b
       BY RecallsOnce DEF Tracks
<1>11. /\ Len(w) <= MaxSize /\ Len(w) <= Len(s) /\ (Len(w) < MaxSize => Len(w) = Len(s))
       BY <1>1, <1>2, <1>8 DEF Tracks
<1>12. \A j \in 1 .. Len(w) : w[j].key = s[Len(s) - Len(w) + j]
       BY <1>2, <1>3, <1>8, <1>9
<1> QED
  BY <1>10, <1>11, <1>12 DEF Tracks

LEMMA ReplaceTracks ==
  ASSUME NEW l \in Seq(Entry), NEW w, NEW e, NEW r \in Seq(CacheKey), NEW s,
         Tracks(l, r), Recalls(r, s, e.key), Replaces(l, w, e)
  PROVE  Tracks(w, s)
<1>1. PICK n \in Nat, N \in Nat : n = Len(l) /\ N = Len(r)
      OBVIOUS
<1>2. /\ n = MaxSize /\ n # 0 /\ Len(w) = n /\ w[n] = e
      /\ \A j \in 1 .. n - 1 : w[j] = l[j + 1]
      BY <1>1, CacheConstants DEF Replaces, Moved
<1>3. PICK d \in Nat : d = N - n /\ N = d + n
  <2>1. n <= N
        BY <1>1 DEF Tracks
  <2>2. N - n \in Nat /\ N = (N - n) + n
        BY <2>1
  <2> QED
    BY <2>2
<1>4. \A j \in 1 .. n : l[j].key = r[d + j] /\ l[j].key # e.key
      BY <1>1, <1>3 DEF Tracks, Replaces
<1>5. PICK M \in Nat : M = Len(s) /\ M >= N /\ s[M] = e.key
                       /\ \A j \in 1 .. n - 1 : s[(M - n) + j] = r[d + (j + 1)]
  <2>1. CASE \E p \in 1 .. Len(r) : r[p] = e.key /\ Moved(r, s, p, e.key)
    <3>1. PICK p \in 1 .. N : /\ r[p] = e.key /\ Len(s) = N
            /\ \A j \in 1 .. N : s[j] = IF j < p THEN r[j] ELSE IF j < N THEN r[j + 1] ELSE e.key
          BY <1>1, <2>1 DEF Moved
    <3>2. p <= d
      <4>1. CASE p > d
        <5>1. PICK j \in 1 .. n : p = d + j
          <6>1. p - d \in 1 .. n /\ p = d + (p - d)
                BY <1>3, <3>1, <4>1
          <6> QED
            BY <6>1
        <5> QED
          BY <1>4, <3>1, <5>1
      <4> QED
        BY <4>1
    <3>3. s[N] = e.key
          BY <3>1
    <3>4. ASSUME NEW j \in 1 .. n - 1
          PROVE  s[d + j] = r[d + (j + 1)]
      <4>1. d + j \in 1 .. N /\ ~(d + j < p) /\ d + j < N /\ (d + j) + 1 = d + (j + 1)
            BY <1>3, <3>2
      <4> QED
        BY <3>1, <4>1
    <3>5. N - n = d
          BY <1>3
    <3>6. \A j \in 1 .. n - 1 : s[(N - n) + j] = r[d + (j + 1)]
          BY <3>4, <3>5
    <3> WITNESS N \in Nat
    <3> QED
      BY <3>1, <3>3, <3>6
  <2>2. CASE Longer(r, s, e.key)
    <3>1. Len(s) = N + 1 /\ s[N + 1] = e.key /\ \A j \in 1 .. N : s[j] = r[j]
          BY <1>1, <2>2 DEF Longer
    <3>2. ASSUME NEW j \in 1 .. n - 1
          PROVE  s[((N + 1) - n) + j] = r[d + (j + 1)]
      <4>1. ((N + 1) - n) + j = d + (j + 1) /\ d + (j + 1) \in 1 .. N
            BY <1>3
      <4> QED
        BY <3>1, <4>1
    <3>3. N + 1 \in Nat /\ N + 1 >= N
          OBVIOUS
    <3> WITNESS N + 1 \in Nat
    <3> QED
      BY <3>1, <3>2, <3>3
  <2> QED
    BY <2>1, <2>2 DEF Recalls
<1>6. ASSUME NEW j \in 1 .. n
      PROVE  w[j].key = s[(M - n) + j]
  <2>1. CASE j < n
    <3>1. j \in 1 .. n - 1 /\ j + 1 \in 1 .. n
          BY <2>1
    <3>2. w[j] = l[j + 1] /\ s[(M - n) + j] = r[d + (j + 1)]
          BY <1>2, <1>5, <2>1, <3>1
    <3>3. l[j + 1].key = r[d + (j + 1)]
          BY <1>4, <3>1
    <3> QED
      BY <3>2, <3>3
  <2>2. CASE j = n
    <3>1. w[j] = e /\ (M - n) + j = M
          BY <1>2, <2>2
    <3> QED
      BY <1>5, <3>1
  <2> QED
    BY <2>1, <2>2
<1>7. \A a, b \in 1 .. Len(s) : s[a] = s[b] => a = b
      BY RecallsOnce DEF Tracks
<1> QED
  BY <1>1, <1>2, <1>3, <1>5, <1>6, <1>7, CacheConstants DEF Tracks

LEMMA GrowTracks ==
  ASSUME NEW l \in Seq(Entry), NEW w, NEW e, NEW r \in Seq(CacheKey), NEW s,
         Tracks(l, r), Recalls(r, s, e.key), Grows(l, w, e)
  PROVE  Tracks(w, s)
<1>1. PICK n \in Nat : n = Len(l) /\ n = Len(r) /\ n < MaxSize
      BY DEF Tracks, Grows
<1>2. Len(w) = n + 1 /\ w[n + 1] = e /\ \A j \in 1 .. n : w[j] = l[j]
      BY <1>1 DEF Grows, Longer
<1>3. \A j \in 1 .. n : l[j].key = r[j] /\ r[j] # e.key
  <2>1. \A j \in 1 .. n : (n - n) + j = j
        OBVIOUS
  <2> QED
    BY <1>1, <2>1 DEF Tracks, Grows
<1>4. Longer(r, s, e.key)
      BY <1>1, <1>3 DEF Recalls
<1>5. Len(s) = n + 1 /\ s[n + 1] = e.key /\ \A j \in 1 .. n : s[j] = r[j]
      BY <1>1, <1>4 DEF Longer
<1>6. \A j \in 1 .. n + 1 : w[j].key = s[((n + 1) - (n + 1)) + j]
      BY <1>2, <1>3, <1>5
<1>7. \A a, b \in 1 .. Len(s) : s[a] = s[b] => a = b
      BY RecallsOnce DEF Tracks
<1> QED
  BY <1>1, <1>2, <1>5, <1>6, <1>7, CacheConstants DEF Tracks

\* w is l without its place c, if it has it, and with e at its end.
Shifts(l, w, c, e) ==
  /\ c \in 1 .. Len(l) + 1
  /\ Len(w) # 0 /\ w[Len(w)] = e
  /\ \A j \in 1 .. Len(w) - 1 : /\ (IF j < c THEN j ELSE j + 1) \in 1 .. Len(l)
                                /\ w[j] = l[IF j < c THEN j ELSE j + 1]
  /\ \A a \in 1 .. Len(l) : a # c => \E j \in 1 .. Len(w) - 1 : w[j] = l[a]

LEMMA MovedShifts ==
  ASSUME NEW l \in Seq(Entry), NEW w \in Seq(Entry), NEW e, NEW c, Moved(l, w, c, e)
  PROVE  Shifts(l, w, c, e)
<1>1. PICK n \in Nat : n = Len(l)
      OBVIOUS
<1>2. /\ c \in 1 .. n /\ Len(w) = n
      /\ \A j \in 1 .. n : w[j] = IF j < c THEN l[j] ELSE IF j < n THEN l[j + 1] ELSE e
      BY <1>1 DEF Moved
<1>3. n # 0 /\ w[n] = e
      BY <1>2
<1>4. ASSUME NEW j \in 1 .. n - 1
      PROVE  /\ (IF j < c THEN j ELSE j + 1) \in 1 .. n
             /\ w[j] = l[IF j < c THEN j ELSE j + 1]
      BY <1>2
<1>5. ASSUME NEW a \in 1 .. n, a # c
      PROVE  \E j \in 1 .. n - 1 : w[j] = l[a]
  <2>1. CASE a < c
        BY <1>2, <2>1
  <2>2. CASE a > c
    <3>1. a - 1 \in 1 .. n - 1 /\ ~(a - 1 < c) /\ (a - 1) + 1 = a
          BY <1>2, <2>2
    <3>2. w[a - 1] = l[a]
          BY <1>4, <3>1
    <3> QED
      BY <3>1, <3>2
  <2> QED
    BY <1>2, <1>5, <2>1, <2>2
<1> QED
  BY <1>1, <1>2, <1>3, <1>4, <1>5 DEF Shifts

LEMMA LongerShifts ==
  ASSUME NEW l \in Seq(Entry), NEW w \in Seq(Entry), NEW e, Longer(l, w, e)
  PROVE  Shifts(l, w, Len(l) + 1, e)
<1>1. PICK n \in Nat : n = Len(l)
      OBVIOUS
<1>2. Len(w) = n + 1 /\ w[n + 1] = e /\ \A j \in 1 .. n : w[j] = l[j] /\ j < n + 1
      BY <1>1 DEF Longer
<1>3. (n + 1) - 1 = n /\ n + 1 \in 1 .. n + 1
      OBVIOUS
<1> QED
  BY <1>1, <1>2, <1>3 DEF Shifts

\* A list that fits leaves a node free.
LEMMA FreeIsFree ==
  ASSUME NEW l \in Seq(Entry), Len(l) <= MaxSize
  PROVE  L!Free(l) \in L!Node /\ \A i \in 1 .. Len(l) : l[i].node # L!Free(l)
<1> DEFINE S == {l[i].node : i \in 1 .. Len(l)}
<1> DEFINE f == [i \in 1 .. Len(l) |-> l[i].node]
<1>1. PICK n \in Nat : n = Len(l)
      OBVIOUS
<1>2. IsFiniteSet(1 .. n) /\ Cardinality(1 .. n) = n
      BY FS_Interval
<1>3. f \in Surjection(1 .. n, S)
  <2>1. f \in [1 .. n -> S] /\ \A s \in S : \E i \in 1 .. n : f[i] = s
        BY <1>1
  <2> HIDE DEF f, S
  <2> QED
    BY <2>1 DEF Surjection
<1>4. IsFiniteSet(S) /\ Cardinality(S) <= n
      BY <1>2, <1>3, FS_Surjection
<1>5. Cardinality(L!Node) = MaxSize + 1
  <2>1. Cardinality(1 .. MaxSize + 1) = MaxSize + 1
        BY CacheConstants, FS_Interval
  <2> QED
    BY <2>1 DEF L!Node
<1>6. S # L!Node
  <2> HIDE DEF S
  <2>1. MaxSize \in Nat /\ n <= MaxSize
        BY <1>1, CacheConstants
  <2>2. Cardinality(S) # MaxSize + 1
        BY <1>4, <2>1, FS_CardinalityType
  <2> QED
    BY <1>5, <2>2
<1>7. \A i \in 1 .. Len(l) : l[i].node \in L!Node
  <2>1. \A i \in 1 .. Len(l) : l[i] \in Entry
        OBVIOUS
  <2> QED
    BY <2>1 DEF Entry
<1>8. \E g \in L!Node : \A i \in 1 .. Len(l) : l[i].node # g
      BY <1>6, <1>7
<1> QED
  BY <1>8 DEF L!Free

\* w is l with k at its end, at the node g, which no other place of it has.
EndsWith(l, w, k, g) ==
  LET e == [node |-> g, key |-> k]
  IN /\ w = Append(l, e) /\ e \in Entry /\ w \in Seq(Entry)
     /\ L!Last(w) = e
     /\ \A j \in 1 .. Len(w) - 1 : w[j].node # g

LEMMA AddLastAdds ==
  ASSUME NEW l \in Seq(Entry), Len(l) <= MaxSize, NEW k \in CacheKey
  PROVE  \E g \in L!Node : EndsWith(l, L!AddLast(l, k), k, g)
<1>1. PICK g : g = L!Free(l)
      OBVIOUS
<1>2. g \in L!Node /\ \A i \in 1 .. Len(l) : l[i].node # g
      BY <1>1, FreeIsFree
<1>3. PICK e : e = [node |-> g, key |-> k]
      OBVIOUS
<1>4. e \in Entry
      BY <1>2, <1>3 DEF Entry
<1>5. PICK w : w = Append(l, e)
      OBVIOUS
<1>6. w \in Seq(Entry) /\ Len(w) = Len(l) + 1 /\ w[Len(l) + 1] = e
      /\ \A j \in 1 .. Len(l) : w[j] = l[j]
      BY <1>4, <1>5, AppendProperties
<1>7. Len(w) - 1 = Len(l)
      BY <1>6
<1>8. L!AddLast(l, k) = w
      BY <1>1, <1>3, <1>5 DEF L!AddLast
<1>9. L!Last(w) = e /\ \A j \in 1 .. Len(w) - 1 : w[j].node # g
      BY <1>2, <1>6, <1>7 DEF L!Last
<1>10. EndsWith(l, w, k, g)
       BY <1>3, <1>4, <1>5, <1>6, <1>9 DEF EndsWith
<1> QED
  BY <1>2, <1>8, <1>10

CacheInv ==
  /\ map \in [CacheKey -> [node : L!Node, value : {v1, Empty}] \cup {L!None}]
  /\ list \in Seq(Entry) /\ recent \in Seq(CacheKey)
  /\ latest \in [CacheKey -> {v1, Empty, Absent}]
  /\ Tracks(list, recent)
  /\ \A i, j \in 1 .. Len(list) : list[i].node = list[j].node => i = j
  /\ \A i \in 1 .. Len(list) :
       map[list[i].key] = [node |-> list[i].node, value |-> latest[list[i].key]]
  /\ \A k \in L!Keys : \E i \in 1 .. Len(list) : list[i].key = k

LEMMA ListedKeys ==
  ASSUME CacheInv
  PROVE  /\ \A i, j \in 1 .. Len(list) : list[i].key = list[j].key => i = j
         /\ \A i \in 1 .. Len(list) : list[i].key \in L!Keys /\ list[i] \in Entry
         /\ L!Cardinality(L!Keys) = Len(list)
<1>1. PICK n \in Nat, N \in Nat : n = Len(list) /\ N = Len(recent)
      BY DEF CacheInv
<1>2. ASSUME NEW i \in 1 .. n, NEW j \in 1 .. n, list[i].key = list[j].key
      PROVE  i = j
  <2>1. n <= N /\ list[i].key = recent[(N - n) + i] /\ list[j].key = recent[(N - n) + j]
        BY <1>1 DEF CacheInv, Tracks
  <2>2. (N - n) + i \in 1 .. N /\ (N - n) + j \in 1 .. N
        BY <2>1
  <2>3. (N - n) + i = (N - n) + j
        BY <1>1, <1>2, <2>1, <2>2 DEF CacheInv, Tracks
  <2> QED
    BY <2>3
<1>3. ASSUME NEW i \in 1 .. n
      PROVE  list[i].key \in L!Keys /\ list[i] \in Entry
  <2>1. list[i] \in Entry
        BY <1>1 DEF CacheInv
  <2>2. list[i].key \in CacheKey /\ list[i].node \in 1 .. MaxSize + 1
        BY <2>1 DEF Entry, L!Node
  <2>3. map[list[i].key] = [node |-> list[i].node, value |-> latest[list[i].key]]
        BY <1>1 DEF CacheInv
  <2>4. map[list[i].key].node # 0
        BY <2>2, <2>3
  <2>5. map[list[i].key] # L!None
        BY <2>4 DEF L!None
  <2> QED
    BY <2>1, <2>2, <2>5 DEF L!Keys
<1> DEFINE f == [i \in 1 .. n |-> list[i].key]
<1>4. f \in Bijection(1 .. n, L!Keys)
  <2>1. f \in [1 .. n -> L!Keys] /\ \A i, j \in 1 .. n : f[i] = f[j] => i = j
        BY <1>2, <1>3
  <2>2. \A k \in L!Keys : \E i \in 1 .. n : f[i] = k
        BY <1>1 DEF CacheInv
  <2> HIDE DEF f
  <2> QED
    BY <2>1, <2>2 DEF Bijection, Injection, Surjection, IsInjective
<1>5. IsFiniteSet(1 .. n) /\ Cardinality(1 .. n) = n
      BY FS_Interval
<1> HIDE DEF f
<1>6. ExistsBijection(1 .. n, L!Keys)
      BY <1>4 DEF ExistsBijection
<1>7. Cardinality(L!Keys) = n
      BY <1>5, <1>6, FS_Bijection
<1>8. L!Cardinality(L!Keys) = Cardinality(L!Keys)
      BY DEF L!Cardinality, Cardinality
<1> QED
  BY <1>1, <1>2, <1>3, <1>7, <1>8

\* A use of k: the place c of the list goes, with its entry, and k comes to the end, at g.
Uses(k, v, g, c) ==
  /\ list' \in Seq(Entry) /\ recent' \in Seq(CacheKey) /\ Tracks(list', recent')
  /\ Shifts(list, list', c, [node |-> g, key |-> k])
  /\ \A a \in 1 .. Len(list) : a # c => list[a].key # k
  /\ \A j \in 1 .. Len(list') - 1 : list'[j].node # g
  /\ map' \in [CacheKey -> [node : L!Node, value : {v1, Empty}] \cup {L!None}]
  /\ map'[k] = [node |-> g, value |-> v]
  /\ \A x \in CacheKey \ {k} :
       map'[x] = IF c \in 1 .. Len(list) /\ x = list[c].key THEN L!None ELSE map[x]
  /\ latest' = [latest EXCEPT ![k] = v]

LEMMA UseKeeps ==
  ASSUME CacheInv, NEW k \in CacheKey, NEW v \in {v1, Empty}, NEW g \in L!Node, NEW c,
         Uses(k, v, g, c)
  PROVE  CacheInv'
<1>1. PICK m \in Nat, n \in Nat : m = Len(list) /\ n = Len(list')
  <2>1. list \in Seq(Entry) /\ list' \in Seq(Entry)
        BY DEF CacheInv, Uses
  <2> QED
    BY <2>1
<1>2. PICK e : e = [node |-> g, key |-> k]
      OBVIOUS
<1>3. /\ n # 0 /\ list'[n] = e /\ e.node = g /\ e.key = k
      /\ \A j \in 1 .. n - 1 : /\ (IF j < c THEN j ELSE j + 1) \in 1 .. m
                               /\ list'[j] = list[IF j < c THEN j ELSE j + 1]
      /\ \A a \in 1 .. m : a # c => \E j \in 1 .. n - 1 : list'[j] = list[a]
      /\ c \in 1 .. m + 1
      BY <1>1, <1>2 DEF Uses, Shifts
<1>4. ASSUME NEW j \in 1 .. n - 1
      PROVE  \E a \in 1 .. m : /\ a = IF j < c THEN j ELSE j + 1
                               /\ list'[j] = list[a] /\ a # c
  <2>1. (IF j < c THEN j ELSE j + 1) # c
        BY <1>3
  <2> QED
    BY <1>3, <2>1
<1>5. /\ latest' = [latest EXCEPT ![k] = v]
      /\ latest' \in [CacheKey -> {v1, Empty, Absent}]
      BY DEF CacheInv, Uses
<1>6. ASSUME NEW i \in 1 .. n, NEW j \in 1 .. n, list'[i].node = list'[j].node
      PROVE  i = j
  <2>1. ASSUME NEW x \in 1 .. n - 1
        PROVE  list'[x].node # g
        BY <1>1 DEF Uses
  <2>2. CASE i # n /\ j # n
    <3>1. PICK a \in 1 .. m : a = (IF i < c THEN i ELSE i + 1) /\ list'[i] = list[a]
          BY <1>4, <2>2
    <3>2. PICK b \in 1 .. m : b = (IF j < c THEN j ELSE j + 1) /\ list'[j] = list[b]
          BY <1>4, <2>2
    <3>3. a = b
          BY <1>1, <1>6, <3>1, <3>2 DEF CacheInv
    <3>4. c \in Nat
          BY <1>3
    <3> QED
      BY <3>1, <3>2, <3>3, <3>4
  <2> QED
    BY <1>3, <1>6, <2>1, <2>2
<1>7. ASSUME NEW j \in 1 .. n
      PROVE  map'[list'[j].key] = [node |-> list'[j].node, value |-> latest'[list'[j].key]]
  <2>1. CASE j = n
    <3>1. latest'[k] = v /\ map'[k] = [node |-> g, value |-> v]
          BY <1>5 DEF CacheInv, Uses
    <3> QED
      BY <1>3, <2>1, <3>1
  <2>2. CASE j # n
    <3>1. PICK a \in 1 .. m : list'[j] = list[a] /\ a # c
          BY <1>4, <2>2
    <3>2. PICK x : x = list[a].key
          OBVIOUS
    <3>3. x # k /\ x \in CacheKey
      <4>1. list[a] \in Entry
            BY <1>1, ListedKeys
      <4> QED
        BY <1>1, <3>1, <3>2, <4>1 DEF Entry, Uses
    <3>4. ~(c \in 1 .. m /\ x = list[c].key)
          BY <1>1, <3>1, <3>2, ListedKeys
    <3>5. map'[x] = map[x] /\ latest'[x] = latest[x]
          BY <1>1, <1>5, <3>3, <3>4 DEF CacheInv, Uses
    <3>6. map[x] = [node |-> list[a].node, value |-> latest[x]]
          BY <1>1, <3>2 DEF CacheInv
    <3> QED
      BY <3>1, <3>2, <3>5, <3>6
  <2> QED
    BY <2>1, <2>2
<1>8. ASSUME NEW x \in CacheKey, map'[x] # L!None
      PROVE  \E j \in 1 .. n : list'[j].key = x
  <2>1. CASE x = k
        BY <1>3, <2>1
  <2>2. CASE x # k
    <3>1. map[x] # L!None /\ ~(c \in 1 .. m /\ x = list[c].key)
          BY <1>1, <1>8, <2>2 DEF Uses
    <3>2. PICK a \in 1 .. m : list[a].key = x
          BY <1>1, <3>1 DEF CacheInv, L!Keys
    <3>3. a # c
          BY <3>1, <3>2
    <3>4. PICK j \in 1 .. n - 1 : list'[j] = list[a]
          BY <1>3, <3>3
    <3> QED
      BY <3>2, <3>4
  <2> QED
    BY <2>1, <2>2
<1>9. \A x \in L!Keys' : x \in CacheKey /\ map'[x] # L!None
      BY DEF L!Keys, L!None
<1> QED
  BY <1>1, <1>5, <1>6, <1>7, <1>8, <1>9 DEF CacheInv, L!None, L!Node, Entry, Uses

LEMMA UsedRecalls ==
  ASSUME CacheInv, NEW k \in CacheKey, L!Used(k)
  PROVE  recent' \in Seq(CacheKey) /\ Recalls(recent, recent', k)
<1>1. recent \in Seq(CacheKey)
      BY DEF CacheInv
<1>2. k \in L!ToSet(recent) <=> \E p \in 1 .. Len(recent) : recent[p] = k
      BY <1>1 DEF L!ToSet
<1>3. CASE k \in L!ToSet(recent)
  <2>1. PICK p : p = CHOOSE i \in 1 .. Len(recent) : recent[i] = k
        OBVIOUS
  <2>2. p \in 1 .. Len(recent) /\ recent[p] = k
        BY <1>2, <1>3, <2>1
  <2>3. recent' = Append(L!RemoveAt(recent, p), k)
        BY <1>3, <2>1 DEF L!Used
  <2> QED
    BY <1>1, <2>2, <2>3, AppendMoves DEF Recalls
<1>4. CASE k \notin L!ToSet(recent)
  <2>1. recent' = Append(recent, k)
        BY <1>4 DEF L!Used
  <2> QED
    BY <1>1, <1>2, <1>4, <2>1, AppendMoves DEF Recalls
<1> QED
  BY <1>3, <1>4

LEMMA RefreshStep ==
  ASSUME CacheInv, NEW k \in CacheKey, NEW v \in {v1, Empty}, k \in L!Keys,
         L!refresh(k, v), L!Used(k), latest' = [latest EXCEPT ![k] = v]
  PROVE  CacheInv'
<1>1. list \in Seq(Entry) /\ recent \in Seq(CacheKey) /\ Tracks(list, recent)
      BY DEF CacheInv
<1>2. PICK b \in 1 .. Len(list) : list[b].key = k /\ map[k].node = list[b].node
  <2>1. PICK b \in 1 .. Len(list) : list[b].key = k
        BY DEF CacheInv
  <2>2. map[list[b].key] = [node |-> list[b].node, value |-> latest[list[b].key]]
        BY DEF CacheInv
  <2> QED
    BY <2>1, <2>2
<1>3. PICK c : c = CHOOSE i \in 1 .. Len(list) : list[i].node = map[k].node
      OBVIOUS
<1>4. c \in 1 .. Len(list) /\ list[c].node = map[k].node
      BY <1>2, <1>3
<1>5. c = b
      BY <1>2, <1>4 DEF CacheInv
<1>6. PICK l : l = L!RemoveAt(list, c)
      OBVIOUS
<1>7. l = L!Without(list, map[k].node)
      BY <1>3, <1>6 DEF L!Without
<1>8. l \in Seq(Entry) /\ Len(l) <= MaxSize
  <2>1. l \in Seq(Entry) /\ Len(l) = Len(list) - 1
        BY <1>1, <1>4, <1>6, Removed
  <2> QED
    BY <1>1, <2>1, CacheConstants DEF Tracks
<1>9. PICK g \in L!Node : EndsWith(l, list', k, g)
  <2>1. list' = L!AddLast(l, k)
        BY <1>7 DEF L!refresh
  <2> QED
    BY <1>8, <2>1, AddLastAdds
<1>10. PICK e : e = [node |-> g, key |-> k]
       OBVIOUS
<1>11. Moved(list, list', c, e)
       BY <1>1, <1>4, <1>6, <1>9, <1>10, AppendMoves DEF EndsWith
<1>12. Shifts(list, list', c, e)
       BY <1>1, <1>9, <1>11, MovedShifts DEF EndsWith
<1>13. recent' \in Seq(CacheKey) /\ Recalls(recent, recent', k)
       BY UsedRecalls
<1>14. Tracks(list', recent')
  <2>1. e.key = k
        BY <1>10
  <2>2. Refreshes(list, list', e)
        BY <1>2, <1>4, <1>5, <1>11, <2>1 DEF Refreshes
  <2> QED
    BY <1>1, <1>13, <2>1, <2>2, RefreshTracks
<1>15. map' = [map EXCEPT ![k] = [node |-> g, value |-> v]]
  <2>1. L!Last(list').node = g
        BY <1>9 DEF EndsWith
  <2>2. map' = [map EXCEPT ![k] = [node |-> L!Last(list').node, value |-> v]]
        BY DEF L!refresh
  <2> QED
    BY <2>1, <2>2
<1>16. \A a \in 1 .. Len(list) : a # c => list[a].key # k
       BY <1>2, <1>5, ListedKeys
<1>17. list[c].key = k
       BY <1>2, <1>5
<1>18. /\ map' \in [CacheKey -> [node : L!Node, value : {v1, Empty}] \cup {L!None}]
       /\ map'[k] = [node |-> g, value |-> v]
       /\ \A x \in CacheKey \ {k} :
            map'[x] = IF c \in 1 .. Len(list) /\ x = list[c].key THEN L!None ELSE map[x]
       BY <1>15, <1>17 DEF CacheInv
<1>19. Shifts(list, list', c, [node |-> g, key |-> k])
       BY <1>10, <1>12
<1>20. list' \in Seq(Entry) /\ \A j \in 1 .. Len(list') - 1 : list'[j].node # g
       BY <1>9 DEF EndsWith
<1>21. Uses(k, v, g, c)
       BY <1>13, <1>14, <1>16, <1>18, <1>19, <1>20 DEF Uses
<1> QED
  BY <1>21, UseKeeps

LEMMA InsertStep ==
  ASSUME CacheInv, NEW k \in CacheKey, NEW v \in {v1, Empty}, k \notin L!Keys,
         L!insert(k, v), L!Used(k), latest' = [latest EXCEPT ![k] = v]
  PROVE  CacheInv'
<1>1. list \in Seq(Entry) /\ recent \in Seq(CacheKey) /\ Tracks(list, recent)
      BY DEF CacheInv
<1>2. \A a \in 1 .. Len(list) : list[a].key # k
      BY ListedKeys
<1>3. L!Cardinality(L!Keys) = Len(list)
      BY ListedKeys
<1>4. recent' \in Seq(CacheKey) /\ Recalls(recent, recent', k)
      BY UsedRecalls
<1>5. CASE Len(list) >= MaxSize
  <2>1. list # <<>> /\ Len(list) = MaxSize
        BY <1>1, <1>5, CacheConstants, EmptySeq DEF Tracks
  <2>2. PICK l : l = Tail(list)
        OBVIOUS
  <2>3. l \in Seq(Entry) /\ Len(l) <= MaxSize
    <3>1. l \in Seq(Entry) /\ Len(l) = Len(list) - 1
          BY <1>1, <2>1, <2>2, HeadTailProperties
    <3> QED
      BY <2>1, <3>1, CacheConstants
  <2>4. /\ list' = L!AddLast(l, k)
        /\ map' = [[map EXCEPT ![Head(list).key] = L!None]
                      EXCEPT ![k] = [node |-> L!Last(list').node, value |-> v]]
        BY <1>3, <1>5, <2>2 DEF L!insert
  <2>5. PICK g \in L!Node : EndsWith(l, list', k, g)
        BY <2>3, <2>4, AddLastAdds
  <2>6. PICK e : e = [node |-> g, key |-> k]
        OBVIOUS
  <2>7. Moved(list, list', 1, e) /\ e.key = k
        BY <1>1, <2>1, <2>2, <2>5, <2>6, AppendMoves DEF EndsWith
  <2>8. Shifts(list, list', 1, e)
        BY <1>1, <2>5, <2>7, MovedShifts DEF EndsWith
  <2>9. Replaces(list, list', e)
        BY <1>2, <2>1, <2>7 DEF Replaces
  <2>10. Tracks(list', recent')
         BY <1>1, <1>4, <2>7, <2>9, ReplaceTracks
  <2>11. Head(list) = list[1] /\ 1 \in 1 .. Len(list) /\ list[1].key \in CacheKey
    <3>1. 1 \in 1 .. Len(list)
          BY <2>1, CacheConstants
    <3>2. list[1] \in Entry
          BY <1>1, <3>1
    <3>3. Head(list) = list[1]
          BY <1>1, <2>1
    <3> QED
      BY <3>1, <3>2, <3>3 DEF Entry
  <2>12. /\ map' \in [CacheKey -> [node : L!Node, value : {v1, Empty}] \cup {L!None}]
         /\ map'[k] = [node |-> g, value |-> v]
         /\ \A x \in CacheKey \ {k} :
              map'[x] = IF 1 \in 1 .. Len(list) /\ x = list[1].key THEN L!None ELSE map[x]
    <3>1. L!Last(list').node = g
          BY <2>5 DEF EndsWith
    <3>2. map' = [[map EXCEPT ![list[1].key] = L!None] EXCEPT ![k] = [node |-> g, value |-> v]]
          BY <2>4, <2>11, <3>1
    <3> QED
      BY <2>11, <3>2 DEF CacheInv
  <2>13. Shifts(list, list', 1, [node |-> g, key |-> k])
         BY <2>6, <2>8
  <2>14. list' \in Seq(Entry) /\ \A j \in 1 .. Len(list') - 1 : list'[j].node # g
         BY <2>5 DEF EndsWith
  <2>15. Uses(k, v, g, 1)
         BY <1>2, <1>4, <2>10, <2>12, <2>13, <2>14 DEF Uses
  <2> QED
    BY <2>15, UseKeeps
<1>6. CASE ~(Len(list) >= MaxSize)
  <2>1. Len(list) < MaxSize /\ Len(list) <= MaxSize
        BY <1>1, <1>6, CacheConstants
  <2>2. /\ list' = L!AddLast(list, k)
        /\ map' = [map EXCEPT ![k] = [node |-> L!Last(list').node, value |-> v]]
        BY <1>3, <1>6 DEF L!insert
  <2>3. PICK g \in L!Node : EndsWith(list, list', k, g)
        BY <1>1, <2>1, <2>2, AddLastAdds
  <2>4. PICK e : e = [node |-> g, key |-> k]
        OBVIOUS
  <2>5. Longer(list, list', e) /\ e.key = k
        BY <1>1, <2>3, <2>4, AppendMoves DEF EndsWith
  <2>6. PICK c : c = Len(list) + 1
        OBVIOUS
  <2>7. Shifts(list, list', c, e) /\ c \notin 1 .. Len(list)
    <3>1. Shifts(list, list', Len(list) + 1, e)
          BY <1>1, <2>3, <2>5, LongerShifts DEF EndsWith
    <3> QED
      BY <1>1, <2>6, <3>1
  <2>8. Grows(list, list', e)
        BY <1>2, <2>1, <2>5 DEF Grows
  <2>9. Tracks(list', recent')
        BY <1>1, <1>4, <2>5, <2>8, GrowTracks
  <2>10. /\ map' \in [CacheKey -> [node : L!Node, value : {v1, Empty}] \cup {L!None}]
         /\ map'[k] = [node |-> g, value |-> v]
         /\ \A x \in CacheKey \ {k} :
              map'[x] = IF c \in 1 .. Len(list) /\ x = list[c].key THEN L!None ELSE map[x]
    <3>1. L!Last(list').node = g
          BY <2>3 DEF EndsWith
    <3>2. map' = [map EXCEPT ![k] = [node |-> g, value |-> v]]
          BY <2>2, <3>1
    <3> QED
      BY <2>7, <3>2 DEF CacheInv
  <2>11. Shifts(list, list', c, [node |-> g, key |-> k])
         BY <2>4, <2>7
  <2>12. list' \in Seq(Entry) /\ \A j \in 1 .. Len(list') - 1 : list'[j].node # g
         BY <2>3 DEF EndsWith
  <2>13. Uses(k, v, g, c)
         BY <1>2, <1>4, <2>9, <2>10, <2>11, <2>12 DEF Uses
  <2> QED
    BY <2>13, UseKeeps
<1> QED
  BY <1>5, <1>6

LEMMA CacheStep ==
  ASSUME CacheInv, L!Next
  PROVE  CacheInv'
<1>1. PICK k \in CacheKey :
        \/ L!getCopy(k)
        \/ \E v \in {v1, Empty} : L!put(k, v) \/ L!get(k, v)
      BY DEF L!Next
<1>2. ASSUME NEW v \in {v1, Empty}, L!put(k, v)
      PROVE  CacheInv'
      BY <1>2, RefreshStep, InsertStep DEF L!put
<1>3. ASSUME NEW v \in {v1, Empty}, L!get(k, v)
      PROVE  CacheInv'
      BY <1>3, RefreshStep DEF L!get
<1>4. CASE L!getCopy(k)
  <2>1. k \in L!Keys /\ L!get(k, map[k].value)
        BY <1>4 DEF L!getCopy, L!get
  <2>2. map[k].value \in {v1, Empty}
        BY <2>1 DEF CacheInv, L!Keys
  <2> QED
    BY <1>3, <2>1, <2>2
<1> QED
  BY <1>1, <1>2, <1>3, <1>4

LEMMA CacheStarts == L!Init => CacheInv
<1> SUFFICES ASSUME L!Init PROVE CacheInv
    OBVIOUS
<1>1. /\ map = [k \in CacheKey |-> L!None] /\ list = <<>> /\ recent = <<>>
      /\ latest = [k \in CacheKey |-> Absent]
      BY DEF L!Init
<1>2. L!Keys = {}
      BY <1>1 DEF L!Keys
<1>3. Len(list) = 0 /\ Len(recent) = 0 /\ list \in Seq(Entry) /\ recent \in Seq(CacheKey)
      BY <1>1, EmptySeq
<1>4. Tracks(list, recent)
      BY <1>3, CacheConstants DEF Tracks
<1> QED
  BY <1>1, <1>2, <1>3, <1>4 DEF CacheInv

LEMMA CacheFits == CacheInv => KeepsMostRecent
<1> SUFFICES ASSUME CacheInv PROVE KeepsMostRecent
    OBVIOUS
<1>1. PICK m \in Nat, N \in Nat : m = Len(list) /\ N = Len(recent)
      BY DEF CacheInv
<1>2. m = IF N < MaxSize THEN N ELSE MaxSize
      BY <1>1, CacheConstants DEF CacheInv, Tracks
<1>3. PICK d \in Nat : d = N - m /\ N = d + m
  <2>1. m <= N
        BY <1>1 DEF CacheInv, Tracks
  <2>2. N - m \in Nat /\ N = (N - m) + m
        BY <2>1
  <2> QED
    BY <2>2
<1>4. PICK kept : kept = SubSeq(recent, N - m + 1, N)
      OBVIOUS
<1>5. kept = [i \in 1 .. m |-> list[i].key]
  <2>1. kept = [i \in 1 .. m |-> recent[d + i]]
    <3>1. /\ kept \in Seq(CacheKey) /\ Len(kept) = m
          /\ \A i \in 1 .. m : kept[i] = recent[d + i]
      <4>1. /\ d + 1 \in 1 .. N + 1 /\ N \in d .. N /\ N - m + 1 = d + 1
            BY <1>3
      <4>2. /\ kept \in Seq(CacheKey)
            /\ Len(kept) = IF d + 1 <= N THEN N - (d + 1) + 1 ELSE 0
            /\ \A i \in 1 .. N - (d + 1) + 1 : kept[i] = recent[(d + 1) + i - 1]
        <5>1. \A i \in d + 1 .. N : recent[i] \in CacheKey
              BY <1>1 DEF CacheInv
        <5>2. kept = SubSeq(recent, d + 1, N)
              BY <1>4, <4>1
        <5> QED
          BY <5>1, <5>2, SubSeqProperties
      <4>3. N - (d + 1) + 1 = m /\ \A i \in 1 .. m : (d + 1) + i - 1 = d + i
            BY <1>3
      <4> QED
        BY <1>3, <4>2, <4>3
    <3> QED
      BY <3>1, LenProperties
  <2>2. \A i \in 1 .. m : list[i].key = recent[d + i]
        BY <1>1, <1>3 DEF CacheInv, Tracks
  <2> QED
    BY <2>1, <2>2
<1>6. L!Keys = {kept[i] : i \in 1 .. m}
  <2>1. \A i \in 1 .. m : kept[i] = list[i].key
        BY <1>5
  <2>2. \A i \in 1 .. m : list[i].key \in L!Keys
        BY <1>1, ListedKeys
  <2>3. \A k \in L!Keys : \E i \in 1 .. m : list[i].key = k
        BY <1>1 DEF CacheInv
  <2> QED
    BY <2>1, <2>2, <2>3
<1>7. \A i \in 1 .. Len(list) :
        map[list[i].key] = [node |-> list[i].node, value |-> latest[list[i].key]]
      BY DEF CacheInv
<1>8. (IF Len(recent) < MaxSize THEN Len(recent) ELSE MaxSize) = m
      BY <1>1, <1>2
<1>9. SubSeq(recent, Len(recent) - m + 1, Len(recent)) = kept
      BY <1>1, <1>4
<1>10. [i \in 1 .. Len(list) |-> list[i].key] = kept
       BY <1>1, <1>5
<1> QED
  BY <1>6, <1>7, <1>8, <1>9, <1>10, Zenon DEF KeepsMostRecent, L!KeepsMostRecent

\* ComMapLRU holds the keys used last, as many as max_size allows, each with what was
\* last stored for it; its list tells the order of their uses, and every entry points to
\* the node of its own key, so that the erase of one never takes another's.
THEOREM CacheIsRecent == StoresSpec => []KeepsMostRecent
<1>1. StoresInit => CacheInv
      BY CacheStarts DEF StoresInit
<1>2. ASSUME CacheInv, [StoresNext]_<<store, fileVars, cacheVars, vars>>
      PROVE  CacheInv'
  <2>1. CASE L!Next
        BY <1>2, <2>1, CacheStep
  <2>2. CASE UNCHANGED cacheVars
        BY <1>2, <2>2 DEF cacheVars, CacheInv, Tracks, L!Keys, L!None, L!Node, Entry
  <2> QED
    BY <1>2, <2>1, <2>2 DEF StoresNext
<1> QED
  BY <1>1, <1>2, CacheFits, PTL DEF StoresSpec
=============================================================================
