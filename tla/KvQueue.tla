------------------------------ MODULE KvQueue ------------------------------
(***************************************************************************)
(* What com_kv.cpp promises the programs that share a file, without rows,  *)
(* ids, handles or locks: keys with their data, in the order in which they *)
(* were last set.  A call changes the list in one step or not at all; a    *)
(* batch is seen by nobody else until it is stopped, and is then taken     *)
(* over as a whole or not at all.  reply is what the last call returned.   *)
(*                                                                         *)
(* A key that is the name of the key column means every key to the calls   *)
(* that look it up: the code writes it between double quotes.              *)
(***************************************************************************)
EXTENDS Naturals, FiniteSets

CONSTANTS
  Caller,       \* the threads and processes that share the file
  Key, ColumnKey,
  Value, Empty, \* data; the empty string
  Absent,       \* no data
  Nobody

VARIABLES
  list,         \* [data, before]: the data of the keys, and which is before which
  batch,        \* who is in a batch
  writer,       \* whose batch has changes, if anybody's
  draft,        \* the list as the writer has changed it
  reply

vars == <<reply, batch, writer, list, draft>>

EmptyList == [data |-> [k \in Key |-> Absent], before |-> {}]

Init ==
  /\ list = EmptyList /\ draft = EmptyList
  /\ batch = {} /\ writer = Nobody
  /\ reply = [c \in Caller |-> "none"]

Present(l) == {k \in Key : l.data[k] # Absent}

\* A key that is set goes to the end, wherever it was.
Put(l, k, v) ==
  [data |-> [l.data EXCEPT ![k] = v],
   before |-> {p \in l.before : k \notin {p[1], p[2]}}
              \cup {<<x, k>> : x \in Present(l) \ {k}}]

Drop(l, S) ==
  [data |-> [k \in Key |-> IF k \in S THEN Absent ELSE l.data[k]],
   before |-> {p \in l.before : p[1] \notin S /\ p[2] \notin S}]

Front(l, n) == {k \in Present(l) : Cardinality({p \in l.before : p[2] = k}) < n}
Back(l, n) == {k \in Present(l) : Cardinality({p \in l.before : p[1] = k}) < n}
Meant(l, k) == IF k \in ColumnKey THEN Present(l) ELSE {k} \cap Present(l)

Reply(c, r) == reply' = [reply EXCEPT ![c] = r]
OneGone(S) == IF Cardinality(S) = 1 THEN "true" ELSE "false"

\* A call of c outside a batch, while no batch has changes.
Change(c, l) ==
  /\ c \notin batch /\ writer = Nobody
  /\ UNCHANGED <<batch, writer>>
  /\ list' = l /\ draft' = l

\* A call in the batch of c, while no other batch has changes.
Edit(c, l) ==
  /\ c \in batch /\ writer \in {Nobody, c}
  /\ writer' = c /\ draft' = l
  /\ UNCHANGED <<batch, list>>

Set(c, k, v) ==
  /\ Reply(c, "true")
  /\ Change(c, Put(list, k, v)) \/ Edit(c, Put(draft, k, v))

Remove(c, k) ==
  \/ Reply(c, OneGone(Meant(list, k))) /\ Change(c, Drop(list, Meant(list, k)))
  \/ Reply(c, OneGone(Meant(draft, k))) /\ Edit(c, Drop(draft, Meant(draft, k)))

RemoveSome(c) ==
  /\ Reply(c, "none")
  /\ \E n \in 1 .. Cardinality(Key) :
       \E S \in {Front(list, n), Back(list, n)} : Change(c, Drop(list, S))

Get(c, k) ==
  /\ \E x \in Meant(list, k) : list.data[x] # Empty /\ Reply(c, list.data[x])
  /\ UNCHANGED <<batch, writer, list, draft>>

\* Nothing was there, or the call gave up, or its program ended: no change.
Fail(c) == \E r \in {"none", "false"} : Reply(c, r) /\ UNCHANGED <<batch, writer, list, draft>>

Begin(c) ==
  /\ batch' = batch \cup {c}
  /\ UNCHANGED <<reply, writer, list, draft>>

\* A batch ends: what it has changed is there for all to see, or gone.
Stop(c) ==
  /\ c \in batch /\ batch' = batch \ {c}
  /\ IF writer = c
     THEN /\ writer' = Nobody
          /\ (list' = draft /\ draft' = draft) \/ (list' = list /\ draft' = list)
     ELSE UNCHANGED <<writer, list, draft>>
  /\ Reply(c, "none")

Next ==
  \E c \in Caller :
    \/ Fail(c) \/ Begin(c) \/ Stop(c)
    \/ \E k \in Key : Get(c, k) \/ Remove(c, k) \/ \E v \in Value : Set(c, k, v)
    \/ RemoveSome(c)

Spec == Init /\ [][Next]_vars
=============================================================================
