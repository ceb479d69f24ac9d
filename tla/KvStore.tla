------------------------------ MODULE KvStore ------------------------------
(***************************************************************************)
(* The key-value store of com_kv.cpp: one table of an SQLite file that     *)
(* threads and processes share.  Every call opens a handle of its own,     *)
(* makes the table if it sees none, runs a statement or two and closes;    *)
(* a batch keeps its handle and a transaction open between calls.  What a  *)
(* call is asked is chosen when its statement runs: nothing before depends *)
(* on it.                                                                  *)
(*                                                                         *)
(* SQLite is taken as the code uses it, with its rollback journal: one     *)
(* holder of the write lock, a statement outside a transaction is one, a   *)
(* transaction that was not committed is rolled back when its handle is    *)
(* closed or, after a crash, when the file is used again.  A statement     *)
(* that finds the file locked is tried again (com_sqlite_run_sql) until    *)
(* the lock is free or the tries are used up; programs that only read can  *)
(* lock out a commit as well.                                              *)
(***************************************************************************)
EXTENDS Naturals, FiniteSets

CONSTANTS
  Caller,       \* the threads and processes that share the file
  Key,
  ColumnKey,    \* keys spelled like the column of the keys, uuid
  Value, Empty, \* data; the empty string
  Stored,       \* what the programs store under each key
  Absent,       \* no row
  Nobody,
  MaxId         \* bound on the ids of rows

KvConstants ==
  /\ ColumnKey \subseteq Key /\ Stored \in [Key -> SUBSET Value]
  /\ Absent \notin Value /\ Nobody \notin Caller
  /\ IsFiniteSet(Key) /\ MaxId \in Nat

VARIABLES
  table,   \* the table exists
  kv,      \* the committed rows: their ids and data, and sqlite_sequence
  owner,   \* who holds the write lock between two calls: a batch
  draft,   \* the rows as the owner of the lock sees them
  at,      \* where each caller is
  ret      \* what its last call returned

fileVars == <<table, kv, owner, draft>>
vars == <<fileVars, at, ret>>

NoRows == [id |-> [k \in Key |-> 0], data |-> [k \in Key |-> Absent], seq |-> 0]

Init ==
  /\ table = FALSE
  /\ kv = NoRows /\ draft = NoRows /\ owner = Nobody
  /\ at = [c \in Caller |-> "idle"] /\ ret = [c \in Caller |-> "none"]

Goto(c, label) == at' = [at EXCEPT ![c] = label]
Return(c, r) == ret' = [ret EXCEPT ![c] = r]

-----------------------------------------------------------------------------
(* The statements *)

Rows(r) == {k \in Key : r.data[k] # Absent}
Largest(r) == CHOOSE n \in {r.id[k] : k \in Key} : \A k \in Key : r.id[k] <= n

\* INTEGER PRIMARY KEY AUTOINCREMENT: above the largest row and above sqlite_sequence.
newId(r) == 1 + (IF Largest(r) > r.seq THEN Largest(r) ELSE r.seq)

\* REPLACE INTO "kv" (uuid,data): an old row of the key goes, a new one comes.
replaceInto(r, k, v) ==
  [id |-> [r.id EXCEPT ![k] = newId(r)], data |-> [r.data EXCEPT ![k] = v], seq |-> newId(r)]

deleteFrom(r, S) ==
  [r EXCEPT !.id = [k \in Key |-> IF k \in S THEN 0 ELSE r.id[k]],
            !.data = [k \in Key |-> IF k \in S THEN Absent ELSE r.data[k]]]

\* WHERE uuid="key": between double quotes the name of a column is that column.
where(r, k) == IF k \in ColumnKey THEN Rows(r) ELSE {k} \cap Rows(r)

\* ORDER BY id LIMIT n, and DESC
firstRows(r, n) == {k \in Rows(r) : Cardinality({x \in Rows(r) : r.id[x] < r.id[k]}) < n}
lastRows(r, n) == {k \in Rows(r) : Cardinality({x \in Rows(r) : r.id[x] > r.id[k]}) < n}

\* sqlite3_changes of a DELETE, compared with 1
changedOne(S) == IF Cardinality(S) = 1 THEN "true" ELSE "false"

\* A statement of c outside a transaction makes the rows r.
Commit(r) ==
  /\ owner = Nobody
  /\ kv' = r /\ draft' = r
  /\ UNCHANGED <<table, owner>>

-----------------------------------------------------------------------------
(* kv_open *)

\* The look for the table sees none also when the file is locked for reading,
\* which the owner of the lock does when it writes back.
kv_open(c) ==
  /\ at[c] = "idle"
  /\ \E seen \in (IF owner = Nobody THEN {table} ELSE {table, FALSE}) :
       Goto(c, IF seen THEN "opened" ELSE "create")
  /\ Return(c, "none")
  /\ UNCHANGED fileVars

kv_create_table(c) ==
  /\ at[c] = "create" /\ ~table
  /\ table' = TRUE
  /\ Goto(c, "opened")
  /\ UNCHANGED <<kv, owner, draft, ret>>

\* The table is there after all: CREATE TABLE fails and so does the call.
createFails(c) ==
  /\ at[c] = "create" /\ table
  /\ Goto(c, "idle") /\ Return(c, "false")
  /\ UNCHANGED fileVars

\* The file is locked to the last try.
giveUp(c) ==
  /\ at[c] \in {"create", "opened", "sequence"}
  /\ Goto(c, "idle") /\ Return(c, "false")
  /\ UNCHANGED fileVars

-----------------------------------------------------------------------------
(* Calls of one statement *)

com_kv_set(c, k, v) ==
  /\ at[c] = "opened" /\ newId(kv) <= MaxId
  /\ Commit(replaceInto(kv, k, v))
  /\ Goto(c, "idle") /\ Return(c, "true")

com_kv_remove(c, k) ==
  /\ at[c] = "opened"
  /\ Commit(deleteFrom(kv, where(kv, k)))
  /\ Goto(c, "idle") /\ Return(c, changedOne(where(kv, k)))

com_kv_remove_front(c, count) ==
  /\ at[c] = "opened"
  /\ Commit(deleteFrom(kv, firstRows(kv, count)))
  /\ Goto(c, "idle") /\ Return(c, "none")

com_kv_remove_tail(c, count) ==
  /\ at[c] = "opened"
  /\ Commit(deleteFrom(kv, lastRows(kv, count)))
  /\ Goto(c, "idle") /\ Return(c, "none")

\* The first row found, whose data must not be empty.
com_kv_get_string(c, k) ==
  /\ at[c] = "opened"
  /\ \/ where(kv, k) = {} /\ Return(c, "false")
     \/ \E x \in where(kv, k) : Return(c, IF kv.data[x] = Empty THEN "false" ELSE kv.data[x])
  /\ Goto(c, "idle")
  /\ UNCHANGED fileVars

-----------------------------------------------------------------------------
(* com_kv_remove_all: two statements in one string, outside a transaction *)

deleteAll(c) ==
  /\ at[c] = "opened"
  /\ Commit(deleteFrom(kv, Key))
  /\ Goto(c, "sequence") /\ UNCHANGED ret

resetSequence(c) ==
  /\ at[c] = "sequence"
  /\ Commit([kv EXCEPT !.seq = 0])
  /\ Goto(c, "idle") /\ Return(c, "none")

\* The second finds the file locked: com_sqlite_run_sql runs both again.
runAgain(c) ==
  /\ at[c] = "sequence" /\ owner # Nobody
  /\ Goto(c, "again") /\ UNCHANGED <<fileVars, ret>>

deleteAgain(c) ==
  /\ at[c] = "again"
  /\ Commit(deleteFrom(kv, Key))
  /\ Goto(c, "sequence") /\ UNCHANGED ret

-----------------------------------------------------------------------------
(* Batches *)

\* BEGIN TRANSACTION takes no lock.
com_kv_batch_start(c) ==
  /\ at[c] = "opened"
  /\ Goto(c, "batch") /\ UNCHANGED <<fileVars, ret>>

\* Fault: there is no transaction.
writeThrough(c, r) ==
  /\ at[c] = "batch" /\ owner = Nobody
  /\ kv' = r /\ draft' = r
  /\ UNCHANGED <<table, owner, at>>

\* A statement in the transaction of c takes the lock, unless another has it.
batchWrite(c, r) ==
  /\ at[c] = "batch" /\ owner \in {Nobody, c}
  /\ owner' = c /\ draft' = r
  /\ UNCHANGED <<table, kv, at>>

com_kv_batch_set(c, k, v) ==
  /\ newId(draft) <= MaxId
  /\ batchWrite(c, replaceInto(draft, k, v))
  /\ Return(c, "true")

com_kv_batch_remove(c, k) ==
  /\ batchWrite(c, deleteFrom(draft, where(draft, k)))
  /\ Return(c, changedOne(where(draft, k)))

\* The call fails; the transaction goes on without it.
batchBusy(c) ==
  /\ at[c] = "batch" /\ owner \notin {Nobody, c}
  /\ Return(c, "false") /\ UNCHANGED <<fileVars, at>>

\* The handle is closed, or its process ends, with the transaction open.
Forget(c) ==
  /\ IF owner = c THEN owner' = Nobody /\ draft' = kv ELSE UNCHANGED <<owner, draft>>
  /\ Goto(c, "idle") /\ Return(c, "none")
  /\ UNCHANGED <<table, kv>>

\* com_kv_batch_stop(handle, false)
batchCommit(c) ==
  /\ at[c] = "batch"
  /\ IF owner = c THEN kv' = draft /\ owner' = Nobody ELSE UNCHANGED <<kv, owner>>
  /\ Goto(c, "idle") /\ Return(c, "none")
  /\ UNCHANGED <<table, draft>>

\* com_kv_batch_stop(handle, true); or false, and COMMIT finds the file locked to
\* the last try: its result is not looked at.
batchRollback(c) == at[c] = "batch" /\ Forget(c)

\* The process of c ends at any step; another begins where it began.
die(c) == at[c] # "idle" /\ Forget(c)

-----------------------------------------------------------------------------
Open(c) == kv_open(c) \/ kv_create_table(c) \/ createFails(c) \/ giveUp(c)

Single(c) ==
  \/ \E k \in Key :
       \/ \E v \in Stored[k] : com_kv_set(c, k, v)
       \/ com_kv_remove(c, k)
       \/ com_kv_get_string(c, k)
  \/ \E count \in 1 .. Cardinality(Key) : com_kv_remove_front(c, count) \/ com_kv_remove_tail(c, count)
  \/ deleteAll(c) \/ resetSequence(c) \/ runAgain(c) \/ deleteAgain(c)

Batch(c) ==
  \/ com_kv_batch_start(c)
  \/ \E k \in Key : com_kv_batch_remove(c, k) \/ \E v \in Stored[k] : com_kv_batch_set(c, k, v)
  \/ batchBusy(c) \/ batchCommit(c) \/ batchRollback(c)

Next == \E c \in Caller : Open(c) \/ Single(c) \/ Batch(c) \/ die(c)

Spec == Init /\ [][Next]_vars

-----------------------------------------------------------------------------
TypeOK ==
  LET Table == [id : [Key -> Nat], data : [Key -> Value \cup {Absent}], seq : Nat] IN
  /\ table \in BOOLEAN /\ kv \in Table /\ draft \in Table
  /\ owner \in Caller \cup {Nobody}
  /\ at \in [Caller -> {"idle", "create", "opened", "sequence", "again", "batch"}]
  /\ ret \in [Caller -> Value \cup {"none", "true", "false"}]

\* Keys by the order of the ids of their rows.
InIdOrder(r) ==
  [data |-> r.data,
   before |-> {p \in Rows(r) \X Rows(r) : r.id[p[1]] < r.id[p[2]]}]

Queue == INSTANCE KvQueue WITH
  list <- InIdOrder(kv), draft <- InIdOrder(draft), writer <- owner, reply <- ret,
  batch <- {c \in Caller : at[c] = "batch"}

\* com_kv keeps the keys in the order in which they were last set, whoever sets
\* them, also after a remove_all whose two statements others come between and
\* which starts the ids over; a call that returns true has made its change; and a
\* batch shows as a whole or not at all, whatever is done, given up or killed
\* meanwhile.
ImplementsQueue == Queue!Spec
=============================================================================
