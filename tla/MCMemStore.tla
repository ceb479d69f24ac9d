----------------------------- MODULE MCMemStore -----------------------------
(***************************************************************************)
(* Small instances of the three stores: the one in memory, MemStore; the   *)
(* one in a file, KvStore; and the cache, MapLRU.  They share no state: a  *)
(* behaviour is one of the one or of the other.                            *)
(***************************************************************************)
EXTENDS MemStore, TLC

CONSTANTS k1, v1,
          Caller, KvKey, ColumnKey, Empty, Nobody, MaxId,
          CacheKey, MaxSize

VARIABLES
  store,   \* "memory", "file" or "cache"
  table, kv, owner, draft, at, ret,
  map, list, recent, latest

KvStored == [k \in KvKey |-> {IF k \in ColumnKey THEN Empty ELSE v1}]

F == INSTANCE KvStore WITH Key <- KvKey, Value <- {v1, Empty}, Stored <- KvStored

L == INSTANCE MapLRU WITH Key <- CacheKey, Value <- {v1, Empty}

ASSUME KvAssumption == F!KvConstants
ASSUME LRUAssumption == L!LRUConstants

fileVars == <<table, kv, owner, draft, at, ret>>
cacheVars == <<map, list, recent, latest>>

StoresInit == store \in {"memory", "file", "cache"} /\ Init /\ F!Init /\ L!Init

StoresNext ==
  \/ store = "memory" /\ Next /\ UNCHANGED <<store, fileVars, cacheVars>>
  \/ store = "file" /\ F!Next /\ UNCHANGED <<store, vars, cacheVars>>
  \/ store = "cache" /\ L!Next /\ UNCHANGED <<store, vars, fileVars>>

StoresSpec == StoresInit /\ [][StoresNext]_<<store, fileVars, cacheVars, vars>>

\* com_kv: the file is a queue of keys whose calls and batches are atomic.  This is
\* F!ImplementsQueue of the behaviours in which the file moves; in the others none
\* of its variables changes.
ImplementsQueue ==
  /\ F!Queue!Init
  /\ [][store = "file" => F!Queue!Next]_(F!Queue!vars)

\* ComMapLRU: the entries used last are kept.
KeepsMostRecent == L!KeepsMostRecent

\* What a file holds: a value for every key.
Reloads == {[k \in Key |-> v1]}

Symmetric == Permutations(Writer) \cup Permutations(Caller)
=============================================================================
