------------------------------- MODULE MapLRU -------------------------------
(***************************************************************************)
(* ComMapLRU (com_base.h): a bounded map that gives up the entry whose use *)
(* is longest ago.  It keeps a list of keys by use and a map whose entries *)
(* point into the list; each operation changes both.  A place in the list  *)
(* is a node, and a node that is free again may be the next one given out. *)
(***************************************************************************)
EXTENDS Naturals, SequencesExt

CONSTANTS
  Key, Value,
  MaxSize,  \* max_size
  Absent    \* no entry

\* What is assumed of them, by the module that gives them values.
LRUConstants ==
  /\ MaxSize \in Nat \ {0}
  /\ Absent \notin Value

VARIABLES
  map,     \* the entry of a key: its node and its value
  list,    \* nodes with their keys, the oldest use first
  recent,  \* history: every key ever used, the oldest use first
  latest   \* history: what was last stored for a key

vars == <<map, list, recent, latest>>

Node == 1 .. MaxSize + 1
None == [node |-> 0, value |-> Absent]
Keys == {k \in Key : map[k] # None}

Init ==
  /\ map = [k \in Key |-> None]
  /\ list = <<>> /\ recent = <<>>
  /\ latest = [k \in Key |-> Absent]

\* list.erase(it) and list.push_back(key): the entry must point to the new node.
Without(l, n) == RemoveAt(l, CHOOSE i \in 1 .. Len(l) : l[i].node = n)
Free(l) == CHOOSE n \in Node : \A i \in 1 .. Len(l) : l[i].node # n
AddLast(l, k) == Append(l, [node |-> Free(l), key |-> k])

Used(k) ==
  LET i == CHOOSE i \in 1 .. Len(recent) : recent[i] = k
  IN recent' = Append(IF k \in ToSet(recent) THEN RemoveAt(recent, i) ELSE recent, k)

\* Fault: the place is kept.
refreshInPlace(k, v) ==
  /\ map' = [map EXCEPT ![k].value = v]
  /\ UNCHANGED list

\* The entry of k moves to the end, with the value v.
refresh(k, v) ==
  /\ list' = AddLast(Without(list, map[k].node), k)
  /\ map' = [map EXCEPT ![k] = [node |-> Last(list').node, value |-> v]]

\* A new entry; of a full map the first in the list goes.
insert(k, v) ==
  LET full == Cardinality(Keys) >= MaxSize
      rest == IF full THEN Tail(list) ELSE list
      kept == IF full THEN [map EXCEPT ![Head(list).key] = None] ELSE map
  IN /\ list' = AddLast(rest, k)
     /\ map' = [kept EXCEPT ![k] = [node |-> Last(list').node, value |-> v]]

put(k, v) ==
  /\ IF k \in Keys THEN refresh(k, v) ELSE insert(k, v)
  /\ Used(k)
  /\ latest' = [latest EXCEPT ![k] = v]

\* get returns a reference, through which the caller may store; getCopy does not.
get(k, v) ==
  /\ k \in Keys
  /\ refresh(k, v)
  /\ Used(k)
  /\ latest' = [latest EXCEPT ![k] = v]

getCopy(k) == get(k, map[k].value)

Next == \E k \in Key : getCopy(k) \/ \E v \in Value : put(k, v) \/ get(k, v)

Spec == Init /\ [][Next]_vars

-----------------------------------------------------------------------------
\* The map holds the MaxSize keys whose use is the latest, each with what was last
\* stored for it, and the list tells the order of their uses; every entry points to
\* the node of its own key, or a later erase would take another's.
KeepsMostRecent ==
  LET n == IF Len(recent) < MaxSize THEN Len(recent) ELSE MaxSize
      kept == SubSeq(recent, Len(recent) - n + 1, Len(recent))
  IN /\ [i \in 1 .. Len(list) |-> list[i].key] = kept
     /\ Keys = {kept[i] : i \in 1 .. n}
     /\ \A i \in 1 .. Len(list) : map[list[i].key] = [node |-> list[i].node,
                                                       value |-> latest[list[i].key]]
=============================================================================
