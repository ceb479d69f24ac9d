----------------------------- MODULE ByteStream -----------------------------
(***************************************************************************)
(* ByteStreamReader (com_base.cpp): the searches of a reader over bytes in *)
(* memory, or over a file, where it calls com_file_find, com_file_rfind    *)
(* and com_file_read_until (com_file.cpp).  A search is a loop over bytes  *)
(* with a position and a count of matched bytes; one step is one byte, so  *)
(* that a search that does not end can be seen.  The calls that move the   *)
(* position come between searches.  Positions count from 0, as in the code.*)
(***************************************************************************)
EXTENDS Integers, SequencesExt

CONSTANTS
  Backings,  \* what readers are over: "memory", "file"
  Data,      \* the contents
  Pattern    \* the keys that are searched

\* What is assumed of them, by the module that gives them values.
StreamConstants ==
  /\ Backings \subseteq {"memory", "file"}
  /\ \A k \in Pattern : Len(k) > 0

VARIABLES
  backing, data,
  pos,         \* buffer_pos, or the position of the file
  op,          \* the search under way, or "idle"
  last,        \* the last call that has returned
  pattern,     \* its key
  match,       \* match_count
  from,        \* history: where it began
  found, bytes, \* the position and the bytes it returned
  bounced      \* history: a file's first byte was read again by com_file_rfind

vars == <<backing, data, pos, op, last, pattern, match, from, found, bytes, bounced>>

Nothing == -3
Size == Len(data)
At(p) == data[p + 1]

Init ==
  /\ backing \in Backings /\ data \in Data
  /\ pos = 0
  /\ op = "idle" /\ last = "none"
  /\ pattern \in Pattern /\ match = 0 /\ from = 0
  /\ found = Nothing /\ bytes = <<>> /\ bounced = FALSE

Begin(search, k, p) ==
  /\ op = "idle"
  /\ op' = search /\ pattern' = k
  /\ pos' = p /\ from' = p
  /\ match' = 0 /\ bytes' = <<>> /\ bounced' = FALSE /\ found' = Nothing
  /\ UNCHANGED <<backing, data, last>>

Return(result) == op' = "idle" /\ last' = op /\ found' = result

-----------------------------------------------------------------------------
\* Calls that move the position.

MoveTo(p) ==
  /\ op = "idle" /\ last' = "none"
  /\ pos' = p
  /\ UNCHANGED <<backing, data, op, pattern, match, from, found, bytes, bounced>>

\* A file's position may lie beyond its end; here by one byte at most.
setPos(p) ==
  /\ p \in 0 .. (IF backing = "memory" THEN Size - 1 ELSE Size + 1)
  /\ MoveTo(p)

stepPos(n) ==
  /\ pos + n \in 0 .. (IF backing = "memory" THEN Size - 1 ELSE Size + 1)
  /\ MoveTo(pos + n)

\* seek in memory corrects what lies outside, to -1 when there are no bytes.
seekSet(offset) ==
  /\ backing = "memory"
  /\ MoveTo(IF offset < 0 THEN 0 ELSE IF offset > Size THEN Size - 1 ELSE offset)

seekCur(offset) ==
  /\ backing = "memory"
  /\ MoveTo(IF pos + offset < 0 THEN 0
            ELSE IF pos + offset >= Size THEN Size - 1 ELSE pos + offset)

seekEnd(offset) ==
  /\ backing = "memory"
  /\ MoveTo(IF offset > 0 THEN Size - 1 ELSE IF -offset > Size THEN 0 ELSE Size + offset)

-----------------------------------------------------------------------------
\* Searches from the position, or from an offset that is given.

find(k, offset) == Begin("find", k, IF offset > 0 THEN offset ELSE pos)
readUntil(k) == Begin("until", k, pos)

\* Fault: what has matched is not given up when a byte differs.
NeverBack(val, want) == IF val = want THEN match + 1 ELSE match

\* A byte that differs is passed, also if the key could begin with it.
Matched(val, want) == IF val = want THEN match + 1 ELSE 0

\* The end of the bytes; no loop is entered at a position below 0.
forwardEnd ==
  /\ op \in {"find", "until"}
  /\ pos \notin 0 .. Size - 1
  /\ Return(Nothing)
  /\ UNCHANGED <<backing, data, pos, pattern, match, from, bytes, bounced>>

\* In memory readUntil keeps only the bytes that match, in a file every byte.
forwardStep ==
  /\ op \in {"find", "until"}
  /\ pos \in 0 .. Size - 1
  /\ LET n == Matched(At(pos), pattern[match + 1])
         all == IF op = "until" /\ (backing = "file" \/ n > 0) THEN Append(bytes, At(pos))
                ELSE bytes
     IN IF n = Len(pattern)
        THEN /\ pos' = pos + 1 - n
             /\ bytes' = SubSeq(all, 1, Len(all) - n)
             /\ match' = n
             /\ Return(pos')
        ELSE /\ pos' = pos + 1
             /\ bytes' = all
             /\ match' = n
             /\ UNCHANGED <<op, last, found>>
  /\ UNCHANGED <<backing, data, pattern, from, bounced>>

\* In memory from the position, or from as many bytes beyond the end as were asked for
\* before it; in a file from its last byte.
rfind(k, back) ==
  /\ backing = "file" => Size > 0
  /\ Begin("rfind", k, IF backing = "file" THEN Size - 1
                       ELSE IF back > 0 THEN Size + back ELSE pos)

\* In memory the bytes that are read backwards are compared with the key from its
\* front.
rfindMemory ==
  /\ op = "rfind" /\ backing = "memory"
  /\ IF pos \notin 0 .. Size - 1
     THEN Return(Nothing) /\ UNCHANGED <<pos, match>>
     ELSE /\ match' = Matched(At(pos), pattern[match + 1])
          /\ IF match' = Len(pattern)
             THEN pos' = pos - 1 + Len(pattern) /\ Return(pos')
             ELSE pos' = pos - 1 /\ UNCHANGED <<op, last, found>>
  /\ UNCHANGED <<backing, data, pattern, from, bytes, bounced>>

\* com_file_rfind: the step back from the first byte fails, and the file is set to
\* its beginning instead, from where the byte is read again.
rfindFile ==
  /\ op = "rfind" /\ backing = "file"
  /\ match' = Matched(At(pos), pattern[Len(pattern) - match])
  /\ IF match' = Len(pattern)
     THEN pos' = pos /\ Return(pos)
     ELSE /\ pos' = IF pos = 0 THEN 0 ELSE pos - 1
          /\ UNCHANGED <<op, last, found>>
  /\ bounced' = (bounced \/ (pos = 0 /\ match' # Len(pattern)))
  /\ UNCHANGED <<backing, data, pattern, from, bytes>>

Step == forwardStep \/ forwardEnd \/ rfindMemory \/ rfindFile

Next ==
  \/ \E p \in -1 .. Size + 1 :
       setPos(p) \/ stepPos(p) \/ seekSet(p) \/ seekCur(p) \/ seekEnd(-p)
  \/ \E k \in Pattern :
       \/ readUntil(k)
       \/ \E n \in 0 .. Size : find(k, n) \/ rfind(k, n)
  \/ Step

Fairness == WF_vars(Step)
Spec == Init /\ [][Next]_vars /\ Fairness

-----------------------------------------------------------------------------
Occurs(p) == IsPrefix(pattern, SubSeq(data, p + 1, Size))

\* A beginning of the key ends just before p: the search has passed p by when that
\* proves false, and cannot see a key that begins there.
FalseStart(p) ==
  \E n \in 1 .. Len(pattern) - 1 :
    p - n >= from /\ SubSeq(data, p - n + 1, p) = SubSeq(pattern, 1, n)

\* The same for a search from behind.
FalseEnd(p) ==
  \E n \in 1 .. Len(pattern) - 1 :
    IsPrefix(SubSeq(pattern, Len(pattern) - n + 1, Len(pattern)),
             SubSeq(data, p + Len(pattern) + 1, Size))

ForwardIsRight ==
  LET upto == IF found = Nothing THEN Size ELSE found IN
  /\ found # Nothing => Occurs(found) /\ found >= from /\ pos = found
  /\ \A p \in from .. upto - 1 : Occurs(p) => FalseStart(p)
  /\ last = "until" /\ backing = "file" => bytes = SubSeq(data, from + 1, upto)

BackwardIsRight ==
  /\ found # Nothing => Occurs(found) /\ found <= from /\ pos = found
  /\ \A p \in (IF found = Nothing THEN 0 ELSE found + 1) .. from : Occurs(p) => FalseEnd(p)

\* A search that returns a position has found the key there, stands there, and has
\* passed no other but behind a false start; readUntil of a file returns every byte
\* before it.  Searches from behind only if the file's first byte was read once, and
\* in memory for keys of one byte: longer ones are compared the wrong way round.
FoundIsThere ==
  (op = "idle" /\ from \in 0 .. Size) =>
    /\ last \in {"find", "until"} => ForwardIsRight
    /\ (last = "rfind" /\ ~bounced /\ (backing = "file" \/ Len(pattern) = 1) /\ from < Size)
          => BackwardIsRight

\* Every search comes to an end with what is there, but that of com_file_rfind which
\* has come to the first byte.  (Nobody has to call again: a wrong end can be the last
\* state that changes.)
SearchIsRight == (op # "idle") ~> (bounced \/ (op = "idle" /\ FoundIsThere))
=============================================================================
