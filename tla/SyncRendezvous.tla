-------------------------- MODULE SyncRendezvous --------------------------
(***************************************************************************)
(* What com_sync.cpp promises its callers, without its semaphores, its     *)
(* cache or the steps inside a wait: a request is open from its prepare to *)
(* the end of its wait; replies are kept for open requests only; the       *)
(* client obtains the latest bytes kept for its own request, or nothing.   *)
(***************************************************************************)
EXTENDS Integers

CONSTANTS
  Client,   \* the threads that make requests
  UUID,     \* the numbers of the requests
  Payload,  \* what may be posted
  NoReply   \* no bytes

VARIABLES
  open,     \* the requests that accept replies
  reply,    \* the bytes kept for each request
  asked,    \* the request each client made last
  got       \* what its last wait returned

vars == <<open, reply, asked, got>>

Init ==
  /\ open = {}
  /\ reply = [u \in UUID |-> NoReply]
  /\ asked = [c \in Client |-> -1]
  /\ got = [c \in Client |-> NoReply]

\* A client turns to a new request.
Ask(c, u) ==
  /\ asked' = [asked EXCEPT ![c] = u]
  /\ got' = [got EXCEPT ![c] = NoReply]
  /\ UNCHANGED <<open, reply>>

Open(u) ==
  /\ u \notin open
  /\ open' = open \cup {u}
  /\ reply' = [reply EXCEPT ![u] = NoReply]
  /\ UNCHANGED <<asked, got>>

\* Empty bytes wake the client but do not replace an earlier reply.
Post(u, d) ==
  /\ u \in open
  /\ reply' = [reply EXCEPT ![u] = IF d = NoReply THEN @ ELSE d]
  /\ UNCHANGED <<open, asked, got>>

Close(u) ==
  /\ open' = open \ {u}
  /\ reply' = [reply EXCEPT ![u] = NoReply]

Cancel(u) == Close(u) /\ UNCHANGED <<asked, got>>

\* The wait ends, with the reply or, on a timeout, without it.
Return(c) ==
  /\ asked[c] \in UUID
  /\ \E d \in {reply[asked[c]], NoReply} : got' = [got EXCEPT ![c] = d]
  /\ Close(asked[c])
  /\ UNCHANGED asked

Next ==
  \/ \E c \in Client, u \in UUID : Ask(c, u)
  \/ \E u \in UUID : Open(u) \/ Cancel(u)
  \/ \E u \in UUID, d \in Payload : Post(u, d)
  \/ \E c \in Client : Return(c)

Spec == Init /\ [][Next]_vars
=============================================================================
