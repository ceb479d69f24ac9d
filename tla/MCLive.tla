------------------------------- MODULE MCLive -------------------------------
(***************************************************************************)
(* What must go on and come to an end: the two components whose threads    *)
(* are asked to stop and to go on by flags and notifications of the        *)
(* application, ComTask with its manager and the socket clients; the waits *)
(* of SyncAdapter; and the searches of ByteStreamReader.  They share no    *)
(* state: a behaviour is one of the one or of the other.  At the start     *)
(* none of their fair actions is enabled.                                  *)
(***************************************************************************)
EXTENDS TaskManager

CONSTANTS ClientKinds, MaxEnds, MaxAsks, MaxSends,
          Requester, Sem, NoSem, UUIDMax, CacheMax, SemValueMax,
          Backings, a, b

\* Contents in which a key is missing, comes twice, or comes after a false start.
Contents == {<<>>, <<a, b>>, <<a, a, b>>, <<a, b, a, b>>, <<b, a, a, b>>, <<a, b, b, a>>}
Keys == {<<a>>, <<a, b>>, <<a, a>>, <<a, a, b>>}

VARIABLES
  part,   \* "task", "client", "sync" or "reader"
  ckind, reachable, opened, alive, socketfd, crunning, reconnect_now, connected, rx,
  sender, waiter, stopper, told, wanted, overslept, ends, asks, sends,
  sync_sem, sync_data, sem_cache, sem_cache_size_max, sems, value, uuid, spc, req,
  held, ret, result, accepted,
  backing, data, pos, op, last, pattern, match, from, found, bytes, bounced

C == INSTANCE TcpClient WITH running <- crunning

\* The requests that ComTask makes: a fresh uuid each, which nobody else cancels.
S == INSTANCE SyncAdapter WITH Client <- Requester, Canceller <- {}, Payload <- {Reply},
                               FixedUUID <- {}, SemCount <- {}, alive <- sems, pc <- spc

B == INSTANCE ByteStream WITH Data <- Contents, Pattern <- Keys

ASSUME ClientAssumption == C!ClientConstants
ASSUME SyncAssumption == S!NoSemAssumption /\ S!BoundAssumption
ASSUME StreamAssumption == B!StreamConstants

clientVars == <<ckind, reachable, opened, alive, socketfd, crunning, reconnect_now,
                connected, rx, sender, waiter, stopper, told, wanted, overslept, ends,
                asks, sends>>
adapterVars == <<sync_sem, sync_data, sem_cache, sem_cache_size_max, sems, value, uuid,
              spc, req, held, ret, result, accepted>>
readerVars == <<backing, data, pos, op, last, pattern, match, from, found, bytes, bounced>>

\* The others need no second copy with another client, or another text.
LiveInit ==
  /\ part \in {"task", "client", "sync", "reader"}
  /\ Init /\ C!Init /\ S!Init /\ B!Init
  /\ part # "client" => ckind = "tcp" /\ reachable
  /\ part # "reader" => backing = "memory" /\ data = <<>> /\ pattern = <<a>>

LiveNext ==
  \/ part = "task" /\ Next /\ UNCHANGED <<part, clientVars, adapterVars, readerVars>>
  \/ part = "client" /\ C!Next /\ UNCHANGED <<part, vars, adapterVars, readerVars>>
  \/ part = "sync" /\ S!Next /\ UNCHANGED <<part, vars, clientVars, readerVars>>
  \/ part = "reader" /\ B!Next /\ UNCHANGED <<part, vars, clientVars, adapterVars>>

LiveSpec ==
  /\ LiveInit
  /\ [][LiveNext]_<<part, vars, clientVars, adapterVars, readerVars>>
  /\ Fairness
  /\ C!Fairness
  /\ S!Fairness
  /\ B!Fairness

\* ComTcpClient, ComUnixDomainClient: a client gets its connection back, and stops.
ClientRecovers == C!ClientRecovers

\* SyncAdapter: a wait whose reply was accepted returns.
AcceptedReplyReturns == S!AcceptedReplyReturns

\* ByteStreamReader: a search finds what is there, and ends.
SearchIsRight == B!SearchIsRight
=============================================================================
