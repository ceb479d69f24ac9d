------------------------------ MODULE MCPools ------------------------------
(***************************************************************************)
(* ComThreadPool and the server that is one (class ComTcpServer : public   *)
(* ComThreadPool) under fair scheduling.  The server's module has workers  *)
(* that always find a job, so that a notification the pool loses is not    *)
(* counted twice: a behaviour is one of the pool or of the server.         *)
(***************************************************************************)
EXTENDS ThreadPool

CONSTANTS ServerWorker, Kinds, Conn, FD, Receiver, Ends, AppCalls, None

OnePiece == [k \in Kinds |-> 1]

VARIABLES
  part,   \* "pool" or "server"
  kind, peer, backlog, sock, sent, rcvd, watched, edge, clients, jobs, batch, pc, arg,
  piece, listening, receiving, told, handed, raced, lost

S == INSTANCE SocketServer WITH Worker <- ServerWorker, MaxPieces <- OnePiece

serverVars == <<kind, peer, backlog, sock, sent, rcvd, watched, edge, clients, jobs, batch,
                pc, arg, piece, listening, receiving, told, handed, raced, lost>>

\* The pool's states need no second copy with another kind.
PoolsInit ==
  /\ part \in {"pool", "server"}
  /\ Init /\ S!Init
  /\ part = "pool" => kind = "tcp"

PoolsNext ==
  \/ part = "pool" /\ Next /\ UNCHANGED <<part, serverVars>>
  \/ part = "server" /\ S!Next /\ UNCHANGED <<part, vars>>

\* ThreadPool's Fairness, but its manager cannot run in a behaviour of the server.
PoolFairness ==
  /\ \A w \in Worker : WF_vars(ThreadLoop(w))
  /\ WF_vars(part = "pool" /\ ThreadManager)
  /\ WF_vars(StopStep)
  /\ \A p \in Pusher : WF_vars(PushStep(p))

PoolsSpec ==
  /\ PoolsInit
  /\ [][PoolsNext]_<<part, vars, serverVars>>
  /\ PoolFairness
  /\ S!Fairness

\* ComTcpServer, ComUnixDomainServer: what an event announces is served, unless the
\* listener left the event behind.
EventsAreServed == S!EventsAreServed
=============================================================================
