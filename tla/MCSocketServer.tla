--------------------------- MODULE MCSocketServer ---------------------------
(***************************************************************************)
(* Small instances of SocketServer, and of StringIpc, whose server is one  *)
(* (class ComStringIpcServer : protected ComTcpServer).  StringIpc uses    *)
(* connections and readers as SocketServer provides them and does not      *)
(* repeat its listener and its jobs: a behaviour is one of the one or of   *)
(* the other.  The peers are the named clients.                            *)
(***************************************************************************)
EXTENDS SocketServer, TLC

CONSTANTS IpcServer, MaxSent, MaxConns, MaxEnds

\* Two pieces for the server that promises their order.
Pieces == [tcp |-> 1, unix |-> 2]

VARIABLES
  part,   \* "server" or "ipc"
  link, life, owner, inbox, outbox, vals, val, names, queue, handedTo, strings, at, of,
  named, mixed, misnamed, ipcRaced

I == INSTANCE StringIpc
     WITH Client <- Conn, Server <- IpcServer, clients <- names, handed <- handedTo,
          sent <- strings, pc <- at, arg <- of, raced <- ipcRaced

ASSUME IpcAssumption == I!IpcConstants

ipcVars == <<link, life, owner, inbox, outbox, vals, val, names, queue, handedTo, strings,
             at, of, named, mixed, misnamed, ipcRaced>>

\* One kind of server is enough where it does not move.
ServersInit ==
  /\ part \in {"server", "ipc"}
  /\ Init /\ I!Init
  /\ part = "ipc" => kind = "tcp"

ServersNext ==
  \/ part = "server" /\ Next /\ UNCHANGED <<part, ipcVars>>
  \/ part = "ipc" /\ I!Next /\ UNCHANGED <<part, vars>>

ServersSpec == ServersInit /\ [][ServersNext]_<<part, vars, ipcVars>>

\* ComStringIpcServer, ComStringIpcClient: messages arrive whole, once, where they
\* are sent to.
HandedWhole == I!HandedWhole

\* ComStringIpcServer: a name leads to its client's connection.
NamesFollow == I!NamesFollow

Symmetric == Permutations(Conn) \cup Permutations(Worker)
=============================================================================
