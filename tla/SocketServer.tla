---------------------------- MODULE SocketServer ----------------------------
(***************************************************************************)
(* ComTcpServer and ComUnixDomainServer (com_socket_linux.cpp): a listener *)
(* thread around epoll, a table of clients by descriptor, and threads that *)
(* read what the listener's events announce.  The TCP server reads in its  *)
(* thread pool and closes a client from any thread; the Unix server reads  *)
(* in one receiver and closes in the listener only.                        *)
(*                                                                         *)
(* The kernel's half (connections, descriptor numbers, epoll) is modelled  *)
(* as the code uses it: accept takes the lowest free descriptor, close     *)
(* gives the number back, client events are edge-triggered and the event   *)
(* of the listening socket is level-triggered.  accept() and the insertion *)
(* of the entry are one step; every other call of closeClient is its own.  *)
(***************************************************************************)
EXTENDS Naturals, Sequences, FiniteSets

CONSTANTS
  Kinds,      \* which servers are checked: "tcp", "unix"
  Conn,       \* connections that peers make, each at most once
  FD,         \* descriptor numbers, as many as connections
  Worker,     \* threads of the pool
  Receiver,   \* the Unix server's thread_receiver
  Ends,       \* how peers may go: "shut" (FIN), "reset"
  AppCalls,   \* what the application may call: "closeClient", "stopServer"
  MaxPieces,  \* bound: pieces a peer of each server sends
  None

Server == 0          \* the descriptor of the listening socket
Listener == "listener"
App == "app"

ASSUME ServerAssumption ==
  /\ Kinds \subseteq {"tcp", "unix"}
  /\ FD \subseteq Nat \ {0}
  /\ Receiver \notin Worker
  /\ Ends \subseteq {"shut", "reset"}
  /\ AppCalls \subseteq {"closeClient", "stopServer"}
  /\ MaxPieces \in [Kinds -> Nat]
  /\ None \notin Conn
  /\ {Listener, App} \cap (Worker \cup {Receiver}) = {}

Reader == Worker \cup {Receiver}
Thread == Reader \cup {Listener, App}

VARIABLES
  kind,                   \* which server this is
  peer,                   \* "new", "up", "shut", "reset"
  backlog,                \* connections that wait for accept
  sock,                   \* the connection behind an open descriptor
  sent, rcvd,             \* pieces sent by a peer, and read by recv
  watched, edge,          \* epoll: descriptors added; those with an event
  clients,                \* the map clients: which connection an entry describes
  jobs,                   \* messages of the pool, fds of the Unix server
  batch,                  \* events of one epoll_wait not handled yet
  pc, arg,                \* each thread: where it is; its descriptor and entry
  piece,                  \* what a reader's recv returned
  listening, receiving,   \* thread_listener_running; the readers' flag
  told,                   \* history: the calls of onConnectionChanged
  handed,                 \* history: the calls of onRecv
  raced,                  \* history: connections that two closers touched
  lost                    \* connections whose last event was left unhandled

kernelVars == <<peer, backlog, sock, sent, rcvd, watched, edge>>
historyVars == <<told, handed, raced, lost>>
vars == <<kind, kernelVars, clients, jobs, batch, pc, arg, piece, listening, receiving,
          historyVars>>

Readers == IF kind = "tcp" THEN Worker ELSE {Receiver}

\* The state just after startServer.
Init ==
  /\ kind \in Kinds
  /\ peer = [c \in Conn |-> "new"]
  /\ backlog = <<>>
  /\ sock = [fd \in FD |-> None]
  /\ sent = [c \in Conn |-> 0]
  /\ rcvd = [c \in Conn |-> 0]
  /\ watched = {} /\ edge = {}
  /\ clients = [fd \in FD |-> None]
  /\ jobs = <<>>
  /\ batch = {}
  /\ pc = [t \in Thread |-> "idle"]
  /\ arg = [t \in Thread |-> [fd |-> Server, des |-> None]]
  /\ piece = [t \in Reader |-> <<None, 0>>]
  /\ listening = TRUE /\ receiving = TRUE
  /\ told = [c \in Conn |-> <<>>]
  /\ handed = [c \in Conn |-> <<>>]
  /\ raced = {} /\ lost = {}

Idle == [fd |-> Server, des |-> None]
Goto(t, label) == pc' = [pc EXCEPT ![t] = label]
Return(t) == Goto(t, "idle") /\ arg' = [arg EXCEPT ![t] = Idle]
Gone(c) == peer[c] \in {"shut", "reset"}
Unread(c) == sent[c] > rcvd[c]
DescriptorsOf(c) == {fd \in FD : sock[fd] = c}
InBacklog(c) == \E i \in 1 .. Len(backlog) : backlog[i] = c
Closers(c) == {t \in Thread : pc[t] \in {"close", "erase"} /\ arg[t].des = c}

-----------------------------------------------------------------------------
\* The peers.

peerFrame == UNCHANGED <<kind, sock, rcvd, watched, clients, jobs, batch, pc, arg, piece,
                         listening, receiving, told, handed, raced>>

Connect(c) ==
  /\ peer[c] = "new"
  /\ pc[App] # "stopped"
  /\ peer' = [peer EXCEPT ![c] = "up"]
  /\ backlog' = Append(backlog, c)
  /\ peerFrame
  /\ UNCHANGED <<sent, edge, lost>>

\* What a peer does on its connection raises the edge of a watched descriptor.
Raise(c) ==
  /\ InBacklog(c) \/ DescriptorsOf(c) # {}
  /\ edge' = edge \cup (DescriptorsOf(c) \cap watched)
  /\ lost' = lost \ {c}

Send(c) ==
  /\ peer[c] = "up"
  /\ sent[c] < MaxPieces[kind]
  /\ sent' = [sent EXCEPT ![c] = @ + 1]
  /\ Raise(c)
  /\ peerFrame
  /\ UNCHANGED <<peer, backlog>>

\* A FIN after the data, or a reset that discards it.
HangUp(c) ==
  /\ peer[c] = "up"
  /\ \E how \in Ends :
       /\ peer' = [peer EXCEPT ![c] = how]
       /\ sent' = IF how = "reset" THEN [sent EXCEPT ![c] = rcvd[c]] ELSE sent
  /\ Raise(c)
  /\ peerFrame
  /\ UNCHANGED backlog

-----------------------------------------------------------------------------
\* closeClient(fd), in whatever thread t.

\* epoll_ctl(EPOLL_CTL_DEL)
beginClose(t, fd) ==
  /\ watched' = watched \ {fd}
  /\ edge' = edge \ {fd}
  /\ arg' = [arg EXCEPT ![t] = [fd |-> fd, des |-> None]]
  /\ Goto(t, "lookup")

\* clients.count(fd), a copy of the entry, and onConnectionChanged(.., false)
closeLookup(t) ==
  /\ pc[t] = "lookup"
  /\ LET c == clients[arg[t].fd] IN
     IF c = None
     THEN /\ Return(t)
          /\ UNCHANGED <<told, raced>>
     ELSE /\ arg' = [arg EXCEPT ![t].des = c]
          /\ told' = [told EXCEPT ![c] = Append(@, "off")]
          /\ raced' = IF Closers(c) # {} THEN raced \cup {c} ELSE raced
          /\ Goto(t, "close")
  /\ UNCHANGED <<kind, kernelVars, clients, jobs, batch, piece, listening, receiving,
                 handed, lost>>

\* close(fd), whatever the number stands for by now
closeFd(t) ==
  /\ pc[t] = "close"
  /\ sock' = [sock EXCEPT ![arg[t].fd] = None]
  /\ watched' = watched \ {arg[t].fd}
  /\ edge' = edge \ {arg[t].fd}
  /\ Goto(t, "erase")
  /\ UNCHANGED <<kind, peer, backlog, sent, rcvd, clients, jobs, batch, arg, piece,
                 listening, receiving, historyVars>>

\* Fault: the entry stays.
closeForgets(t) ==
  /\ pc[t] = "erase"
  /\ Return(t)
  /\ UNCHANGED <<kind, kernelVars, clients, jobs, batch, piece, listening, receiving,
                 historyVars>>

closeErase(t) ==
  /\ pc[t] = "erase"
  /\ clients' = [clients EXCEPT ![arg[t].fd] = None]
  /\ Return(t)
  /\ UNCHANGED <<kind, kernelVars, jobs, batch, piece, listening, receiving,
                 historyVars>>

closeClient(t) == closeLookup(t) \/ closeFd(t) \/ closeErase(t)

-----------------------------------------------------------------------------
\* The listener thread.

\* What epoll_wait reports: a client event only while there is something to see.
Events ==
  {[fd |-> fd, quit |-> Gone(sock[fd])] :
       fd \in {d \in edge : Unread(sock[d]) \/ Gone(sock[d])}}
    \cup (IF backlog # <<>> THEN {[fd |-> Server, quit |-> FALSE]} ELSE {})

epollWait ==
  /\ pc[Listener] = "idle" /\ batch = {}
  /\ listening
  /\ Events # {}
  /\ batch' = Events
  /\ edge' = {}
  /\ UNCHANGED <<kind, peer, backlog, sock, sent, rcvd, watched, clients, jobs, pc, arg,
                 piece, listening, receiving, historyVars>>

\* ERR, HUP or RDHUP: closeClient and leave the rest of the events.
handleQuit(e) ==
  /\ pc[Listener] = "idle"
  /\ e \in batch /\ e.quit
  /\ beginClose(Listener, e.fd)
  /\ batch' = {}
  /\ lost' = lost \cup ({sock[x.fd] : x \in {y \in batch \ {e} : y.fd # Server}} \ {None})
  /\ UNCHANGED <<kind, peer, backlog, sock, sent, rcvd, clients, jobs, piece, listening,
                 receiving, told, handed, raced>>

\* Lowest free descriptor, entry, EPOLL_CTL_ADD, which reports what a noisy
\* connection has to show; the callback is a step of its own.
acceptAdding(e, noisy) ==
  /\ pc[Listener] = "idle"
  /\ e \in batch /\ e.fd = Server
  /\ LET c == Head(backlog)
         free == {fd \in FD : sock[fd] = None}
     IN \E fd \in free :
          /\ \A d \in free : fd <= d
          /\ sock' = [sock EXCEPT ![fd] = c]
          /\ clients' = [clients EXCEPT ![fd] = c]
          /\ watched' = watched \cup {fd}
          /\ edge' = edge \cup (IF c \in noisy THEN {fd} ELSE {})
          /\ arg' = [arg EXCEPT ![Listener] = [fd |-> fd, des |-> c]]
          /\ raced' = IF \E t \in Thread : pc[t] \in {"close", "erase"} /\ arg[t].fd = fd
                      THEN raced \cup {c} ELSE raced
  /\ backlog' = Tail(backlog)
  /\ batch' = batch \ {e}
  /\ Goto(Listener, "accepted")
  /\ UNCHANGED <<kind, peer, sent, rcvd, jobs, piece, listening, receiving, told, handed,
                 lost>>

\* Fault: an end that came before the descriptor was added goes unnoticed.
acceptNoHangup(e) == acceptAdding(e, {c \in Conn : Unread(c)})

acceptClient(e) == acceptAdding(e, {c \in Conn : Unread(c) \/ Gone(c)})

\* onConnectionChanged(.., true)
callConnected ==
  /\ pc[Listener] = "accepted"
  /\ told' = [told EXCEPT ![arg[Listener].des] = Append(@, "on")]
  /\ Return(Listener)
  /\ UNCHANGED <<kind, kernelVars, clients, jobs, batch, piece, listening, receiving,
                 handed, raced, lost>>

\* Fault: clients[fd] of a descriptor that has no entry.
pushJobBlind(e) ==
  /\ pc[Listener] = "idle"
  /\ e \in batch /\ ~e.quit /\ e.fd # Server
  /\ batch' = batch \ {e}
  /\ jobs' = Append(jobs, [fd |-> e.fd, des |-> clients[e.fd]])
  /\ UNCHANGED <<kind, kernelVars, clients, pc, arg, piece, listening, receiving,
                 historyVars>>

\* pushPoolMessage and recvData: a job for a client that is registered.  The
\* pool refuses it once it is being stopped.
pushJob(e) ==
  /\ pc[Listener] = "idle"
  /\ e \in batch /\ ~e.quit /\ e.fd # Server
  /\ batch' = batch \ {e}
  /\ jobs' = IF clients[e.fd] = None \/ (kind = "tcp" /\ ~receiving) THEN jobs
             ELSE Append(jobs, [fd |-> e.fd, des |-> clients[e.fd]])
  /\ UNCHANGED <<kind, kernelVars, clients, pc, arg, piece, listening, receiving,
                 historyVars>>

endListener ==
  /\ pc[Listener] = "idle" /\ batch = {}
  /\ ~listening
  /\ Goto(Listener, "ended")
  /\ UNCHANGED <<kind, kernelVars, clients, jobs, batch, arg, piece, listening, receiving,
                 historyVars>>

-----------------------------------------------------------------------------
\* The readers: threadPoolRunner in the pool, ThreadReceiver.

takeJob(w) ==
  /\ pc[w] = "idle"
  /\ jobs # <<>>
  /\ arg' = [arg EXCEPT ![w] = Head(jobs)]
  /\ jobs' = Tail(jobs)
  /\ Goto(w, "recv")
  /\ UNCHANGED <<kind, kernelVars, clients, batch, piece, listening, receiving, historyVars>>

Current(w) == sock[arg[w].fd]

\* Fault: the piece stays in the socket buffer (MSG_PEEK).
recvPeek(w) ==
  /\ pc[w] = "recv"
  /\ Current(w) # None /\ peer[Current(w)] # "reset" /\ Unread(Current(w))
  /\ piece' = [piece EXCEPT ![w] = <<Current(w), rcvd[Current(w)] + 1>>]
  /\ Goto(w, "hand")
  /\ UNCHANGED <<kind, kernelVars, clients, jobs, batch, arg, listening, receiving,
                 historyVars>>

recvPiece(w) ==
  /\ pc[w] = "recv"
  /\ Current(w) # None /\ peer[Current(w)] # "reset" /\ Unread(Current(w))
  /\ rcvd' = [rcvd EXCEPT ![Current(w)] = @ + 1]
  /\ piece' = [piece EXCEPT ![w] = <<Current(w), rcvd'[Current(w)]>>]
  /\ Goto(w, "hand")
  /\ UNCHANGED <<kind, peer, backlog, sock, sent, watched, edge, clients, jobs, batch, arg,
                 listening, receiving, historyVars>>

\* onRecv(host, port, fd, ..) with the address the job was made with
onRecv(w) ==
  /\ pc[w] = "hand"
  /\ handed' = [handed EXCEPT ![piece[w][1]] = Append(@, <<piece[w][2], arg[w].des>>)]
  /\ piece' = [piece EXCEPT ![w] = <<None, 0>>]
  /\ Goto(w, "recv")
  /\ UNCHANGED <<kind, kernelVars, clients, jobs, batch, arg, listening, receiving,
                 told, raced, lost>>

\* EAGAIN, or 0 at the end of the stream: the reader leaves it to the listener.
recvNothing(w) ==
  /\ pc[w] = "recv"
  /\ Current(w) # None /\ peer[Current(w)] # "reset" /\ ~Unread(Current(w))
  /\ Return(w)
  /\ UNCHANGED <<kind, kernelVars, clients, jobs, batch, piece, listening, receiving,
                 historyVars>>

\* ECONNRESET, reported once, or EBADF: the TCP server's reader closes the client.
recvError(w) ==
  /\ pc[w] = "recv"
  /\ Current(w) # None => peer[Current(w)] = "reset"
  /\ peer' = IF Current(w) = None THEN peer ELSE [peer EXCEPT ![Current(w)] = "shut"]
  /\ IF kind = "tcp" THEN beginClose(w, arg[w].fd)
     ELSE Return(w) /\ UNCHANGED <<watched, edge>>
  /\ UNCHANGED <<kind, backlog, sock, sent, rcvd, clients, jobs, batch, piece, listening,
                 receiving, historyVars>>

endReader(w) ==
  /\ pc[w] = "idle"
  /\ ~receiving
  /\ Goto(w, "ended")
  /\ UNCHANGED <<kind, kernelVars, clients, jobs, batch, arg, piece, listening, receiving,
                 historyVars>>

-----------------------------------------------------------------------------
\* The application's thread.

\* send(host, port, ..) that fails, send(fd, ..) that fails, closeClient(fd):
\* of the TCP server, for a client the application knows of.
appClose(fd) ==
  /\ "closeClient" \in AppCalls /\ kind = "tcp"
  /\ pc[App] = "idle"
  /\ clients[fd] # None
  /\ beginClose(App, fd)
  /\ UNCHANGED <<kind, peer, backlog, sock, sent, rcvd, clients, jobs, batch, piece,
                 listening, receiving, historyVars>>

\* stopServer: the TCP server stops its pool first, the Unix server its listener.
stopBegin ==
  /\ "stopServer" \in AppCalls
  /\ pc[App] = "idle"
  /\ IF kind = "tcp" THEN receiving' = FALSE /\ UNCHANGED listening
     ELSE listening' = FALSE /\ UNCHANGED receiving
  /\ Goto(App, "join")
  /\ UNCHANGED <<kind, kernelVars, clients, jobs, batch, arg, piece, historyVars>>

ReadersEnded == \A w \in Readers : pc[w] = "ended"

stopRest ==
  /\ pc[App] = "join"
  /\ IF kind = "tcp" THEN ReadersEnded ELSE pc[Listener] = "ended"
  /\ listening' = FALSE /\ receiving' = FALSE
  /\ Goto(App, "joinRest")
  /\ UNCHANGED <<kind, kernelVars, clients, jobs, batch, arg, piece, historyVars>>

\* The listening socket, epoll and every client's descriptor; the entries stay.
stopClose ==
  /\ pc[App] = "joinRest"
  /\ ReadersEnded /\ pc[Listener] = "ended"
  /\ sock' = [fd \in FD |-> IF clients[fd] = None THEN sock[fd] ELSE None]
  /\ backlog' = <<>>
  /\ watched' = {} /\ edge' = {}
  /\ Goto(App, "stopped")
  /\ UNCHANGED <<kind, peer, sent, rcvd, clients, jobs, batch, arg, piece, listening,
                 receiving, historyVars>>

-----------------------------------------------------------------------------
Listen == \/ epollWait \/ callConnected \/ endListener
          \/ \E e \in batch : handleQuit(e) \/ acceptClient(e) \/ pushJob(e)
          \/ closeClient(Listener)

Read(w) == \/ takeJob(w) \/ recvPiece(w) \/ onRecv(w) \/ recvNothing(w) \/ recvError(w)
           \/ endReader(w) \/ closeClient(w)

Next ==
  \/ \E c \in Conn : Connect(c) \/ Send(c) \/ HangUp(c)
  \/ Listen
  \/ \E w \in Readers : Read(w)
  \/ \E fd \in FD : appClose(fd)
  \/ closeClient(App)
  \/ stopBegin \/ stopRest \/ stopClose

\* Each thread of the program goes on; peers and the application need not.
Fairness ==
  /\ WF_vars(Listen)
  /\ \A w \in Reader : WF_vars(w \in Readers /\ Read(w))
  /\ WF_vars(closeClient(App))

Spec == Init /\ [][Next]_vars
FairSpec == Spec /\ Fairness

-----------------------------------------------------------------------------
Events_ == [fd : FD \cup {Server}, quit : BOOLEAN]

\* Every variable has its type.
TypeOK ==
  /\ kind \in Kinds
  /\ peer \in [Conn -> {"new", "up", "shut", "reset"}]
  /\ backlog \in Seq(Conn)
  /\ sock \in [FD -> Conn \cup {None}]
  /\ sent \in [Conn -> 0 .. MaxPieces[kind]] /\ rcvd \in [Conn -> 0 .. MaxPieces[kind]]
  /\ watched \subseteq FD /\ edge \subseteq watched
  /\ clients \in [FD -> Conn \cup {None}]
  /\ jobs \in Seq([fd : FD, des : Conn])
  /\ batch \subseteq Events_
  /\ pc \in [Thread -> {"idle", "lookup", "close", "erase", "accepted", "recv", "hand",
                        "ended", "join", "joinRest", "stopped"}]
  /\ arg \in [Thread -> [fd : FD \cup {Server}, des : Conn \cup {None}]]
  /\ piece \in [Reader -> (Conn \cup {None}) \X (0 .. MaxPieces[kind])]
  /\ listening \in BOOLEAN /\ receiving \in BOOLEAN
  /\ told \in [Conn -> Seq({"on", "off"})]
  /\ handed \in [Conn -> Seq((1 .. MaxPieces[kind]) \X Conn)]
  /\ raced \subseteq Conn /\ lost \subseteq Conn

\* An entry of the map is there exactly while its descriptor is open on that
\* connection, except inside the closeClient that removes it and, for the
\* entries stopServer leaves behind, after it: no closed number stays
\* registered, no open connection is forgotten.  Only a connection that two
\* closeClient calls overlap on (or whose number they still hold) is exempt,
\* and the Unix server, which closes in one thread, has none.
EntriesAreOpen ==
  /\ kind = "unix" => raced = {}
  /\ \A c \in Conn \ raced :
       (Closers(c) = {} /\ pc[App] # "stopped") =>
          \A fd \in FD : clients[fd] = c <=> sock[fd] = c

\* onConnectionChanged tells the end of a connection at most once, and it is
\* told for every connection whose descriptor was closed in service; in the Unix
\* server it comes after the beginning was told and only if the peer is gone.
EndToldOnce ==
  \A c \in Conn \ raced :
    /\ Cardinality({i \in 1 .. Len(told[c]) : told[c][i] = "off"}) <= 1
    /\ (peer[c] # "new" /\ ~InBacklog(c) /\ DescriptorsOf(c) = {} /\ pc[App] # "stopped")
          => \E i \in 1 .. Len(told[c]) : told[c][i] = "off"
    /\ (kind = "unix" /\ told[c] # <<>>) =>
          told[c] = <<"on">> \/ (told[c] = <<"on", "off">> /\ Gone(c))

\* onRecv hands every piece on at most once; the Unix server in the order it was
\* sent; under the address of another connection only after the end of that one
\* was told, when a queued job found its number used again.
HandedOnce ==
  \A c \in Conn :
    /\ \A i, j \in 1 .. Len(handed[c]) : handed[c][i][1] = handed[c][j][1] => i = j
    /\ kind = "unix" => \A i \in 1 .. Len(handed[c]) : handed[c][i][1] = i
    /\ \A i \in 1 .. Len(handed[c]) :
         LET d == handed[c][i][2] IN
         d # c /\ d \notin raced => \E k \in 1 .. Len(told[d]) : told[d][k] = "off"

\* The callbacks tell the application what became of a connection: its end once,
\* its data once, and no data under an address that is still in use by another.
CallbacksAreTrue == EndToldOnce /\ HandedOnce

\* What a peer has done and the server has not answered: a connection to accept,
\* data to read, an end to tell.
Unserved(c) ==
  \/ InBacklog(c)
  \/ DescriptorsOf(c) # {} /\ Unread(c)
  \/ Gone(c) /\ \A i \in 1 .. Len(told[c]) : told[c][i] # "off"

\* A connection is accepted, what it sends is read, and its end is told, unless the
\* listener left the event behind when it broke out of its loop after a close (or
\* two threads close the connection, or the server stops).
EventsAreServed ==
  \A c \in Conn :
    Unserved(c) ~> (~Unserved(c) \/ c \in raced \/ c \in lost \/ ~listening \/ ~receiving)
=============================================================================
